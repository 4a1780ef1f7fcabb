----------------------- MODULE NativeIngressSafety -----------------------
(***************************************************************************)
(* Safety of the native ingress runtime, for every configuration: which    *)
(* generations can be active, and who owns them.                           *)
(***************************************************************************)
EXTENDS NativeIngressProofs

Step(t) == Runtime(t) \/ Guest(t) \/ Host(t)

\* No frame leaves, and none changes its ingress generation.
FramesKeep ==
  \A u \in Threads :
    /\ Len(frames[u]) <= Len(frames'[u])
    /\ \A k \in 1 .. Len(frames[u]) :
         frames'[u][k].generation = frames[u][k].generation

\* What every step does that neither publishes a generation nor pops a frame.
Quiet(t) ==
  /\ SlotsNarrow
  /\ publisher' = publisher
  /\ FramesKeep
  /\ OthersStay(t)
  /\ pc'[t] = "expire" => op'[t].cursor = 0 \/ ExpireTop(t)

-----------------------------------------------------------------------------
\* Frames that do not change keep.
LEMMA SameFrames ==
  ASSUME Typed, UNCHANGED frames
  PROVE  FramesKeep
<1>1. \A u \in Threads : frames[u] \in Seq(Frame)
  BY DEF Typed, TypeOK
<1>2. \A u \in Threads : Len(frames[u]) \in Nat
  BY <1>1, LenProperties
<1>3. QED
  BY <1>2 DEF FramesKeep

\* Frames keep when the new top has the generation of the old one.
LEMMA SameTopGeneration ==
  ASSUME Typed, NEW t \in Threads, frames[t] # <<>>, NEW f \in Frame,
         SetTop(t, f), f.generation = Top(t).generation
  PROVE  FramesKeep /\ \A u \in Threads \ {t} : frames'[u] = frames[u]
<1>1. \A u \in Threads : Len(frames[u]) \in Nat
  BY LenProperties DEF Typed, TypeOK
<1>2. /\ Len(frames'[t]) = Len(frames[t])
      /\ \A j \in 1 .. Len(frames[t]) :
           frames'[t][j] = IF j = Len(frames[t]) THEN f ELSE frames[t][j]
      /\ \A u \in Threads \ {t} : frames'[u] = frames[u]
  BY SetTopMoves DEF Typed
<1>3. QED
  BY <1>1, <1>2 DEF FramesKeep, Top, Depth

\* The rewrites of the top frame that the actions make.
LEMMA TopRewrites ==
  ASSUME Typed, NEW t \in Threads, frames[t] # <<>>,
         \/ \E phase \in Phases : SetTop(t, [Top(t) EXCEPT !.phase = phase])
         \/ \E phase \in Phases, pending \in Grant :
              \/ SetTop(t, [Top(t) EXCEPT !.phase = phase, !.pending = pending])
              \/ SetTop(t, [Top(t) EXCEPT !.pending = pending, !.phase = phase])
         \/ SetTop(t, HandlerRuns(Top(t)))
  PROVE  FramesKeep /\ \A u \in Threads \ {t} : frames'[u] = frames[u]
<1>1. Top(t) \in Frame
  BY TopTyped DEF Typed
<1>2. PICK f \in Frame : SetTop(t, f) /\ f.generation = Top(t).generation
  <2>1. \A phase \in Phases : \A pending \in Grant :
          /\ [Top(t) EXCEPT !.phase = phase].generation = Top(t).generation
          /\ [Top(t) EXCEPT !.phase = phase, !.pending = pending].generation
               = Top(t).generation
          /\ [Top(t) EXCEPT !.pending = pending, !.phase = phase].generation
               = Top(t).generation
          /\ HandlerRuns(Top(t)).generation = Top(t).generation
    BY <1>1 DEF Frame, HandlerRuns
  <2>2. "done" \in Phases /\ NoGrant \in Grant
    BY NoOpTyped DEF Phases
  <2>3. QED
    BY <2>1, <2>2, TopFields
<1>3. QED
  BY <1>2, SameTopGeneration

\* A push keeps the frames below it.
LEMMA PushKeepsFrames ==
  ASSUME Typed, NEW t \in Threads, PushFrame(t)
  PROVE  FramesKeep /\ \A u \in Threads \ {t} : frames'[u] = frames[u]
<1>1. /\ frames \in [Threads -> Seq(Frame)]
      /\ \A u \in Threads : frames[u] \in Seq(Frame) /\ Len(frames[u]) \in Nat
  BY LenProperties DEF Typed, TypeOK
<1>2. PICK f : frames' = [frames EXCEPT ![t] = Append(frames[t], f)]
  BY DEF PushFrame
<1>3. \A u \in Threads \ {t} : frames'[u] = frames[u]
  BY <1>1, <1>2
<1>4. /\ Len(frames'[t]) = Len(frames[t]) + 1
      /\ \A k \in 1 .. Len(frames[t]) : frames'[t][k] = frames[t][k]
  BY <1>1, <1>2
<1>5. QED
  BY <1>1, <1>3, <1>4 DEF FramesKeep

-----------------------------------------------------------------------------
(* Every step but a publication and a pop is quiet.                        *)
LEMMA EntryQuiet ==
  ASSUME Typed, NEW t \in Threads,
         \/ \E b \in Bridges, r \in Reasons : Enter(t, b, r)
         \/ CheckImage(t) \/ AuthorizeCapability(t) \/ RefuseStack(t)
         \/ ThreadExits(t)
  PROVE  Quiet(t)
<1>1. UNCHANGED <<frames, publisher>>
  BY DEF Enter, CheckImage, AuthorizeCapability, RefuseStack, ThreadExits, shared
<1>2. FramesKeep
  BY <1>1, SameFrames
<1>3. SlotsNarrow
  <2>1. CASE AuthorizeCapability(t)
    BY <2>1, AuthorizeCapabilityNarrows
  <2>2. CASE UNCHANGED slots
    BY <2>2, SlotsUnchanged DEF Typed
  <2>3. QED
    BY <2>1, <2>2 DEF Enter, CheckImage, RefuseStack, ThreadExits, shared
<1>4. pc \in [Threads -> Steps] /\ op \in [Threads -> Op]
  BY DEF Typed, TypeOK
<1>5. OthersStay(t)
  BY <1>1, <1>4 DEF OthersStay, Enter, CheckImage, AuthorizeCapability,
     RefuseStack, ThreadExits, Goto, Return, Advance
<1>6. pc'[t] # "expire"
  BY <1>4 DEF Enter, CheckImage, AuthorizeCapability, RefuseStack,
     ThreadExits, Goto, Return, Advance, Idle
<1>7. QED
  BY <1>1, <1>2, <1>3, <1>5, <1>6 DEF Quiet

\* A push is quiet.
LEMMA PushQuiet ==
  ASSUME Typed, NEW t \in Threads, PushFrame(t)
  PROVE  Quiet(t)
<1>1. SlotsNarrow /\ publisher' = publisher
  BY SlotsUnchanged DEF PushFrame, shared, Typed
<1>2. /\ pc'[t] = "run"
      /\ \A u \in Threads \ {t} : pc'[u] = pc[u] /\ op'[u] = op[u]
  BY ReturnMoves DEF PushFrame, Typed
<1>3. QED
  BY <1>1, <1>2, PushKeepsFrames DEF Quiet, OthersStay

\* Guest code that only rewrites its frame is quiet.
LEMMA GuestQuiet ==
  ASSUME Typed, NEW t \in Threads,
         \/ Preflight(t) \/ StartCall(t) \/ CallAborts(t) \/ GuestFails(t)
         \/ \E a \in Activations : ActivationRefused(t, a)
         \/ \E ok \in BOOLEAN : CallReturns(t, ok)
  PROVE  Quiet(t)
<1>1. frames[t] # <<>> /\ pc[t] = "run" /\ Top(t) \in Frame
  <2>1. frames[t] # <<>> /\ pc[t] = "run"
    BY DEF Preflight, StartCall, CallAborts, GuestFails, ActivationRefused,
       CallReturns, InPhase
  <2>2. QED
    BY <2>1, TopTyped DEF Typed
<1>2. UNCHANGED <<pc, op, publisher>>
  BY DEF Preflight, StartCall, CallAborts, GuestFails, ActivationRefused,
     CallReturns, shared
<1>3. \/ \E phase \in Phases : SetTop(t, [Top(t) EXCEPT !.phase = phase])
      \/ \E phase \in Phases, pending \in Grant :
           SetTop(t, [Top(t) EXCEPT !.pending = pending, !.phase = phase])
  <2>1. Top(t).phase \in Phases
    BY <1>1 DEF Frame
  <2>2. CASE Preflight(t) \/ StartCall(t) \/ GuestFails(t)
    BY <2>2 DEF Preflight, StartCall, GuestFails, Phases
  <2>3. CASE CallAborts(t)
    BY <2>3, NoOpTyped DEF CallAborts, Phases
  <2>4. CASE \E a \in Activations : ActivationRefused(t, a)
    BY <2>1, <2>4 DEF ActivationRefused, Phases
  <2>5. CASE \E ok \in BOOLEAN : CallReturns(t, ok)
    BY <2>5, NoOpTyped DEF CallReturns, Phases
  <2>6. QED
    BY <2>2, <2>3, <2>4, <2>5
<1>4. FramesKeep /\ \A u \in Threads \ {t} : frames'[u] = frames[u]
  BY <1>1, <1>3, TopRewrites
<1>5. SlotsNarrow
  <2>1. CASE \E ok \in BOOLEAN : CallReturns(t, ok)
    BY <2>1, SettlingNarrows
  <2>2. CASE UNCHANGED slots
    BY <2>2, SlotsUnchanged DEF Typed
  <2>3. QED
    BY <2>1, <2>2 DEF Preflight, StartCall, CallAborts, GuestFails,
       ActivationRefused, shared
<1>6. QED
  BY <1>1, <1>2, <1>4, <1>5 DEF Quiet, OthersStay

\* The steps of operations that leave the frames alone are quiet.
LEMMA OperationQuiet ==
  ASSUME Typed, NEW t \in Threads,
         \/ \E a \in Activations : ActivateCapability(t, a)
         \/ CommitResult(t) \/ ClearReplaced(t)
         \/ \E c \in Capabilities : StartEvent(t, EndEvent[c])
         \/ ExpireEvent(t) \/ ExpireOwner(t) \/ ExpireProcess(t) \/ ExpireTop(t)
         \/ DeactivateImage(t) \/ RetireImage(t)
  PROVE  Quiet(t)
<1>1. UNCHANGED <<frames, publisher>>
  BY DEF ActivateCapability, CommitResult, ClearReplaced, StartEvent,
     ExpireEvent, ExpireOwner, ExpireProcess, ExpireTop, DeactivateImage,
     RetireImage, shared
<1>2. FramesKeep
  BY <1>1, SameFrames
<1>3. SlotsNarrow
  <2>1. CASE CommitResult(t) \/ ClearReplaced(t)
    BY <2>1, SettlingNarrows
  <2>2. CASE ExpireEvent(t) \/ ExpireOwner(t) \/ ExpireProcess(t) \/ ExpireTop(t)
    BY <2>2, ExpiryNarrows
  <2>3. CASE UNCHANGED slots
    BY <2>3, SlotsUnchanged DEF Typed
  <2>4. QED
    BY <2>1, <2>2, <2>3 DEF ActivateCapability, StartEvent, DeactivateImage,
       RetireImage, shared
<1>4. pc \in [Threads -> Steps] /\ op \in [Threads -> Op]
  BY DEF Typed, TypeOK
<1>5. OthersStay(t)
  BY <1>1, <1>4 DEF OthersStay, ActivateCapability, CommitResult,
     ClearReplaced, StartEvent, ExpireEvent, ExpireOwner, ExpireProcess,
     ExpireTop, DeactivateImage, RetireImage, Goto, Return, Advance
<1>6. pc'[t] # "expire" \/ ExpireTop(t)
  BY <1>4 DEF ActivateCapability, CommitResult, ClearReplaced, StartEvent,
     ExpireEvent, ExpireOwner, ExpireProcess, DeactivateImage, RetireImage,
     Goto, Return, Advance
<1>7. QED
  BY <1>1, <1>2, <1>3, <1>5, <1>6 DEF Quiet

\* The ends of operations are quiet.
LEMMA ReturningQuiet ==
  ASSUME Typed, NEW t \in Threads,
         PublishRefused(t) \/ RevokeResult(t) \/ GuestReturns(t)
  PROVE  Quiet(t)
<1>1. /\ frames[t] # <<>>
      /\ SetTop(t, [Top(t) EXCEPT !.phase = "done"])
      /\ publisher' = publisher
  BY DEF PublishRefused, RevokeResult, GuestReturns, InPhase, Typed, Shape, shared
<1>2. FramesKeep /\ \A u \in Threads \ {t} : frames'[u] = frames[u]
  BY <1>1, TopRewrites DEF Phases
<1>3. SlotsNarrow
  <2>1. CASE RevokeResult(t)
    BY <2>1, SettlingNarrows
  <2>2. CASE UNCHANGED slots
    BY <2>2, SlotsUnchanged DEF Typed
  <2>3. QED
    BY <2>1, <2>2 DEF PublishRefused, GuestReturns, shared
<1>4. pc \in [Threads -> Steps] /\ op \in [Threads -> Op]
  BY DEF Typed, TypeOK
<1>5. \A u \in Threads \ {t} : pc'[u] = pc[u] /\ op'[u] = op[u]
  BY <1>4 DEF PublishRefused, RevokeResult, GuestReturns, Goto, Return
<1>6. pc'[t] # "expire"
  BY <1>4 DEF PublishRefused, RevokeResult, GuestReturns, Goto, Return, InPhase
<1>7. QED
  BY <1>1, <1>2, <1>3, <1>5, <1>6 DEF Quiet, OthersStay

\* The start of leaving is quiet.
LEMMA LeavingQuiet ==
  ASSUME Typed, NEW t \in Threads,
         \/ StartFinish(t)
         \/ \E k \in 1 .. Depth(t) : Fault(t, k)
         \/ \E k \in 0 .. Depth(t) : Unwind(t, k)
  PROVE  Quiet(t)
<1>1. frames[t] # <<>> /\ pc[t] = "run" /\ UNCHANGED shared
  BY DEF StartFinish, Fault, Unwind, InPhase
<1>2. SlotsNarrow /\ publisher' = publisher
  BY <1>1, SlotsUnchanged DEF Typed, shared
<1>3. pc \in [Threads -> Steps] /\ op \in [Threads -> Op]
  BY DEF Typed, TypeOK
<1>4. ASSUME SetTop(t, HandlerRuns(Top(t))), UNCHANGED <<pc, op>>
      PROVE  Quiet(t)
  BY <1>1, <1>2, <1>4, TopRewrites DEF Quiet, OthersStay
<1>5. ASSUME UNCHANGED frames, NEW use, NEW k, Leave(t, use, k)
      PROVE  Quiet(t)
  <2>1. op'[t].cursor = 0 /\ \A u \in Threads \ {t} : pc'[u] = pc[u] /\ op'[u] = op[u]
    BY <1>3, <1>5 DEF Leave, Goto, NoOp
  <2>2. QED
    BY <1>2, <1>5, <2>1, SameFrames DEF Quiet, OthersStay
<1>6. QED
  BY <1>4, <1>5 DEF StartFinish, Fault, Unwind

\* Every step publishes, pops, or is quiet.
LEMMA StepKinds ==
  ASSUME Typed, NEW t \in Threads, Step(t)
  PROVE  PublishCapability(t) \/ PopTop(t) \/ Quiet(t)
<1>1. CASE Runtime(t)
  BY <1>1, EntryQuiet, PushQuiet, GuestQuiet, ReturningQuiet, OperationQuiet,
     LeavingQuiet DEF Runtime
<1>2. CASE Guest(t)
  BY <1>2, GuestQuiet, ReturningQuiet, OperationQuiet, LeavingQuiet DEF Guest
<1>3. CASE Host(t)
  BY <1>3, EntryQuiet DEF Host
<1>4. QED
  BY <1>1, <1>2, <1>3 DEF Step

-----------------------------------------------------------------------------
(* Nothing is evicted: the only step that fills a slot takes a free one.   *)
LEMMA PublishKeepsFrames ==
  ASSUME Typed, NEW t \in Threads, PublishCapability(t)
  PROVE  FramesKeep /\ OthersStay(t) /\ pc'[t] # "expire"
<1>1. /\ frames[t] # <<>> /\ op[t].grant \in Grant
      /\ pc \in [Threads -> Steps] /\ op \in [Threads -> Op]
  BY DEF PublishCapability, Typed, TypeOK, Shape, Op
<1>2. FramesKeep /\ \A u \in Threads \ {t} : frames'[u] = frames[u]
  <2>1. \/ UNCHANGED frames
        \/ SetTop(t, [Top(t) EXCEPT !.phase = "call", !.pending = op[t].grant])
    BY DEF PublishCapability
  <2>2. QED
    BY <1>1, <2>1, SameFrames, TopRewrites DEF Phases
<1>3. \A u \in Threads \ {t} : pc'[u] = pc[u] /\ op'[u] = op[u]
  BY <1>1 DEF PublishCapability, Goto, Return
<1>4. pc'[t] # "expire"
  BY <1>1 DEF PublishCapability, Goto, Return
<1>5. QED
  BY <1>2, <1>3, <1>4 DEF OthersStay

\* No step replaces an active generation that is not to be replaced.
LEMMA StepEvictsNothing ==
  ASSUME Typed, [Next]_vars
  PROVE  \A c \in Capabilities : \A i \in SlotIds :
           Lifetime[c] # "until_replaced" /\ slots[c][i].active /\ slots'[c][i].active
             => slots'[c][i].generation = slots[c][i].generation
<1>1. CASE UNCHANGED slots
  BY <1>1
<1>2. CASE SlotsNarrow
  BY <1>2 DEF SlotsNarrow, Narrows
<1>3. ASSUME NEW t \in Threads, PublishCapability(t),
             NEW c \in Capabilities, NEW i \in SlotIds,
             Lifetime[c] # "until_replaced", slots[c][i].active
      PROVE  slots'[c][i] = slots[c][i]
  BY <1>3, PublishedSlot
<1>4. ASSUME NEW t \in Threads, Step(t)
      PROVE  UNCHANGED slots \/ SlotsNarrow \/ PublishCapability(t)
  BY <1>4, StepKinds DEF Quiet, PopTop, shared
<1>5. QED
  BY <1>1, <1>2, <1>3, <1>4 DEF Next, Step, vars

(* A full table refuses: publishing never evicts an active generation,     *)
(* except of a capability whose lifetime is to be replaced.                *)
THEOREM PublishingNeverEvicts == Spec => NeverEvicts
BY TypedCorrect, StepEvictsNothing, PTL DEF Spec, NeverEvicts

-----------------------------------------------------------------------------
(* Ownership.  While thread t leaves its top frame, the capabilities its   *)
(* scan has passed hold nothing that t published for that ingress; this is *)
(* what makes ProvisionalHasLiveOwner survive the pop.                     *)
Swept(t) ==
  pc[t] = "expire" =>
    \A c \in Capabilities : \A i \in SlotIds :
      /\ c < op[t].cursor /\ slots[c][i].active
      /\ slots[c][i].owner_ingress # 0 /\ publisher[c][i] = t
      => slots[c][i].owner_ingress # Top(t).generation

Ownership ==
  /\ \A c \in Capabilities : \A i \in SlotIds :
       slots[c][i].active => publisher[c][i] \in Threads
  /\ ProvisionalHasLiveOwner
  /\ \A t \in Threads : Swept(t)

\* What a frame owns it still owns while frames keep.
LEMMA KeptFramesOwn ==
  ASSUME Typed, FramesKeep, NEW u \in Threads, NEW g,
         \E k \in 1 .. Depth(u) : frames[u][k].generation = g
  PROVE  (\E k \in 1 .. Depth(u) : frames[u][k].generation = g)'
<1>1. Len(frames[u]) \in Nat
  BY LenProperties DEF Typed, TypeOK
<1>2. PICK k \in 1 .. Len(frames[u]) : frames[u][k].generation = g
  BY DEF Depth
<1>3. k \in 1 .. Len(frames'[u]) /\ frames'[u][k].generation = g
  BY <1>1, <1>2 DEF FramesKeep
<1>4. QED
  BY <1>3 DEF Depth

\* Nothing is owned initially.
LEMMA InitOwnership == Init => Ownership
BY DEF Init, Ownership, ProvisionalHasLiveOwner, Swept, EmptySlot

\* Quiet steps keep the ownership.
LEMMA QuietOwnership ==
  ASSUME Typed, Ownership, NEW t \in Threads, Quiet(t)
  PROVE  Ownership'
<1>1. ASSUME NEW c \in Capabilities, NEW i \in SlotIds, slots'[c][i].active
      PROVE  /\ slots[c][i].active /\ publisher'[c][i] = publisher[c][i]
             /\ slots'[c][i].owner_ingress # 0 =>
                  slots'[c][i].owner_ingress = slots[c][i].owner_ingress
  BY <1>1 DEF Quiet, SlotsNarrow, Narrows
<1>2. \A c \in Capabilities : \A i \in SlotIds :
        slots'[c][i].active => publisher'[c][i] \in Threads
  BY <1>1 DEF Ownership
<1>3. ASSUME NEW c \in Capabilities, NEW i \in SlotIds,
             slots'[c][i].active, slots'[c][i].owner_ingress # 0
      PROVE  (\E k \in 1 .. Depth(publisher[c][i]) :
                frames[publisher[c][i]][k].generation = slots[c][i].owner_ingress)'
  <2> DEFINE u == publisher[c][i]
             g == slots[c][i].owner_ingress
  <2>1. u \in Threads /\ u' = u /\ g' = g
    BY <1>1, <1>3 DEF Ownership
  <2>2. \E k \in 1 .. Depth(u) : frames[u][k].generation = g
    BY <1>1, <1>3 DEF Ownership, ProvisionalHasLiveOwner
  <2>3. \E k \in 1 .. Len(frames'[u]) : frames'[u][k].generation = g
    <3> HIDE DEF u, g
    <3> QED BY <2>1, <2>2, KeptFramesOwn DEF Quiet, Depth
  <2>4. QED
    BY <2>1, <2>3 DEF Depth
<1>4. ProvisionalHasLiveOwner'
  BY <1>3 DEF ProvisionalHasLiveOwner
<1>5. ASSUME NEW u \in Threads \ {t}
      PROVE  Swept(u)'
  BY <1>1 DEF Swept, Ownership, Quiet, OthersStay, Top, Depth
<1>6. Swept(t)'
  <2>1. CASE pc'[t] # "expire"
    BY <2>1 DEF Swept
  <2>2. CASE op'[t].cursor = 0
    BY <2>2, ConfigurationAssumption DEF Swept, Capabilities
  <2>3. CASE ExpireTop(t)
    <3> DEFINE k == op[t].cursor
               g == Top(t).generation
    <3>1. /\ frames[t] # <<>> /\ k \in Nat /\ k < CapabilityCount
          /\ slots \in [Capabilities -> Table]
      BY <2>3 DEF ExpireTop, Typed, TypeOK, Shape, Op
    <3>2. g \in Nat
      BY <3>1, TopTyped DEF Typed, Frame
    <3>3. k \in Capabilities
      BY <3>1, ConfigurationAssumption DEF Capabilities
    <3>4. slots'[k] = ExpireIngress(slots[k], g)
      BY <2>3, <3>1, <3>3 DEF ExpireTop
    <3>5. \A i \in SlotIds : slots'[k][i].active /\ slots'[k][i].owner_ingress # 0
            => slots'[k][i].owner_ingress # g
      <4>1. slots[k] \in Table
        BY <3>1, <3>3
      <4> HIDE DEF k, g
      <4>2. QED
        BY <3>2, <3>4, <4>1, ExpireIngressNarrows
    <3>6. op'[t].cursor = k + 1 /\ UNCHANGED <<pc, frames>>
      <4>1. op'[t] = [op[t] EXCEPT !.cursor = k + 1] /\ pc' = pc
        BY <2>3, AdvanceMoves DEF ExpireTop, Typed
      <4>2. op[t] \in Op /\ frames' = frames
        BY <2>3 DEF ExpireTop, Typed, TypeOK
      <4>3. QED
        BY <4>1, <4>2 DEF Op
    <3>7. ASSUME NEW c \in Capabilities, NEW i \in SlotIds, c < k + 1,
                 slots'[c][i].active, slots'[c][i].owner_ingress # 0,
                 publisher'[c][i] = t
          PROVE  slots'[c][i].owner_ingress # g
      <4>1. CASE c = k
        BY <3>5, <3>7, <4>1
      <4>2. CASE c < k
        <5>1. pc[t] = "expire"
          BY <2>3 DEF ExpireTop
        <5>2. QED
          BY <1>1, <3>7, <4>2, <5>1 DEF Ownership, Swept
      <4>3. c \in Nat
        BY ConfigurationAssumption DEF Capabilities
      <4>4. QED
        BY <3>1, <3>7, <4>1, <4>2, <4>3
    <3>8. QED
      BY <3>6, <3>7 DEF Swept, Top, Depth
  <2>4. QED
    BY <2>1, <2>2, <2>3 DEF Quiet
<1>7. QED
  BY <1>2, <1>4, <1>5, <1>6 DEF Ownership

\* A publication is owned by the top frame of its publisher.
LEMMA PublishOwnership ==
  ASSUME Typed, Ownership, NEW t \in Threads, PublishCapability(t)
  PROVE  Ownership'
<1> DEFINE c0 == op[t].grant.capability
           i0 == First(Free(slots[c0], Lifetime[c0]))
<1>1. /\ FramesKeep /\ OthersStay(t) /\ pc'[t] # "expire"
      /\ frames[t] # <<>> /\ Depth(t) \in Nat \ {0}
  <2>1. frames[t] # <<>>
    BY DEF PublishCapability, Typed, Shape
  <2>2. QED
    BY <2>1, PublishKeepsFrames, TopTyped DEF Typed
<1>2. /\ slots'[c0][i0].owner_ingress = Top(t).generation
      /\ publisher'[c0][i0] = t
      /\ \A d \in Capabilities : \A j \in SlotIds : d # c0 \/ j # i0 =>
           slots'[d][j] = slots[d][j] /\ publisher'[d][j] = publisher[d][j]
  <2>1. /\ slots'[c0][i0] = NewSlot(op[t].grant.generation, op[t].grant.escaped,
                                     t, Top(t).generation)
        /\ publisher'[c0][i0] = t
        /\ \A d \in Capabilities : \A j \in SlotIds : d # c0 \/ j # i0 =>
             slots'[d][j] = slots[d][j] /\ publisher'[d][j] = publisher[d][j]
    BY PublishedSlot
  <2> HIDE DEF c0, i0
  <2>2. QED
    BY <2>1 DEF NewSlot
<1> HIDE DEF c0, i0
<1>3. \A c \in Capabilities : \A i \in SlotIds :
        slots'[c][i].active => publisher'[c][i] \in Threads
  BY <1>2 DEF Ownership
<1>4. ASSUME NEW c \in Capabilities, NEW i \in SlotIds,
             slots'[c][i].active, slots'[c][i].owner_ingress # 0
      PROVE  (\E k \in 1 .. Depth(publisher[c][i]) :
                frames[publisher[c][i]][k].generation = slots[c][i].owner_ingress)'
  <2>1. PICK u \in Threads, g \in {slots'[c][i].owner_ingress} :
          /\ u = publisher'[c][i] /\ g = slots'[c][i].owner_ingress
          /\ \E k \in 1 .. Depth(u) : frames[u][k].generation = g
    <3>1. CASE c = c0 /\ i = i0
      BY <1>1, <1>2, <3>1 DEF Top
    <3>2. CASE c # c0 \/ i # i0
      BY <1>2, <1>4, <3>2 DEF Ownership, ProvisionalHasLiveOwner
    <3>3. QED
      BY <3>1, <3>2
  <2>2. (\E k \in 1 .. Depth(u) : frames[u][k].generation = g)'
    BY <1>1, <2>1, KeptFramesOwn
  <2>3. QED
    BY <2>1, <2>2 DEF Depth
<1>5. ASSUME NEW u \in Threads
      PROVE  Swept(u)'
  BY <1>1, <1>2 DEF Swept, Ownership, OthersStay, Top, Depth
<1>6. QED
  BY <1>3, <1>4, <1>5 DEF Ownership, ProvisionalHasLiveOwner

(* The frame that goes owned nothing any more.                             *)
LEMMA PopOwnership ==
  ASSUME Typed, Ownership, NEW t \in Threads, PopTop(t)
  PROVE  Ownership'
<1>1. /\ pc[t] = "expire" /\ op[t].cursor = CapabilityCount
      /\ UNCHANGED <<slots, publisher>>
      /\ frames[t] # <<>> /\ Depth(t) \in Nat \ {0}
      /\ op[t] \in Op /\ pc \in [Threads -> Steps] /\ op \in [Threads -> Op]
  <2>1. frames[t] # <<>> /\ pc[t] = "expire"
    BY DEF PopTop, Typed, Shape
  <2>2. QED
    BY <2>1, TopTyped DEF Typed, TypeOK, PopTop, shared
<1>2. /\ Len(frames'[t]) = Depth(t) - 1
      /\ \A k \in 1 .. (Depth(t) - 1) :
           frames'[t][k].generation = frames[t][k].generation
      /\ \A u \in Threads \ {t} : frames'[u] = frames[u]
  <2>1. \A k \in 1 .. (Depth(t) - 1) : frames[t][k] \in Frame
    BY <1>1, ElementOfSeq DEF Typed, TypeOK, Depth
  <2>2. \A k \in 1 .. (Depth(t) - 1) :
          HandlerRuns(frames[t][k]).generation = frames[t][k].generation
    BY <2>1 DEF HandlerRuns, Frame
  <2>3. QED
    BY <2>2, PopLeaves
<1>3. ASSUME NEW c \in Capabilities, NEW i \in SlotIds,
             slots[c][i].active, slots[c][i].owner_ingress # 0
      PROVE  \E k \in 1 .. Len(frames'[publisher[c][i]]) :
               frames'[publisher[c][i]][k].generation = slots[c][i].owner_ingress
  <2>1. PICK k \in 1 .. Depth(publisher[c][i]) :
               frames[publisher[c][i]][k].generation = slots[c][i].owner_ingress
    BY <1>3 DEF Ownership, ProvisionalHasLiveOwner
  <2>2. CASE publisher[c][i] # t
    BY <1>2, <1>3, <2>1, <2>2 DEF Ownership, Depth
  <2>3. CASE publisher[c][i] = t
    <3>1. c < op[t].cursor
      BY <1>1, ConfigurationAssumption DEF Capabilities
    <3>2. slots[c][i].owner_ingress # Top(t).generation
      BY <1>1, <1>3, <2>3, <3>1 DEF Ownership, Swept
    <3>3. k \in 1 .. (Depth(t) - 1)
      BY <1>1, <2>1, <2>3, <3>2 DEF Top
    <3>4. QED
      BY <1>2, <2>1, <2>3, <3>3
  <2>4. QED
    BY <2>2, <2>3
<1>4. ProvisionalHasLiveOwner'
  BY <1>1, <1>3 DEF ProvisionalHasLiveOwner, Depth
<1>5. \A u \in Threads \ {t} : Swept(u)'
  BY <1>1, <1>2 DEF PopTop, Goto, Return, Swept, Ownership, Top, Depth
<1>6. Swept(t)'
  <2>1. pc'[t] # "expire" \/ op'[t].cursor = 0
    BY <1>1 DEF PopTop, Goto, Return, Op
  <2>2. QED
    BY <2>1, ConfigurationAssumption DEF Swept, Capabilities
<1>7. QED
  BY <1>1, <1>4, <1>5, <1>6 DEF Ownership

\* Ownership is inductive.
LEMMA NextOwnership == Typed /\ Ownership /\ [Next]_vars => Ownership'
<1> SUFFICES ASSUME Typed, Ownership, [Next]_vars PROVE Ownership'
  OBVIOUS
<1>1. CASE UNCHANGED vars
  BY <1>1 DEF vars, Ownership, ProvisionalHasLiveOwner, Swept, Top, Depth
<1>2. ASSUME NEW t \in Threads, Step(t)
      PROVE  Ownership'
  BY <1>2, StepKinds, QuietOwnership, PublishOwnership, PopOwnership
<1>3. QED
  BY <1>1, <1>2 DEF Next, Step

(* A generation that was never committed does not outlive the ingress that *)
(* published it, however that ingress ends: finish, recovery or unwind.    *)
THEOREM UncommittedDiesWithItsIngress == Spec => []ProvisionalHasLiveOwner
<1>1. Ownership => ProvisionalHasLiveOwner
  BY DEF Ownership
<1>2. QED
  BY <1>1, TypedCorrect, InitOwnership, NextOwnership, PTL DEF Spec

-----------------------------------------------------------------------------
(* Operations in progress: where they go, and what they publish.           *)
(* Where a thread goes from a step that is not an entry.                   *)
LEMMA GoingElsewhere ==
  ASSUME Typed, NEW t \in Threads, NEW step, NEW o, Goto(t, step, o)
  PROVE  pc'[t] = step
BY DEF Typed, TypeOK, Goto

\* A step of one thread does not move another.
LEMMA StepLeavesOthers ==
  ASSUME Typed, NEW t \in Threads, Step(t)
  PROVE  OthersStay(t)
<1>1. CASE PopTop(t)
  <2>1. \A u \in Threads \ {t} : pc'[u] = pc[u] /\ op'[u] = op[u]
    BY <1>1 DEF PopTop, Return, Goto, Typed, TypeOK
  <2>2. QED
    BY <1>1, <2>1, PopLeaves DEF OthersStay
<1>2. QED
  BY <1>1, StepKinds, PublishKeepsFrames DEF Quiet

(* An operation publishes what it was started to, and commits what it      *)
(* published.                                                              *)
LEMMA GrantMoves ==
  ASSUME Typed, NEW t \in Threads, Step(t), pc'[t] \in {"publish", "commit"}
  PROVE  \/ /\ \E a \in Activations : ActivateCapability(t, a)
            /\ pc'[t] = "publish"
         \/ /\ PublishCapability(t) /\ pc'[t] = "commit"
            /\ op'[t] = op[t] /\ op[t].grant.escaped
<1>1. pc \in [Threads -> Steps] /\ op \in [Threads -> Op]
  BY DEF Typed, TypeOK
<1>2. ASSUME NEW step, NEW o, Goto(t, step, o)
      PROVE  pc'[t] = step /\ op'[t] = o
  BY <1>1, <1>2 DEF Goto
<1>3. CASE Runtime(t)
  <2>1. \/ PublishCapability(t)
        \/ pc'[t] \in {"run", "push", "authorize", "revoke", "deactivate",
                       "retire", "expire"}
        \/ pc'[t] = pc[t] /\ pc[t] \notin {"publish", "commit"}
    BY <1>2, <1>3 DEF Runtime, CheckImage, AuthorizeCapability, PushFrame,
       RefuseStack, Preflight, PublishRefused, CommitResult, RevokeResult,
       ClearReplaced, ExpireEvent, ExpireOwner, ExpireProcess, DeactivateImage,
       RetireImage, StartFinish, ExpireTop, PopTop, Return, Advance, Leave,
       InPhase
  <2>2. PublishCapability(t)
    BY <2>1
  <2>3. \/ pc'[t] \in {"run", "clear"}
        \/ pc'[t] = "commit" /\ op'[t] = op[t] /\ op[t].grant.escaped
    BY <1>2, <2>2 DEF PublishCapability, Return
  <2>4. QED
    BY <2>2, <2>3
<1>4. CASE Guest(t)
  <2>1. \/ \E a \in Activations : ActivateCapability(t, a)
        \/ pc'[t] \in {"run", "event", "thread", "process", "expire"}
    BY <1>2, <1>4 DEF Guest, StartCall, CallAborts, GuestReturns, GuestFails,
       ActivationRefused, CallReturns, StartEvent, Fault, Unwind, Leave, InPhase
  <2>2. PICK a \in Activations : ActivateCapability(t, a)
    BY <2>1
  <2>3. pc'[t] = "publish"
    BY <1>2, <2>2 DEF ActivateCapability
  <2>4. QED
    BY <2>2, <2>3
<1>5. CASE Host(t)
  <2>1. pc'[t] = "prepare" \/ (pc' = pc /\ pc[t] = "run")
    BY <1>2, <1>5 DEF Host, Enter, ThreadExits, Idle
  <2>2. QED
    BY <2>1
<1>6. QED
  BY <1>3, <1>4, <1>5 DEF Step

\* A grant escapes when the lifetime of its capability does.
Fits(g) == g.escaped = Escapes(g.capability)

\* The grant an activation is about to publish.
LEMMA ActivationFits ==
  ASSUME Typed, NEW t \in Threads, NEW a \in Activations, ActivateCapability(t, a)
  PROVE  /\ op'[t].grant = [capability |-> a[2],
                            generation |-> NextGeneration(next_generation),
                            escaped |-> Escapes(a[2]),
                            owner |-> Top(t).generation]
         /\ op'[t].grant.capability = a[2]
         /\ op'[t].grant.generation = NextGeneration(next_generation)
         /\ op'[t].use = a[1] /\ op'[t].target = a[3]
         /\ Fits(op'[t].grant)
<1>1. op \in [Threads -> Op]
  BY DEF Typed, TypeOK
<1> DEFINE grant == [capability |-> a[2],
                     generation |-> NextGeneration(next_generation),
                     escaped |-> Escapes(a[2]), owner |-> Top(t).generation]
<1> HIDE DEF grant
<1>2. op' = [op EXCEPT ![t] = [NoOp EXCEPT !.use = a[1], !.target = a[3],
                                           !.grant = grant]]
  BY DEF ActivateCapability, Goto, grant
<1>3. /\ op'[t].grant = grant
      /\ op'[t].use = a[1] /\ op'[t].target = a[3]
  BY <1>1, <1>2 DEF NoOp
<1>4. /\ Fits(grant)
      /\ grant.capability = a[2]
      /\ grant.generation = NextGeneration(next_generation)
  BY DEF Fits, grant
<1>5. QED
  BY <1>3, <1>4 DEF grant

(* A slot is active because it was, or because its grant has just been     *)
(* published.                                                              *)
LEMMA LiveMoves ==
  ASSUME Typed, NEW t \in Threads, Step(t),
         NEW c \in Capabilities, NEW i \in SlotIds, slots'[c][i].active
  PROVE  \/ /\ slots[c][i].active
            /\ slots'[c][i].generation = slots[c][i].generation
         \/ /\ PublishCapability(t) /\ pc[t] = "publish"
            /\ c = op[t].grant.capability
            /\ i = First(Free(slots[c], Lifetime[c]))
            /\ slots'[c][i].generation = op[t].grant.generation
<1>0. PublishCapability(t) => pc[t] = "publish"
  BY DEF PublishCapability
<1>1. CASE PublishCapability(t)
  <2> DEFINE c0 == op[t].grant.capability
             i0 == First(Free(slots[c0], Lifetime[c0]))
  <2>1. /\ slots'[c0][i0] = NewSlot(op[t].grant.generation, op[t].grant.escaped,
                                    t, Top(t).generation)
        /\ \A d \in Capabilities : \A j \in SlotIds : d # c0 \/ j # i0 =>
             slots'[d][j] = slots[d][j]
    BY <1>1, PublishedSlot
  <2>2. CASE c = c0 /\ i = i0
    <3> HIDE DEF c0, i0
    <3>1. slots'[c][i].generation = op[t].grant.generation
      BY <2>1, <2>2 DEF NewSlot
    <3> USE DEF c0, i0
    <3>2. QED
      BY <1>0, <1>1, <2>2, <3>1
  <2>3. CASE c # c0 \/ i # i0
    BY <2>1, <2>3
  <2>4. QED
    BY <2>2, <2>3
<1>2. CASE SlotsNarrow
  BY <1>2 DEF SlotsNarrow, Narrows
<1>3. QED
  BY <1>1, <1>2, StepKinds, SlotsUnchanged DEF Quiet, PopTop, shared, Typed

-----------------------------------------------------------------------------
(* Compact callback targets.                                               *)
TargetsClaimed ==
  /\ \A c \in Capabilities : \A i \in SlotIds :
       slots[c][i].active /\ Target[c] # NoTarget => assignments[Target[c]] = c
  /\ \A t \in Threads :
       LET c == op[t].grant.capability
       IN  pc[t] = "publish" /\ Target[c] # NoTarget => assignments[Target[c]] = c

\* A claimed target stays with the capability that claimed it.
LEMMA ClaimsStay ==
  ASSUME Typed, NEW t \in Threads, Step(t), NEW c \in Capabilities,
         assignments[Target[c]] = c
  PROVE  assignments'[Target[c]] = c
<1>1. assignments \in [{Target[d] : d \in Capabilities} -> 0 .. CapabilityCount]
  BY DEF Typed, TypeOK
<1>2. c # CapabilityCount
  BY ConfigurationAssumption DEF Capabilities
<1>3. ASSUME NEW d, Claim(d)
      PROVE  assignments'[Target[c]] = c
  BY <1>1, <1>2, <1>3 DEF Claim
<1>4. UNCHANGED assignments \/ \E d \in Capabilities : Claim(d)
  <2>1. CASE \E a \in Activations : ActivateCapability(t, a) \/ ActivationRefused(t, a)
    BY <2>1, ActivationTyped DEF ActivateCapability, ActivationRefused
  <2>2. QED
    BY <2>1 DEF Step, Runtime, Guest, Host, CheckImage, AuthorizeCapability,
       PushFrame, RefuseStack, Preflight, PublishCapability, PublishRefused,
       CommitResult, RevokeResult, ClearReplaced, ExpireEvent, ExpireOwner,
       ExpireProcess, DeactivateImage, RetireImage, StartFinish, ExpireTop,
       PopTop, StartCall, CallAborts, GuestReturns, GuestFails, CallReturns,
       StartEvent, Fault, Unwind, Enter, ThreadExits, shared
<1>5. QED
  BY <1>3, <1>4

\* An activation has claimed the target of what it publishes.
LEMMA ActivationClaims ==
  ASSUME Typed, NEW t \in Threads, NEW a \in Activations, ActivateCapability(t, a),
         Target[a[2]] # NoTarget
  PROVE  assignments'[Target[a[2]]] = a[2]
<1>1. assignments \in [{Target[d] : d \in Capabilities} -> 0 .. CapabilityCount]
  BY DEF Typed, TypeOK
<1>2. a[2] \in Capabilities
  BY ActivationTyped
<1>3. QED
  BY <1>1, <1>2 DEF ActivateCapability, Claims, Claim

\* A step keeps the targets claimed.
LEMMA StepTargetsClaimed ==
  ASSUME Typed, TargetsClaimed, NEW t \in Threads, Step(t)
  PROVE  TargetsClaimed'
<1>1. ASSUME NEW c \in Capabilities, NEW i \in SlotIds,
             slots'[c][i].active, Target[c] # NoTarget
      PROVE  assignments'[Target[c]] = c
  <2>1. assignments[Target[c]] = c
    <3>1. CASE slots[c][i].active
      BY <1>1, <3>1 DEF TargetsClaimed
    <3>2. CASE PublishCapability(t) /\ c = op[t].grant.capability
      BY <1>1, <3>2 DEF TargetsClaimed, PublishCapability
    <3>3. QED
      BY <1>1, <3>1, <3>2, LiveMoves
  <2>2. QED
    BY <2>1, ClaimsStay
<1>2. ASSUME NEW u \in Threads, pc'[u] = "publish",
             Target[op'[u].grant.capability] # NoTarget
      PROVE  assignments'[Target[op'[u].grant.capability]] = op'[u].grant.capability
  <2>1. CASE u # t
    <3>1. pc[u] = "publish" /\ op'[u] = op[u] /\ op[u].grant.capability \in Capabilities
      BY <1>2, <2>1, StepLeavesOthers DEF OthersStay, Typed, Shape
    <3>2. QED
      BY <1>2, <3>1, ClaimsStay DEF TargetsClaimed
  <2>2. CASE u = t
    <3>1. PICK a \in Activations : ActivateCapability(t, a)
      BY <1>2, <2>2, GrantMoves
    <3>2. op'[t].grant.capability = a[2]
      BY <3>1, ActivationFits
    <3>3. Target[a[2]] # NoTarget
      BY <1>2, <2>2, <3>2
    <3>4. QED
      BY <2>2, <3>1, <3>2, <3>3, ActivationClaims
  <2>3. QED
    BY <2>1, <2>2
<1>3. QED
  BY <1>1, <1>2 DEF TargetsClaimed

\* TargetsClaimed is inductive.
LEMMA NextTargetsClaimed == Typed /\ TargetsClaimed /\ [Next]_vars => TargetsClaimed'
<1> SUFFICES ASSUME Typed, TargetsClaimed, [Next]_vars PROVE TargetsClaimed'
  OBVIOUS
<1>1. CASE UNCHANGED vars
  BY <1>1 DEF vars, TargetsClaimed
<1>2. QED
  BY <1>1, StepTargetsClaimed DEF Next, Step

(* One compact callback target has one capability: two capabilities that   *)
(* share a target are never both active, even when two threads race to     *)
(* claim it.                                                               *)
THEOREM TargetsHaveOneCapability == Spec => []CompactTargetExclusive
<1>1. Init => TargetsClaimed
  BY DEF Init, TargetsClaimed, EmptySlot
<1>2. TargetsClaimed => CompactTargetExclusive
  BY DEF TargetsClaimed, CompactTargetExclusive
<1>3. QED
  BY <1>1, <1>2, TypedCorrect, NextTargetsClaimed, PTL DEF Spec

-----------------------------------------------------------------------------
(* Capability generations, before their 32-bit counter wraps.              *)
NoCapabilityWrap ==
  MaxCapabilityGeneration \in Nat /\ MaxCapabilityGeneration < CapabilityModulus

Publishing(t) == pc[t] = "publish"

(* A generation that is about to be published is nobody else's.            *)
Fresh ==
  /\ UniqueGenerations
  /\ \A c \in Capabilities : \A i \in SlotIds :
       slots[c][i].active => slots[c][i].generation <= next_generation
  /\ \A t \in Threads : Publishing(t) =>
       /\ op[t].grant.generation <= next_generation
       /\ \A c \in Capabilities : \A i \in SlotIds :
            slots[c][i].active => slots[c][i].generation # op[t].grant.generation
       /\ \A u \in Threads \ {t} :
            Publishing(u) => op[u].grant.generation # op[t].grant.generation

\* Only an activation draws a generation, and it draws the next one.
LEMMA GenerationMoves ==
  ASSUME NoCapabilityWrap, Typed, NEW t \in Threads, Step(t)
  PROVE  /\ next_generation \in Nat
         /\ \/ next_generation' = next_generation /\ ~Publishing(t)'
            \/ /\ next_generation' = next_generation + 1 /\ Publishing(t)'
               /\ op'[t].grant.generation = next_generation + 1
               /\ UNCHANGED slots
<1>1. next_generation \in Nat
  BY DEF Typed, TypeOK
<1>2. ASSUME NEW a \in Activations, ActivateCapability(t, a)
      PROVE  /\ next_generation' = next_generation + 1 /\ Publishing(t)'
             /\ op'[t].grant.generation = next_generation + 1
             /\ UNCHANGED slots
  <2>1. NextGeneration(next_generation) = next_generation + 1
    BY <1>1, <1>2, ConfigurationAssumption
       DEF ActivateCapability, NextGeneration, NoCapabilityWrap
  <2>2. Publishing(t)'
    BY <1>2, GoingElsewhere DEF ActivateCapability, Publishing
  <2>3. op'[t].grant.generation = next_generation + 1
    BY <1>2, <2>1, ActivationFits
  <2>4. next_generation' = next_generation + 1 /\ UNCHANGED slots
    BY <1>2, <2>1 DEF ActivateCapability
  <2>5. QED
    BY <2>2, <2>3, <2>4
<1>3. ASSUME \A a \in Activations : ~ActivateCapability(t, a)
      PROVE  UNCHANGED next_generation
  BY <1>3 DEF Step, Runtime, Guest, Host, CheckImage, AuthorizeCapability,
     PushFrame, RefuseStack, Preflight, PublishCapability, PublishRefused,
     CommitResult, RevokeResult, ClearReplaced, ExpireEvent, ExpireOwner,
     ExpireProcess, DeactivateImage, RetireImage, StartFinish, ExpireTop,
     PopTop, StartCall, CallAborts, GuestReturns, GuestFails, ActivationRefused,
     CallReturns, StartEvent, Fault, Unwind, Enter, ThreadExits, shared
<1>4. ASSUME \A a \in Activations : ~ActivateCapability(t, a)
      PROVE  ~Publishing(t)'
  BY <1>4, GrantMoves DEF Publishing
<1>5. QED
  BY <1>1, <1>2, <1>3, <1>4

\* A step keeps what is to be published fresh.
LEMMA StepFresh ==
  ASSUME NoCapabilityWrap, Typed, Fresh, NEW t \in Threads, Step(t)
  PROVE  Fresh'
<1>0. /\ \A c \in Capabilities : \A i \in SlotIds : slots[c][i].generation \in Nat
      /\ \A u \in Threads : op[u].grant.generation \in Nat
      /\ next_generation \in Nat
  BY DEF Typed, TypeOK, Table, Slot, Op, Grant
<1>1. \A u \in Threads \ {t} : (Publishing(u)' <=> Publishing(u)) /\ op'[u] = op[u]
  BY StepLeavesOthers DEF OthersStay, Publishing
<1>3. CASE /\ next_generation' = next_generation + 1 /\ Publishing(t)'
           /\ op'[t].grant.generation = next_generation + 1
           /\ UNCHANGED slots
  <2>1. UniqueGenerations'
    BY <1>3 DEF Fresh, UniqueGenerations
  <2>2. ASSUME NEW c \in Capabilities, NEW i \in SlotIds, slots'[c][i].active
        PROVE  /\ slots'[c][i].generation <= next_generation'
               /\ slots'[c][i].generation # op'[t].grant.generation
    <3>1. slots[c][i].generation \in Nat /\ slots[c][i].generation <= next_generation
      BY <1>0, <1>3, <2>2 DEF Fresh
    <3>2. QED
      BY <1>0, <1>3, <3>1
  <2>3. ASSUME NEW u \in Threads \ {t}, Publishing(u)'
        PROVE  /\ op'[u].grant.generation <= next_generation'
               /\ op'[u].grant.generation # op'[t].grant.generation
    <3>1. op[u].grant.generation \in Nat /\ op[u].grant.generation <= next_generation
      BY <1>0, <1>1, <2>3 DEF Fresh
    <3>2. op'[u] = op[u]
      BY <1>1
    <3>3. QED
      BY <1>0, <1>3, <3>1, <3>2
  <2>4. ASSUME NEW u \in Threads, Publishing(u)'
        PROVE  /\ op'[u].grant.generation <= next_generation'
               /\ \A c \in Capabilities : \A i \in SlotIds :
                    slots'[c][i].active => slots'[c][i].generation # op'[u].grant.generation
               /\ \A v \in Threads \ {u} :
                    Publishing(v)' => op'[v].grant.generation # op'[u].grant.generation
    <3>1. CASE u = t
      BY <1>0, <1>3, <2>2, <2>3, <3>1
    <3>2. CASE u # t
      BY <1>1, <1>3, <2>3, <2>4, <3>2 DEF Fresh
    <3>3. QED
      BY <3>1, <3>2
  <2>5. QED
    BY <2>1, <2>2, <2>4 DEF Fresh
<1>4. CASE UNCHANGED next_generation /\ ~Publishing(t)'
  <2>0. ASSUME NEW e \in Capabilities, NEW k \in SlotIds, slots'[e][k].active
        PROVE  \/ slots[e][k].active /\ slots'[e][k].generation = slots[e][k].generation
               \/ /\ Publishing(t)
                  /\ e = op[t].grant.capability
                  /\ k = First(Free(slots[e], Lifetime[e]))
                  /\ slots'[e][k].generation = op[t].grant.generation
    BY <2>0, LiveMoves DEF Publishing
  <2>1. ASSUME NEW c \in Capabilities, NEW i \in SlotIds, slots'[c][i].active
        PROVE  slots'[c][i].generation <= next_generation'
    BY <1>4, <2>0, <2>1 DEF Fresh
  <2>2. ASSUME NEW c \in Capabilities, NEW i \in SlotIds, slots'[c][i].active,
               NEW d \in Capabilities, NEW j \in SlotIds, slots'[d][j].active,
               slots'[c][i].generation = slots'[d][j].generation
        PROVE  c = d /\ i = j
    <3>2. CASE slots[c][i].active /\ slots[d][j].active
               /\ slots'[c][i].generation = slots[c][i].generation
               /\ slots'[d][j].generation = slots[d][j].generation
      <4>1. slots[c][i].generation = slots[d][j].generation
        BY <2>2, <3>2
      <4>2. QED
        BY <3>2, <4>1 DEF Fresh, UniqueGenerations
    <3>3. QED
      BY <2>0, <2>2, <3>2 DEF Fresh
  <2>3. ASSUME NEW u \in Threads, Publishing(u)'
        PROVE  /\ op'[u].grant.generation <= next_generation'
               /\ \A c \in Capabilities : \A i \in SlotIds :
                    slots'[c][i].active => slots'[c][i].generation # op'[u].grant.generation
               /\ \A v \in Threads \ {u} :
                    Publishing(v)' => op'[v].grant.generation # op'[u].grant.generation
    <3>1. u # t /\ Publishing(u) /\ op'[u] = op[u]
      BY <1>1, <1>4, <2>3
    <3>2. ASSUME NEW c \in Capabilities, NEW i \in SlotIds, slots'[c][i].active
          PROVE  slots'[c][i].generation # op[u].grant.generation
      BY <2>0, <3>1, <3>2 DEF Fresh
    <3>3. \A v \in Threads \ {u} :
            Publishing(v)' => Publishing(v) /\ op'[v] = op[v]
      BY <1>1, <1>4
    <3>4. QED
      BY <1>4, <3>1, <3>2, <3>3 DEF Fresh
  <2>4. QED
    BY <2>1, <2>2, <2>3 DEF Fresh, UniqueGenerations
<1>5. QED
  BY <1>3, <1>4, GenerationMoves

\* Fresh is inductive.
LEMMA NextFresh ==
  ASSUME NoCapabilityWrap, Typed, Fresh, [Next]_vars
  PROVE  Fresh'
<1>1. CASE UNCHANGED vars
  BY <1>1 DEF vars, Fresh, UniqueGenerations, Publishing
<1>2. QED
  BY <1>1, StepFresh DEF Next, Step

\* Until the counter wraps, generations are drawn fresh.
LEMMA AlwaysFresh ==
  ASSUME NoCapabilityWrap
  PROVE  Spec => []Fresh
<1>1. Init => Fresh
  BY DEF Init, Fresh, UniqueGenerations, Publishing, EmptySlot
<1>2. Typed /\ Fresh /\ [Next]_vars => Fresh'
  BY NextFresh
<1>3. QED
  BY <1>1, <1>2, TypedCorrect, PTL DEF Spec

(* A generation identifies one publication: no two slots of any two        *)
(* capabilities are active with the same one, until the counter wraps.     *)
THEOREM GenerationsUnique ==
  ASSUME NoCapabilityWrap
  PROVE  Spec => []UniqueGenerations
<1>1. Fresh => UniqueGenerations
  BY DEF Fresh
<1>2. QED
  BY <1>1, AlwaysFresh, PTL
=============================================================================
