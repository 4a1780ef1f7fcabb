------------------------ MODULE NativeIngressStack ------------------------
(***************************************************************************)
(* The ingress frames of a thread, for every configuration: the stack the  *)
(* TEB describes, the order of the generations the frames carry, and what  *)
(* that order gives the capabilities lent for the duration of a call.      *)
(***************************************************************************)
EXTENDS NativeIngressSafety

\* A frame keeps what its entry recorded.
SameEntry(new, old) ==
  /\ new.bridge = old.bridge
  /\ new.reason = old.reason
  /\ new.generation = old.generation
  /\ new.admitted = old.admitted
  /\ new.saved = old.saved

\* The call of the top frame starts with the capability it lends.
Lends(t) ==
  /\ PublishCapability(t)
  /\ SetTop(t, [Top(t) EXCEPT !.phase = "call", !.pending = op[t].grant])

\* The ways a step rewrites the top frame in place.
RewritesTop(t) ==
  \/ \E phase \in Phases :
       \/ SetTop(t, [Top(t) EXCEPT !.phase = phase])
       \/ SetTop(t, [Top(t) EXCEPT !.pending = NoGrant, !.phase = phase])
  \/ SetTop(t, HandlerRuns(Top(t)))
  \/ Lends(t)

\* The frames below the top stay as they are, and the top keeps its entry.
FlatFrames(t) ==
  /\ Len(frames'[t]) = Len(frames[t])
  /\ \A k \in 1 .. Len(frames[t]) : SameEntry(frames'[t][k], frames[t][k])
  /\ \A k \in 1 .. (Len(frames[t]) - 1) : frames'[t][k] = frames[t][k]
  /\ \A u \in Threads \ {t} : frames'[u] = frames[u]

\* Between the guard of an entry and the frame it pushes.
Entering(t) == pc[t] \in {"prepare", "authorize", "push"}

\* What every step does that neither enters, pushes, pops nor ends a thread.
Flat(t) ==
  /\ FlatFrames(t)
  /\ OthersStay(t)
  /\ UNCHANGED bounds
  /\ \A u \in Threads :
       /\ header'[u].magic = header[u].magic
       /\ header'[u].generation = header[u].generation
  /\ Entering(t)' => Entering(t) /\ UNCHANGED frames

-----------------------------------------------------------------------------
\* Frames that do not change are flat.
LEMMA SameFramesFlat ==
  ASSUME Typed, NEW t \in Threads, UNCHANGED frames
  PROVE  FlatFrames(t)
BY DEF FlatFrames, SameEntry

\* Rewriting the top frame is flat.
LEMMA RewritesFlat ==
  ASSUME Typed, NEW t \in Threads, frames[t] # <<>>, RewritesTop(t)
  PROVE  FlatFrames(t)
<1>1. Top(t) \in Frame /\ Len(frames[t]) \in Nat \ {0}
  BY TopTyped DEF Typed, Depth
<1>2. PICK f \in Frame : SetTop(t, f) /\ SameEntry(f, Top(t))
  <2>1. \A phase \in Phases : \A pending \in Grant :
          /\ SameEntry([Top(t) EXCEPT !.phase = phase], Top(t))
          /\ SameEntry([Top(t) EXCEPT !.phase = phase, !.pending = pending], Top(t))
          /\ SameEntry([Top(t) EXCEPT !.pending = pending, !.phase = phase], Top(t))
          /\ SameEntry(HandlerRuns(Top(t)), Top(t))
    BY <1>1 DEF Frame, HandlerRuns, SameEntry
  <2>2. {"done", "call"} \subseteq Phases /\ {NoGrant, op[t].grant} \subseteq Grant
    BY NoOpTyped DEF Phases, Typed, TypeOK, Op
  <2>3. QED
    BY <2>1, <2>2, TopFields DEF RewritesTop, Lends
<1>3. /\ Len(frames'[t]) = Len(frames[t])
      /\ \A j \in 1 .. Len(frames[t]) :
           frames'[t][j] = IF j = Len(frames[t]) THEN f ELSE frames[t][j]
      /\ \A u \in Threads \ {t} : frames'[u] = frames[u]
  BY <1>2, SetTopMoves DEF Typed
<1>4. \A k \in 1 .. Len(frames[t]) : SameEntry(frames'[t][k], frames[t][k])
  BY <1>2, <1>3 DEF SameEntry, Top, Depth
<1>5. \A k \in 1 .. (Len(frames[t]) - 1) : frames'[t][k] = frames[t][k]
  BY <1>1, <1>3
<1>6. QED
  BY <1>3, <1>4, <1>5 DEF FlatFrames

(* Guest code rewrites the top frame; it does not touch the header.        *)
LEMMA GuestRewrites ==
  ASSUME Typed, NEW t \in Threads,
         \/ Preflight(t) \/ StartCall(t) \/ CallAborts(t) \/ GuestFails(t)
         \/ \E a \in Activations : ActivationRefused(t, a)
         \/ \E ok \in BOOLEAN : CallReturns(t, ok)
  PROVE  /\ frames[t] # <<>> /\ RewritesTop(t)
         /\ UNCHANGED <<pc, op, header, bounds>> /\ pc[t] = "run"
<1>1. /\ frames[t] # <<>> /\ pc[t] = "run"
      /\ UNCHANGED <<pc, op, header, bounds>>
  BY DEF Preflight, StartCall, CallAborts, GuestFails, ActivationRefused,
     CallReturns, InPhase
<1>2. Top(t).phase \in Phases
  BY <1>1, TopTyped DEF Typed, Frame
<1>3. RewritesTop(t)
  <2>1. CASE Preflight(t) \/ StartCall(t) \/ GuestFails(t)
    BY <2>1 DEF Preflight, StartCall, GuestFails, Phases, RewritesTop
  <2>2. CASE CallAborts(t)
    BY <2>2, NoOpTyped DEF CallAborts, Phases, RewritesTop
  <2>3. CASE \E a \in Activations : ActivationRefused(t, a)
    BY <1>2, <2>3 DEF ActivationRefused, Phases, RewritesTop
  <2>4. CASE \E ok \in BOOLEAN : CallReturns(t, ok)
    BY <2>4, NoOpTyped DEF CallReturns, Phases, RewritesTop
  <2>5. QED
    BY <2>1, <2>2, <2>3, <2>4
<1>4. QED
  BY <1>1, <1>3

(* The steps of an operation in progress that rewrite the top frame.       *)
LEMMA OperationRewrites ==
  ASSUME Typed, NEW t \in Threads,
         \/ PublishCapability(t) \/ PublishRefused(t) \/ RevokeResult(t)
         \/ GuestReturns(t)
         \/ \E k \in 1 .. Depth(t) : Fault(t, k)
  PROVE  \/ UNCHANGED frames
         \/ frames[t] # <<>> /\ RewritesTop(t)
<1>1. frames[t] # <<>> /\ op[t].grant \in Grant
  BY DEF PublishCapability, PublishRefused, RevokeResult, GuestReturns, Fault,
     InPhase, Typed, TypeOK, Shape, Op
<1>2. CASE PublishCapability(t)
  BY <1>1, <1>2 DEF PublishCapability, Lends, RewritesTop
<1>3. CASE PublishRefused(t) \/ RevokeResult(t) \/ GuestReturns(t)
  BY <1>1, <1>3 DEF PublishRefused, RevokeResult, GuestReturns, Phases, RewritesTop
<1>4. CASE \E k \in 1 .. Depth(t) : Fault(t, k)
  BY <1>1, <1>4 DEF Fault, RewritesTop
<1>5. QED
  BY <1>2, <1>3, <1>4

\* The ways a step changes the frames.
LEMMA FramesMove ==
  ASSUME Typed, NEW t \in Threads, Step(t)
  PROVE  \/ PushFrame(t) \/ PopTop(t) \/ UNCHANGED frames
         \/ frames[t] # <<>> /\ RewritesTop(t)
<1> SUFFICES ASSUME ~PushFrame(t), ~PopTop(t)
             PROVE  UNCHANGED frames \/ (frames[t] # <<>> /\ RewritesTop(t))
  OBVIOUS
<1>1. CASE Runtime(t)
  BY <1>1, GuestRewrites, OperationRewrites
     DEF Runtime, CheckImage, AuthorizeCapability, RefuseStack, CommitResult,
         ClearReplaced, ExpireEvent, ExpireOwner, ExpireProcess,
         DeactivateImage, RetireImage, StartFinish, ExpireTop
<1>2. CASE Guest(t)
  BY <1>2, GuestRewrites, OperationRewrites
     DEF Guest, ActivateCapability, StartEvent, Unwind
<1>3. CASE Host(t)
  BY <1>3 DEF Host, Enter, ThreadExits
<1>4. QED
  BY <1>1, <1>2, <1>3 DEF Step

\* Every step pushes, pops, ends a thread, enters, or is flat.
LEMMA StackKinds ==
  ASSUME Typed, NEW t \in Threads, Step(t)
  PROVE  \/ PushFrame(t) \/ PopTop(t) \/ ThreadExits(t)
         \/ \E b \in Bridges, r \in Reasons : Enter(t, b, r)
         \/ Flat(t)
<1> SUFFICES ASSUME ~PushFrame(t), ~PopTop(t), ~ThreadExits(t),
                    ~(\E b \in Bridges, r \in Reasons : Enter(t, b, r))
             PROVE  Flat(t)
  OBVIOUS
<1>1. OthersStay(t)
  BY StepKinds, PublishKeepsFrames DEF Quiet
<1>2. CASE \/ CheckImage(t) \/ AuthorizeCapability(t) \/ RefuseStack(t)
  <2>1. UNCHANGED <<frames, bounds, header>> /\ Entering(t)
    BY <1>2 DEF CheckImage, AuthorizeCapability, RefuseStack, Entering
  <2>2. QED
    BY <1>1, <2>1, SameFramesFlat DEF Flat
<1>3. CASE \/ Preflight(t) \/ StartCall(t) \/ CallAborts(t) \/ GuestFails(t)
           \/ \E a \in Activations : ActivationRefused(t, a)
           \/ \E ok \in BOOLEAN : CallReturns(t, ok)
  BY <1>1, <1>3, GuestRewrites, RewritesFlat DEF Flat, Entering
<1>4. CASE \/ PublishCapability(t) \/ PublishRefused(t) \/ RevokeResult(t)
           \/ GuestReturns(t)
           \/ \E k \in 1 .. Depth(t) : Fault(t, k)
  <2>1. FlatFrames(t)
    BY <1>4, OperationRewrites, SameFramesFlat, RewritesFlat
  <2>2. /\ UNCHANGED bounds
        /\ \A u \in Threads :
             /\ header'[u].magic = header[u].magic
             /\ header'[u].generation = header[u].generation
    <3>1. CASE GuestReturns(t)
      <4>1. header \in [Threads -> Header] /\ UNCHANGED bounds
        BY <3>1 DEF GuestReturns, Typed, TypeOK
      <4>2. \/ UNCHANGED header
            \/ header' = [header EXCEPT ![t].image_generation = image_generation]
        BY <3>1 DEF GuestReturns
      <4>3. QED
        BY <4>1, <4>2 DEF Header
    <3>2. CASE UNCHANGED <<bounds, header>>
      BY <3>2
    <3>3. QED
      BY <1>4, <3>1, <3>2 DEF PublishCapability, PublishRefused, RevokeResult, Fault
  <2>3. ~Entering(t)'
    <3>1. pc'[t] \in {pc[t], "run", "commit", "clear", "thread", "process", "expire"}
      BY <1>4, GoingElsewhere DEF PublishCapability, PublishRefused, RevokeResult,
         GuestReturns, Fault, Return, Leave
    <3>2. pc[t] \notin {"prepare", "authorize", "push"}
      BY <1>4 DEF PublishCapability, PublishRefused, RevokeResult, GuestReturns,
         Fault, InPhase
    <3>3. QED
      BY <3>1, <3>2 DEF Entering
  <2>4. QED
    BY <1>1, <2>1, <2>2, <2>3 DEF Flat
<1>5. CASE \/ \E a \in Activations : ActivateCapability(t, a)
           \/ CommitResult(t) \/ ClearReplaced(t) \/ StartFinish(t)
           \/ \E c \in Capabilities : StartEvent(t, EndEvent[c])
           \/ ExpireEvent(t) \/ ExpireOwner(t) \/ ExpireProcess(t) \/ ExpireTop(t)
           \/ DeactivateImage(t) \/ RetireImage(t)
           \/ \E k \in 0 .. Depth(t) : Unwind(t, k)
  <2>1. UNCHANGED <<frames, bounds, header>>
    BY <1>5 DEF ActivateCapability, CommitResult, ClearReplaced, StartFinish,
       StartEvent, ExpireEvent, ExpireOwner, ExpireProcess, ExpireTop,
       DeactivateImage, RetireImage, Unwind
  <2>2. ~Entering(t)'
    <3>1. pc'[t] \in {pc[t], "run", "publish", "revoke", "event", "deactivate",
                      "retire", "expire"}
      BY <1>5, GoingElsewhere DEF ActivateCapability, CommitResult, ClearReplaced,
         StartFinish, StartEvent, ExpireEvent, ExpireOwner, ExpireProcess,
         ExpireTop, DeactivateImage, RetireImage, Unwind, Return, Advance, Leave
    <3>2. pc[t] \notin {"prepare", "authorize", "push"}
      BY <1>5 DEF ActivateCapability, CommitResult, ClearReplaced,
         StartFinish, StartEvent, ExpireEvent, ExpireOwner, ExpireProcess,
         ExpireTop, DeactivateImage, RetireImage, Unwind, InPhase
    <3>3. QED
      BY <3>1, <3>2 DEF Entering
  <2>3. QED
    BY <1>1, <2>1, <2>2, SameFramesFlat DEF Flat
<1>6. QED
  BY <1>2, <1>3, <1>4, <1>5 DEF Step, Runtime, Guest, Host

-----------------------------------------------------------------------------
(* What a push leaves: one more frame, holding what the entry recorded.    *)
LEMMA PushLeaves ==
  ASSUME Typed, NEW t \in Threads, PushFrame(t)
  PROVE  LET n == Depth(t)
             f == frames'[t][n + 1]
         IN  /\ n \in Nat /\ Len(frames'[t]) = n + 1
             /\ \A k \in 1 .. n : frames'[t][k] = frames[t][k]
             /\ f.generation = header[t].generation
             /\ f.saved = bounds[t]
             /\ f.admitted = op[t].grant
             /\ f.pending = NoGrant
             /\ f.bridge = op[t].bridge
             /\ f.reason = op[t].reason
             /\ \A u \in Threads \ {t} : frames'[u] = frames[u]
             /\ bounds'[t] = "private"
             /\ \A u \in Threads \ {t} : bounds'[u] = bounds[u]
             /\ header'[t].magic = header[t].magic
             /\ header'[t].generation = NextIngress(header[t].generation)
             /\ \A u \in Threads \ {t} : header'[u] = header[u]
             /\ pc'[t] = "run" /\ OthersStay(t)
<1> DEFINE f == [bridge     |-> op[t].bridge,
                 reason     |-> op[t].reason,
                 generation |-> header[t].generation,
                 admitted   |-> op[t].grant,
                 phase      |-> "entered",
                 pending    |-> NoGrant,
                 recovered  |-> FALSE,
                 saved      |-> bounds[t]]
<1>1. /\ frames \in [Threads -> Seq(Frame)] /\ frames[t] \in Seq(Frame)
      /\ bounds \in [Threads -> {"host", "private"}]
      /\ header \in [Threads -> Header]
  BY DEF Typed, TypeOK
<1>2. frames' = [frames EXCEPT ![t] = Append(frames[t], f)]
  BY DEF PushFrame
<1>3. /\ f.generation = header[t].generation /\ f.saved = bounds[t]
      /\ f.admitted = op[t].grant /\ f.pending = NoGrant
      /\ f.bridge = op[t].bridge /\ f.reason = op[t].reason
  OBVIOUS
<1> HIDE DEF f
<1>4. /\ Len(frames[t]) \in Nat /\ Len(frames'[t]) = Len(frames[t]) + 1
      /\ \A k \in 1 .. Len(frames[t]) : frames'[t][k] = frames[t][k]
      /\ frames'[t][Len(frames[t]) + 1] = f
      /\ \A u \in Threads \ {t} : frames'[u] = frames[u]
  BY <1>1, <1>2
<1>5. /\ bounds'[t] = "private"
      /\ \A u \in Threads \ {t} : bounds'[u] = bounds[u]
  BY <1>1 DEF PushFrame
<1>6. /\ header'[t].magic = header[t].magic
      /\ header'[t].generation = NextIngress(header[t].generation)
      /\ \A u \in Threads \ {t} : header'[u] = header[u]
  BY <1>1 DEF PushFrame, Header
<1>7. pc'[t] = "run" /\ OthersStay(t)
  BY PushQuiet, ReturnMoves DEF Quiet, PushFrame, Typed
<1>8. QED
  BY <1>3, <1>4, <1>5, <1>6, <1>7 DEF Depth

\* What a pop does to the bounds, and what it leaves alone.
LEMMA PopRestores ==
  ASSUME Typed, NEW t \in Threads, PopTop(t)
  PROVE  /\ frames[t] # <<>> /\ Depth(t) \in Nat \ {0}
         /\ bounds'[t] = IF op[t].use = "finish" \/ Depth(t) = 1
                           THEN Top(t).saved ELSE bounds[t]
         /\ \A u \in Threads \ {t} : bounds'[u] = bounds[u]
         /\ UNCHANGED header
         /\ pc'[t] \in {"run", "expire"} /\ OthersStay(t)
<1>1. frames[t] # <<>> /\ Depth(t) \in Nat \ {0}
  <2>1. frames[t] # <<>>
    BY DEF PopTop, Typed, Shape
  <2>2. QED
    BY <2>1, TopTyped DEF Typed
<1>2. bounds \in [Threads -> {"host", "private"}]
  BY DEF Typed, TypeOK
<1>3. /\ bounds'[t] = IF op[t].use = "finish" \/ Depth(t) = 1
                        THEN Top(t).saved ELSE bounds[t]
      /\ \A u \in Threads \ {t} : bounds'[u] = bounds[u]
  BY <1>1, <1>2 DEF PopTop, RestoresBounds
<1>4. UNCHANGED header /\ pc'[t] \in {"run", "expire"}
  BY GoingElsewhere DEF PopTop, Return
<1>5. OthersStay(t)
  BY StepLeavesOthers DEF Step, Runtime
<1>6. QED
  BY <1>1, <1>3, <1>4, <1>5

-----------------------------------------------------------------------------
(* The stack the TEB describes.                                            *)
BoundsFollow(t) ==
  /\ bounds[t] = "host" <=> frames[t] = <<>>
  /\ \A i \in 1 .. Depth(t) : frames[t][i].saved = "host" <=> i = 1

\* The property is about one thread at a time.
LEMMA BoundsFollowAll ==
  /\ StackBoundsFollowFrames <=> \A t \in Threads : BoundsFollow(t)
  /\ StackBoundsFollowFrames' <=> \A t \in Threads : BoundsFollow(t)'
BY DEF StackBoundsFollowFrames, BoundsFollow

\* A stack is empty exactly when it has no length.
LEMMA EmptyStack ==
  ASSUME Typed, NEW t \in Threads
  PROVE  Len(frames[t]) \in Nat /\ (frames[t] = <<>> <=> Len(frames[t]) = 0)
BY EmptySeq, LenProperties DEF Typed, TypeOK

\* The same of the next state.
LEMMA EmptyStackNext ==
  ASSUME Typed', NEW t \in Threads
  PROVE  Len(frames'[t]) \in Nat /\ (frames'[t] = <<>> <=> Len(frames'[t]) = 0)
BY EmptySeq, LenProperties DEF Typed, TypeOK

\* A step keeps the bounds and the frames of its thread together.
LEMMA StepBoundsFollow ==
  ASSUME Typed, Typed', StackBoundsFollowFrames, NEW t \in Threads, Step(t)
  PROVE  StackBoundsFollowFrames'
<1>1. \A u \in Threads : BoundsFollow(u)
  BY BoundsFollowAll
<1>2. BoundsFollow(t)' /\ OthersStay(t) /\ \A u \in Threads \ {t} : bounds'[u] = bounds[u]
  <2>1. CASE PushFrame(t)
    <3>1. frames[t] = <<>> <=> bounds[t] = "host"
      BY <1>1 DEF BoundsFollow
    <3>2. frames[t] = <<>> <=> Depth(t) = 0
      BY EmptyStack DEF Depth
    <3>3. frames'[t] # <<>>
      BY <2>1, PushLeaves, EmptyStackNext
    <3>4. \A i \in 1 .. Len(frames'[t]) : frames'[t][i].saved = "host" <=> i = 1
      <4> DEFINE n == Depth(t)
      <4>1. /\ n \in Nat /\ Len(frames'[t]) = n + 1
            /\ \A k \in 1 .. n : frames'[t][k] = frames[t][k]
            /\ frames'[t][n + 1].saved = bounds[t]
        BY <2>1, PushLeaves
      <4>2. \A k \in 1 .. n : frames[t][k].saved = "host" <=> k = 1
        BY <1>1 DEF BoundsFollow
      <4>3. bounds[t] = "host" <=> n + 1 = 1
        BY <3>1, <3>2, <4>1
      <4> HIDE DEF n
      <4>4. frames'[t][n + 1].saved = "host" <=> n + 1 = 1
        BY <4>1, <4>3
      <4>5. \A k \in 1 .. n : frames'[t][k].saved = "host" <=> k = 1
        BY <4>1, <4>2
      <4>6. \A k \in 1 .. Len(frames'[t]) : k \in 1 .. n \/ k = n + 1
        BY <4>1
      <4>7. QED
        BY <4>4, <4>5, <4>6
    <3>5. QED
      BY <2>1, <3>3, <3>4, PushLeaves DEF BoundsFollow, Depth
  <2>2. CASE PopTop(t)
    <3>1. Depth(t) \in Nat \ {0} /\ bounds[t] = "private"
      BY <1>1, <2>2, PopRestores DEF BoundsFollow, Typed, TypeOK
    <3>2. Top(t).saved = "host" <=> Depth(t) = 1
      BY <1>1, <3>1 DEF BoundsFollow, Top
    <3>3. bounds'[t] = "host" <=> Depth(t) = 1
      BY <2>2, <3>1, <3>2, PopRestores
    <3>4. Len(frames'[t]) = Depth(t) - 1 /\ (frames'[t] = <<>> <=> Depth(t) = 1)
      BY <2>2, <3>1, PopLeaves, EmptyStackNext
    <3>5. \A i \in 1 .. (Depth(t) - 1) : frames'[t][i].saved = frames[t][i].saved
      <4>1. \A i \in 1 .. (Depth(t) - 1) : frames[t][i] \in Frame
        BY <3>1, ElementOfSeq DEF Typed, TypeOK, Depth
      <4>2. \A i \in 1 .. (Depth(t) - 1) :
              HandlerRuns(frames[t][i]).saved = frames[t][i].saved
        BY <4>1 DEF HandlerRuns, Frame
      <4>3. QED
        BY <2>2, <4>2, PopLeaves
    <3>6. QED
      BY <1>1, <2>2, <3>1, <3>3, <3>4, <3>5, PopRestores DEF BoundsFollow, Depth
  <2>3. CASE ThreadExits(t) \/ \E b \in Bridges, r \in Reasons : Enter(t, b, r)
    <3>1. UNCHANGED <<frames, bounds>> /\ OthersStay(t)
      BY <2>3, EntryQuiet DEF ThreadExits, Enter, Quiet
    <3>2. QED
      BY <1>1, <3>1 DEF BoundsFollow, Depth
  <2>4. CASE Flat(t)
    <3>1. /\ OthersStay(t) /\ UNCHANGED bounds
          /\ Len(frames'[t]) = Len(frames[t])
          /\ \A k \in 1 .. Len(frames[t]) : frames'[t][k].saved = frames[t][k].saved
      BY <2>4 DEF Flat, FlatFrames, SameEntry
    <3>2. frames'[t] = <<>> <=> frames[t] = <<>>
      BY <3>1, EmptyStack, EmptyStackNext
    <3>3. QED
      BY <1>1, <3>1, <3>2 DEF BoundsFollow, Depth
  <2>5. QED
    BY <2>1, <2>2, <2>3, <2>4, StackKinds
<1>3. ASSUME NEW u \in Threads \ {t}
      PROVE  BoundsFollow(u)'
  BY <1>1, <1>2 DEF BoundsFollow, OthersStay, Depth
<1>4. QED
  BY <1>2, <1>3, BoundsFollowAll

\* StackBoundsFollowFrames is inductive.
LEMMA NextBoundsFollow ==
  Typed /\ Typed' /\ StackBoundsFollowFrames /\ [Next]_vars => StackBoundsFollowFrames'
<1> SUFFICES ASSUME Typed, Typed', StackBoundsFollowFrames, [Next]_vars
             PROVE  StackBoundsFollowFrames'
  OBVIOUS
<1>1. CASE UNCHANGED vars
  BY <1>1 DEF vars, StackBoundsFollowFrames, Depth
<1>2. CASE Next
  BY <1>2, StepBoundsFollow DEF Next, Step
<1>3. QED
  BY <1>1, <1>2

(* The TEB describes the private stack exactly while a frame is live, and  *)
(* only the outermost frame holds the host's own bounds, whichever mix of  *)
(* finishes, recoveries and unwinds emptied the frame stack.               *)
THEOREM BoundsFollowFrames == Spec => []StackBoundsFollowFrames
<1>1. Init => StackBoundsFollowFrames
  <2> SUFFICES ASSUME Init, NEW t \in Threads PROVE BoundsFollow(t)
    BY BoundsFollowAll
  <2>1. frames[t] = <<>> /\ bounds[t] = "host" /\ Depth(t) = 0
    BY EmptySeq DEF Init, Depth
  <2>2. QED
    BY <2>1 DEF BoundsFollow
<1>2. QED
  BY <1>1, TypedCorrect, NextBoundsFollow, PTL DEF Spec

-----------------------------------------------------------------------------
(* The order of the ingress generations.  It is lost when a thread's       *)
(* 32-bit generation counter wraps, so the facts below are about the       *)
(* entries a thread makes before that.                                     *)
NoIngressWrap == MaxIngressGeneration < IngressModulus /\ 2 < IngressModulus

\* A thread that is entering or inside has a header that counts its ingresses.
Counting(t) ==
  /\ Entering(t) \/ frames[t] # <<>> => header[t].magic
  /\ header[t].magic => 0 < header[t].generation
  /\ Entering(t) => header[t].generation + 1 < IngressModulus

Ordered(t) ==
  \A i \in 1 .. Depth(t) :
    /\ 0 < frames[t][i].generation
    /\ frames[t][i].generation < header[t].generation
    /\ \A j \in 1 .. (i - 1) : frames[t][j].generation < frames[t][i].generation

\* Every frame but the top one is inside an outgoing call, and so is the top
\* one while the host enters again.
Calling(t) ==
  /\ \A i \in 1 .. (Depth(t) - 1) : frames[t][i].phase = "call"
  /\ Entering(t) /\ frames[t] # <<>> => Top(t).phase = "call"

Stacked(t) == Counting(t) /\ Ordered(t) /\ Calling(t)

FramesStacked == \A t \in Threads : Stacked(t)

\* The frames of the other threads stay stacked.
LEMMA OthersStacked ==
  ASSUME FramesStacked, NEW t \in Threads, OthersStay(t),
         \A u \in Threads \ {t} : header'[u] = header[u], Stacked(t)'
  PROVE  FramesStacked'
<1>1. ASSUME NEW u \in Threads \ {t}
      PROVE  Stacked(u)'
  <2>1. /\ frames'[u] = frames[u] /\ header'[u] = header[u]
        /\ pc'[u] = pc[u] /\ Stacked(u)
    BY DEF OthersStay, FramesStacked
  <2>2. Counting(u)' /\ Ordered(u)' /\ Calling(u)'
    BY <2>1 DEF Stacked, Counting, Ordered, Calling, Entering, Depth, Top
  <2>3. QED
    BY <2>2 DEF Stacked
<1>2. QED
  BY <1>1 DEF FramesStacked

(* What the lemmas below compare: the numbers are numbers.                 *)
LEMMA CountersTyped ==
  ASSUME Typed, NEW t \in Threads
  PROVE  /\ header[t] \in Header
         /\ header[t].generation \in Nat
         /\ Depth(t) \in Nat
         /\ \A k \in 1 .. Depth(t) : /\ frames[t][k] \in Frame
                                     /\ frames[t][k].generation \in Nat
<1>1. header[t] \in Header /\ frames[t] \in Seq(Frame)
  BY DEF Typed, TypeOK
<1>2. Depth(t) \in Nat /\ \A k \in 1 .. Depth(t) : frames[t][k] \in Frame
  BY <1>1, LenProperties, ElementOfSeq DEF Depth
<1>3. QED
  BY <1>1, <1>2 DEF Header, Frame

\* An entry, with the header it initializes, keeps the frames stacked.
LEMMA EnterStacked ==
  ASSUME NoIngressWrap, Typed, FramesStacked, NEW t \in Threads,
         NEW b \in Bridges, NEW r \in Reasons, Enter(t, b, r)
  PROVE  FramesStacked'
<1>1. /\ Stacked(t) /\ header[t] \in Header /\ header \in [Threads -> Header]
      /\ header[t].generation \in Nat
  BY CountersTyped DEF FramesStacked, Typed, TypeOK
<1>2. /\ OthersStay(t) /\ UNCHANGED frames
      /\ \A u \in Threads \ {t} : header'[u] = header[u]
      /\ header'[t] = IF header[t].magic THEN header[t]
                      ELSE [magic |-> TRUE, generation |-> 1,
                            image_generation |-> image_generation]
      /\ header[t].generation < MaxIngressGeneration
  BY <1>1, EntryQuiet DEF Quiet, Enter
<1>3. Idle(t) \/ InPhase(t, "call")
  BY DEF Enter
<1>4. Counting(t)'
  <2>1. /\ header'[t].magic /\ 0 < header'[t].generation
        /\ header'[t].generation + 1 < IngressModulus
    BY <1>1, <1>2, ConfigurationAssumption DEF NoIngressWrap, Stacked, Counting, Header
  <2>2. QED
    BY <2>1 DEF Counting
<1>5. Ordered(t)'
  <2>1. CASE frames[t] = <<>>
    BY <1>2, <2>1, EmptySeq DEF Ordered, Depth
  <2>2. CASE frames[t] # <<>>
    <3>1. header[t].magic
      BY <1>1, <2>2 DEF Stacked, Counting
    <3>2. QED
      BY <1>1, <1>2, <3>1 DEF Stacked, Ordered, Depth
  <2>3. QED
    BY <2>1, <2>2
<1>6. Calling(t)'
  BY <1>1, <1>2, <1>3 DEF Stacked, Calling, Idle, InPhase, Depth, Top
<1>7. QED
  BY <1>2, <1>4, <1>5, <1>6, OthersStacked DEF Stacked

\* A push keeps the frames stacked: its generation is above all others.
LEMMA PushStacked ==
  ASSUME Typed, FramesStacked, NEW t \in Threads, PushFrame(t)
  PROVE  FramesStacked'
<1> DEFINE n == Depth(t)
           g == header[t].generation
<1>1. /\ Stacked(t) /\ Entering(t) /\ g \in Nat /\ n \in Nat
      /\ \A k \in 1 .. n : frames[t][k].generation \in Nat
  BY CountersTyped DEF FramesStacked, PushFrame, Entering
<1>2. /\ Len(frames'[t]) = n + 1
      /\ \A k \in 1 .. n : frames'[t][k] = frames[t][k]
      /\ frames'[t][n + 1].generation = g
      /\ header'[t].magic = header[t].magic
      /\ header'[t].generation = NextIngress(g)
      /\ \A u \in Threads \ {t} : header'[u] = header[u]
      /\ pc'[t] = "run" /\ OthersStay(t)
  BY PushLeaves
<1>3. header[t].magic /\ 0 < g /\ g + 1 < IngressModulus
  BY <1>1 DEF Stacked, Counting
<1>4. NextIngress(g) = g + 1
  <2>1. IngressModulus \in Nat
    BY ConfigurationAssumption
  <2> HIDE DEF g
  <2>2. g \in Nat /\ g + 1 < IngressModulus
    BY <1>1, <1>3
  <2>3. QED
    BY <2>1, <2>2 DEF NextIngress
<1>5. Counting(t)'
  BY <1>1, <1>2, <1>3, <1>4 DEF Counting, Entering
<1>6. Ordered(t)'
  <2>1. \A i \in 1 .. n :
          /\ 0 < frames[t][i].generation
          /\ frames[t][i].generation < g
          /\ \A j \in 1 .. (i - 1) : frames[t][j].generation < frames[t][i].generation
    BY <1>1 DEF Stacked, Ordered
  <2> HIDE DEF n, g
  <2>2. ASSUME NEW i \in 1 .. n
        PROVE  /\ 0 < frames'[t][i].generation
               /\ frames'[t][i].generation < g + 1
               /\ \A j \in 1 .. (i - 1) :
                    frames'[t][j].generation < frames'[t][i].generation
    <3>1. i \in Int /\ frames'[t][i] = frames[t][i]
      BY <1>1, <1>2
    <3>2. \A j \in 1 .. (i - 1) : j \in 1 .. n /\ frames'[t][j] = frames[t][j]
      BY <1>1, <1>2
    <3>3. frames[t][i].generation < g /\ frames[t][i].generation \in Nat /\ g \in Nat
      BY <1>1, <2>1
    <3>4. frames[t][i].generation < g + 1
      BY <3>3
    <3>5. QED
      BY <2>1, <3>1, <3>2, <3>4
  <2>3. ASSUME NEW i, i = n + 1
        PROVE  /\ 0 < frames'[t][i].generation
               /\ frames'[t][i].generation < g + 1
               /\ \A j \in 1 .. (i - 1) :
                    frames'[t][j].generation < frames'[t][i].generation
    <3>1. frames'[t][i].generation = g
      BY <1>2, <2>3
    <3>2. \A j \in 1 .. (i - 1) : j \in 1 .. n /\ frames'[t][j] = frames[t][j]
      BY <1>1, <1>2, <2>3
    <3>3. \A j \in 1 .. (i - 1) : frames'[t][j].generation < g
      BY <2>1, <3>2
    <3>4. g < g + 1
      BY <1>1
    <3>5. QED
      BY <1>3, <3>1, <3>3, <3>4
  <2>4. \A i \in 1 .. (n + 1) : i \in 1 .. n \/ i = n + 1
    BY <1>1
  <2>5. Len(frames'[t]) = n + 1 /\ header'[t].generation = g + 1
    BY <1>2, <1>4
  <2>6. ASSUME NEW i \in 1 .. Len(frames'[t])
        PROVE  /\ 0 < frames'[t][i].generation
               /\ frames'[t][i].generation < header'[t].generation
               /\ \A j \in 1 .. (i - 1) :
                    frames'[t][j].generation < frames'[t][i].generation
    <3>1. i \in 1 .. n \/ i = n + 1
      BY <2>4, <2>5
    <3>2. CASE i \in 1 .. n
      BY <2>2, <2>5, <3>2
    <3>3. CASE i = n + 1
      BY <2>3, <2>5, <3>3
    <3>4. QED
      BY <3>1, <3>2, <3>3
  <2>7. QED
    BY <2>6 DEF Ordered, Depth
<1>7. Calling(t)'
  <2>1. \A k \in 1 .. n : frames[t][k].phase = "call"
    BY <1>1, EmptyStack DEF Stacked, Calling, Top, Depth
  <2>2. Len(frames'[t]) - 1 = n /\ n \in Nat
    BY <1>1, <1>2
  <2>3. \A k \in 1 .. n : frames'[t][k].phase = "call"
    BY <1>2, <2>1
  <2>4. pc'[t] = "run"
    BY <1>2
  <2> HIDE DEF n, g
  <2>5. QED
    BY <2>2, <2>3, <2>4 DEF Calling, Entering, Depth
<1>8. QED
  BY <1>2, <1>5, <1>6, <1>7, OthersStacked DEF Stacked

\* A pop keeps the frames stacked.
LEMMA PopStacked ==
  ASSUME Typed, FramesStacked, NEW t \in Threads, PopTop(t)
  PROVE  FramesStacked'
<1> DEFINE n == Depth(t) - 1
<1>1. /\ Stacked(t) /\ n \in Nat /\ frames[t] # <<>>
      /\ \A k \in 1 .. n : frames[t][k] \in Frame
  <2>1. Depth(t) \in Nat \ {0} /\ frames[t] # <<>>
    BY PopRestores
  <2>2. QED
    BY <2>1, CountersTyped DEF FramesStacked
<1>2. /\ Len(frames'[t]) = n
      /\ \A k \in 1 .. n : frames'[t][k].generation = frames[t][k].generation
      /\ \A k \in 1 .. (n - 1) : frames'[t][k] = frames[t][k]
  <2>1. \A k \in 1 .. n : HandlerRuns(frames[t][k]).generation = frames[t][k].generation
    BY <1>1 DEF HandlerRuns, Frame
  <2>2. QED
    BY <1>1, <2>1, PopLeaves
<1>3. UNCHANGED header /\ OthersStay(t) /\ pc'[t] \in {"run", "expire"}
  BY PopRestores
<1>4. \A i \in 1 .. n : i \in 1 .. Depth(t)
  BY <1>1, CountersTyped
<1>5. Ordered(t)'
  <2>1. \A i \in 1 .. n :
          /\ 0 < frames[t][i].generation
          /\ frames[t][i].generation < header[t].generation
          /\ \A j \in 1 .. (i - 1) : frames[t][j].generation < frames[t][i].generation
    BY <1>1, <1>4 DEF Stacked, Ordered
  <2> HIDE DEF n
  <2>2. QED
    BY <1>1, <1>2, <1>3, <2>1 DEF Ordered, Depth
<1>6. Counting(t)' /\ Calling(t)'
  <2>1. \A i \in 1 .. n : frames[t][i].phase = "call"
    BY <1>1 DEF Stacked, Calling
  <2> HIDE DEF n
  <2>2. QED
    BY <1>1, <1>2, <1>3, <2>1 DEF Stacked, Counting, Calling, Entering, Depth
<1>7. QED
  BY <1>3, <1>5, <1>6, OthersStacked DEF Stacked

\* Flat steps keep the frames stacked.
LEMMA FlatStacked ==
  ASSUME Typed, Typed', FramesStacked, NEW t \in Threads, Flat(t)
  PROVE  FramesStacked'
<1>1. /\ OthersStay(t)
      /\ Len(frames'[t]) = Len(frames[t])
      /\ \A k \in 1 .. Len(frames[t]) : frames'[t][k].generation = frames[t][k].generation
      /\ \A k \in 1 .. (Len(frames[t]) - 1) : frames'[t][k] = frames[t][k]
      /\ \A u \in Threads :
           /\ header'[u].magic = header[u].magic
           /\ header'[u].generation = header[u].generation
      /\ Entering(t)' => Entering(t) /\ UNCHANGED frames
  BY DEF Flat, FlatFrames, SameEntry
<1>2. frames'[t] = <<>> <=> frames[t] = <<>>
  BY <1>1, EmptyStack, EmptyStackNext
<1>3. Stacked(t) /\ Depth(t) \in Nat
  BY CountersTyped DEF FramesStacked
<1>4. Counting(t)'
  BY <1>1, <1>2, <1>3 DEF Stacked, Counting
<1>5. Ordered(t)'
  BY <1>1, <1>3 DEF Stacked, Ordered, Depth
<1>6. Calling(t)'
  BY <1>1, <1>2, <1>3 DEF Stacked, Calling, Depth, Top
<1>7. ASSUME NEW u \in Threads \ {t}
      PROVE  Stacked(u)'
  <2>1. /\ frames'[u] = frames[u] /\ pc'[u] = pc[u] /\ Stacked(u)
        /\ header'[u].magic = header[u].magic
        /\ header'[u].generation = header[u].generation
    BY <1>1 DEF OthersStay, FramesStacked
  <2>2. Counting(u)' /\ Ordered(u)' /\ Calling(u)'
    BY <2>1 DEF Stacked, Counting, Ordered, Calling, Entering, Depth, Top
  <2>3. QED
    BY <2>2 DEF Stacked
<1>8. QED
  BY <1>4, <1>5, <1>6, <1>7 DEF Stacked, FramesStacked

\* A new thread starts with no frames and a zeroed header.
LEMMA ExitStacked ==
  ASSUME Typed, FramesStacked, NEW t \in Threads, ThreadExits(t)
  PROVE  FramesStacked'
<1>1. /\ OthersStay(t) /\ UNCHANGED <<frames, pc>>
      /\ frames[t] = <<>> /\ pc[t] = "run" /\ Depth(t) = 0
      /\ header'[t] = NoHeader
      /\ \A u \in Threads \ {t} : header'[u] = header[u]
  BY EntryQuiet, EmptySeq DEF ThreadExits, Quiet, Idle, Typed, TypeOK, Depth
<1>2. Counting(t)' /\ Ordered(t)' /\ Calling(t)'
  BY <1>1 DEF Counting, Ordered, Calling, Entering, NoHeader, Depth
<1>3. QED
  BY <1>1, <1>2, OthersStacked DEF Stacked

\* The frames are stacked initially.
LEMMA InitStacked == Init => FramesStacked
<1> SUFFICES ASSUME Init, NEW t \in Threads PROVE Stacked(t)
  BY DEF FramesStacked
<1>1. frames[t] = <<>> /\ pc[t] = "run" /\ header[t] = NoHeader /\ Depth(t) = 0
  BY EmptySeq DEF Init, Depth
<1>2. QED
  BY <1>1 DEF Stacked, Counting, Ordered, Calling, Entering, NoHeader

\* FramesStacked is inductive.
LEMMA NextStacked ==
  ASSUME NoIngressWrap, Typed, Typed', FramesStacked, [Next]_vars
  PROVE  FramesStacked'
<1>1. CASE UNCHANGED vars
  BY <1>1 DEF vars, FramesStacked, Stacked, Counting, Ordered, Calling,
     Entering, Depth, Top
<1>2. ASSUME NEW t \in Threads, Step(t)
      PROVE  FramesStacked'
  BY <1>2, StackKinds, EnterStacked, PushStacked, PopStacked, FlatStacked,
     ExitStacked
<1>3. QED
  BY <1>1, <1>2 DEF Next, Step

\* Stacked frames are ordered.
LEMMA StackedOrders == FramesStacked => FramesOrdered
BY DEF FramesStacked, Stacked, Ordered, FramesOrdered

\* Until the counter of a thread wraps, its frames are stacked.
LEMMA AlwaysStacked ==
  ASSUME NoIngressWrap
  PROVE  Spec => []FramesStacked
<1>1. Typed /\ Typed' /\ FramesStacked /\ [Next]_vars => FramesStacked'
  BY NextStacked
<1>2. QED
  BY <1>1, TypedCorrect, InitStacked, PTL DEF Spec

(* Nested ingresses of one thread have increasing generations, all below   *)
(* the next one, until the counter wraps.                                  *)
THEOREM NestedIngressesOrdered ==
  ASSUME NoIngressWrap
  PROVE  Spec => []FramesOrdered
BY AlwaysStacked, StackedOrders, PTL

-----------------------------------------------------------------------------
(* Leaving: what goes with a frame is owned by that frame.                 *)
\* A thread that is leaving a frame only scans or pops.
LEMMA LeavingSteps ==
  ASSUME NEW t \in Threads, Step(t), pc[t] = "expire"
  PROVE  ExpireTop(t) \/ PopTop(t)
BY DEF Step, Runtime, Guest, Host, CheckImage, AuthorizeCapability, PushFrame,
   RefuseStack, Preflight, PublishCapability, PublishRefused, CommitResult,
   RevokeResult, ClearReplaced, ExpireEvent, ExpireOwner, ExpireProcess,
   DeactivateImage, RetireImage, StartFinish, StartCall, CallAborts,
   GuestReturns, GuestFails, ActivateCapability, ActivationRefused, CallReturns,
   StartEvent, Fault, Unwind, Enter, ThreadExits, Idle, InPhase

\* Expiring the top frame takes nothing that a frame below it owns.
LEMMA ExpireTopSpares ==
  ASSUME Typed, FramesStacked, NEW t \in Threads, ExpireTop(t),
         NEW c \in Capabilities, NEW i \in SlotIds,
         \/ slots[c][i].owner_ingress = 0
         \/ \E k \in 1 .. (Depth(t) - 1) :
              frames[t][k].generation = slots[c][i].owner_ingress
  PROVE  slots'[c][i] = slots[c][i]
<1> DEFINE g == Top(t).generation
<1>1. /\ frames[t] # <<>> /\ Depth(t) \in Nat \ {0}
      /\ slots \in [Capabilities -> Table] /\ slots[c] \in Table
  <2>1. frames[t] # <<>>
    BY DEF ExpireTop, Typed, Shape
  <2>2. QED
    BY <2>1, TopTyped DEF Typed, TypeOK
<1>2. Depth(t) \in 1 .. Depth(t) /\ g \in Nat
  BY <1>1, CountersTyped DEF Top
<1>3. 0 < g /\ \A k \in 1 .. (Depth(t) - 1) : frames[t][k].generation < g
  BY <1>2 DEF FramesStacked, Stacked, Ordered, Top
<1>4. slots[c][i].owner_ingress # g
  <2>1. \A k \in 1 .. (Depth(t) - 1) : frames[t][k].generation \in Nat
    BY <1>1, CountersTyped
  <2> HIDE DEF g
  <2>2. QED
    BY <1>2, <1>3, <2>1
<1>5. slots' = [slots EXCEPT ![op[t].cursor] = ExpireIngress(slots[op[t].cursor], g)]
  BY DEF ExpireTop
<1> HIDE DEF g
<1>6. ExpireIngress(slots[c], g)[i] = slots[c][i]
  BY <1>1, <1>2, <1>4, ExpireIngressNarrows
<1>7. QED
  BY <1>1, <1>5, <1>6

\* Leaving takes nothing else with it, step by step.
LEMMA StepSparesOthers ==
  ASSUME Typed, FramesStacked, [Next]_vars,
         NEW t \in Threads, pc[t] = "expire", op'[t] # op[t],
         NEW c \in Capabilities, NEW i \in SlotIds,
         \/ slots[c][i].owner_ingress = 0
         \/ \E k \in 1 .. (Depth(t) - 1) :
              frames[t][k].generation = slots[c][i].owner_ingress
  PROVE  slots'[c][i] = slots[c][i]
<1>1. PICK u \in Threads : Step(u)
  BY DEF Next, Step, vars
<1>2. u = t
  BY <1>1, StepLeavesOthers DEF OthersStay
<1>3. CASE ExpireTop(t)
  BY <1>3, ExpireTopSpares
<1>4. CASE PopTop(t)
  BY <1>4 DEF PopTop, shared
<1>5. QED
  BY <1>1, <1>2, <1>3, <1>4, LeavingSteps

(* Leaving an ingress never takes a committed generation, or one of an     *)
(* outer ingress of the same thread, with it.                              *)
THEOREM LeavingTakesOnlyItsOwn ==
  ASSUME NoIngressWrap
  PROVE  Spec => LeavingSparesOthers
<1>1. Typed /\ FramesStacked /\ [Next]_vars =>
        [\A t \in Threads : pc[t] = "expire" /\ op'[t] # op[t] =>
           \A c \in Capabilities : \A i \in SlotIds :
             \/ slots[c][i].owner_ingress = 0
             \/ \E k \in 1 .. (Depth(t) - 1) :
                  frames[t][k].generation = slots[c][i].owner_ingress
             => slots'[c][i] = slots[c][i]]_vars
  BY StepSparesOthers
<1>2. QED
  BY <1>1, TypedCorrect, AlwaysStacked, PTL DEF Spec, LeavingSparesOthers

-----------------------------------------------------------------------------
(* What frames lend: the grants in progress, and what becomes of them.     *)

GrantsFit ==
  \A t \in Threads :
    /\ pc[t] \in {"publish", "commit"} => Fits(op[t].grant)
    /\ pc[t] = "commit" => op[t].grant.escaped
    /\ \A k \in 1 .. Depth(t) :
         frames[t][k].pending.generation # 0 => Fits(frames[t][k].pending)

\* The pending grants of rewritten frames.
LEMMA RewritesPending ==
  ASSUME Typed, NEW t \in Threads, frames[t] # <<>>, RewritesTop(t),
         NEW k \in 1 .. Len(frames[t])
  PROVE  \/ frames'[t][k].pending \in {frames[t][k].pending, NoGrant}
         \/ Lends(t) /\ k = Depth(t) /\ frames'[t][k].pending = op[t].grant
<1>1. Top(t) \in Frame
  BY TopTyped DEF Typed
<1>2. {"done", "call"} \subseteq Phases /\ {NoGrant, op[t].grant} \subseteq Grant
  BY NoOpTyped DEF Phases, Typed, TypeOK, Op
<1>3. PICK f \in Frame :
        /\ SetTop(t, f)
        /\ \/ f.pending \in {Top(t).pending, NoGrant}
           \/ Lends(t) /\ f.pending = op[t].grant
  <2>1. \A phase \in Phases :
          /\ [Top(t) EXCEPT !.phase = phase].pending = Top(t).pending
          /\ [Top(t) EXCEPT !.pending = NoGrant, !.phase = phase].pending = NoGrant
    BY <1>1 DEF Frame
  <2>2. /\ HandlerRuns(Top(t)).pending = NoGrant
        /\ [Top(t) EXCEPT !.phase = "call", !.pending = op[t].grant].pending
             = op[t].grant
    BY <1>1 DEF Frame, HandlerRuns
  <2>3. QED
    BY <1>2, <2>1, <2>2, TopFields DEF RewritesTop, Lends
<1>4. frames'[t][k] = IF k = Len(frames[t]) THEN f ELSE frames[t][k]
  BY <1>3, SetTopMoves DEF Typed
<1>5. QED
  BY <1>3, <1>4 DEF Top, Depth

(* The capability a frame lends is given up, kept, or the one its own      *)
(* activation just published.                                              *)
LEMMA PendingMoves ==
  ASSUME Typed, NEW t \in Threads, Step(t), NEW k \in 1 .. Len(frames'[t])
  PROVE  \/ frames'[t][k].pending = NoGrant
         \/ k \in 1 .. Len(frames[t]) /\ frames'[t][k].pending = frames[t][k].pending
         \/ Lends(t) /\ k = Depth(t) /\ frames'[t][k].pending = op[t].grant
<1>1. CASE UNCHANGED frames
  BY <1>1
<1>2. CASE PushFrame(t)
  <2> DEFINE n == Depth(t)
  <2>1. /\ n \in Nat /\ Len(frames'[t]) = n + 1
        /\ \A j \in 1 .. n : frames'[t][j] = frames[t][j]
        /\ frames'[t][n + 1].pending = NoGrant
    BY <1>2, PushLeaves
  <2>2. k \in 1 .. n \/ k = n + 1
    BY <2>1
  <2>3. QED
    BY <2>1, <2>2 DEF Depth
<1>3. CASE PopTop(t)
  <2>1. /\ Depth(t) \in Nat /\ Len(frames'[t]) = Depth(t) - 1
        /\ \A j \in 1 .. (Depth(t) - 1) :
              \/ frames'[t][j] = frames[t][j]
              \/ frames'[t][j] = HandlerRuns(frames[t][j])
    BY <1>3, PopLeaves, PopRestores
  <2>2. k \in 1 .. Depth(t) /\ frames[t][k] \in Frame
    BY <2>1, CountersTyped
  <2>3. HandlerRuns(frames[t][k]).pending = NoGrant
    BY <2>2 DEF HandlerRuns, Frame
  <2>4. QED
    BY <2>1, <2>2, <2>3 DEF Depth
<1>4. CASE frames[t] # <<>> /\ RewritesTop(t)
  <2>1. Len(frames'[t]) = Len(frames[t])
    BY <1>4, RewritesFlat DEF FlatFrames
  <2>2. QED
    BY <1>4, <2>1, RewritesPending
<1>5. QED
  BY <1>1, <1>2, <1>3, <1>4, FramesMove

\* GrantsFit is inductive.
LEMMA NextGrantsFit == Typed /\ GrantsFit /\ [Next]_vars => GrantsFit'
<1> SUFFICES ASSUME Typed, GrantsFit, [Next]_vars PROVE GrantsFit'
  OBVIOUS
<1>1. CASE UNCHANGED vars
  BY <1>1 DEF vars, GrantsFit, Fits, Depth
<1>2. ASSUME NEW t \in Threads, Step(t)
      PROVE  GrantsFit'
  <2>1. pc'[t] \in {"publish", "commit"} => Fits(op'[t].grant)
    <3>1. ASSUME NEW a \in Activations, ActivateCapability(t, a)
          PROVE  Fits(op'[t].grant)
      BY <3>1, ActivationFits DEF Fits
    <3>2. PublishCapability(t) => Fits(op[t].grant)
      BY DEF PublishCapability, GrantsFit
    <3>3. QED
      BY <1>2, <3>1, <3>2, GrantMoves
  <2>2. pc'[t] = "commit" => op'[t].grant.escaped
    BY <1>2, GrantMoves
  <2>3. ASSUME NEW k \in 1 .. Len(frames'[t]), frames'[t][k].pending.generation # 0
        PROVE  Fits(frames'[t][k].pending)
    <3>1. CASE frames'[t][k].pending = NoGrant
      BY <2>3, <3>1 DEF NoGrant
    <3>2. CASE /\ k \in 1 .. Len(frames[t])
               /\ frames'[t][k].pending = frames[t][k].pending
      BY <2>3, <3>2 DEF GrantsFit, Depth
    <3>3. CASE Lends(t) /\ frames'[t][k].pending = op[t].grant
      BY <3>3 DEF GrantsFit, Lends, PublishCapability
    <3>4. QED
      BY <1>2, <3>1, <3>2, <3>3, PendingMoves
  <2>4. OthersStay(t)
    BY <1>2, StepLeavesOthers
  <2>5. QED
    BY <2>1, <2>2, <2>3, <2>4 DEF GrantsFit, OthersStay, Depth, Fits
<1>3. QED
  BY <1>1, <1>2 DEF Next, Step

\* There are no grants initially.
LEMMA InitGrantsFit == Init => GrantsFit
<1>1. ASSUME Init, NEW t \in Threads
      PROVE  Depth(t) = 0 /\ pc[t] = "run"
  BY <1>1, EmptySeq DEF Init, Depth
<1>2. ASSUME NEW t \in Threads, Depth(t) = 0, NEW k \in 1 .. Depth(t)
      PROVE  FALSE
  BY <1>2
<1>3. QED
  BY <1>1, <1>2 DEF GrantsFit

-----------------------------------------------------------------------------
(* Generations lent for the duration of a call.  They are never committed, *)
(* so the thread they admit owns them through one of its ingresses.        *)
SlotsThin == \A c \in Capabilities : Thins(slots'[c], slots[c])

\* Slots thin when the one table that changes does.
LEMMA OneTableThins ==
  ASSUME Typed, NEW c, NEW new, slots' = [slots EXCEPT ![c] = new],
         c \in Capabilities => Thins(new, slots[c])
  PROVE  SlotsThin
<1>1. slots \in [Capabilities -> Table]
  BY DEF Typed, TypeOK
<1>2. \A d \in Capabilities : Thins(slots[d], slots[d])
  BY DEF Thins
<1>3. QED
  BY <1>1, <1>2 DEF SlotsThin

\* Every capability has a table.
LEMMA EveryTable ==
  ASSUME Typed, NEW c \in Capabilities
  PROVE  slots[c] \in Table
BY DEF Typed, TypeOK

\* A step that does not publish thins the slots, or commits an escaped generation.
LEMMA StepThins ==
  ASSUME Typed, GrantsFit, NEW t \in Threads, Step(t), ~PublishCapability(t)
  PROVE  \/ SlotsThin
         \/ \E c, g : Escapes(c) /\ slots' = [slots EXCEPT ![c] = Commit(slots[c], g)]
<1>1. CASE UNCHANGED slots
  BY <1>1 DEF SlotsThin, Thins
<1>2. CASE AuthorizeCapability(t)
  <2>1. ASSUME NEW c, Admitting(slots[c], t) # {},
               slots' = [slots EXCEPT ![c] = Authorize(slots[c], Lifetime[c], t)]
        PROVE  SlotsThin
    BY <2>1, EveryTable, AllButCommitThin, OneTableThins
  <2>2. QED
    BY <1>1, <1>2, <2>1 DEF AuthorizeCapability
<1>3. ASSUME NEW c, NEW g, slots' = [slots EXCEPT ![c] = Revoke(slots[c], g)]
      PROVE  SlotsThin
  BY <1>3, EveryTable, AllButCommitThin, OneTableThins
<1>4. ASSUME NEW c, slots' = [slots EXCEPT ![c] = ExpireAll(slots[c])]
      PROVE  SlotsThin
  BY <1>4, EveryTable, AllButCommitThin, OneTableThins
<1>5. ASSUME NEW c, slots' = [slots EXCEPT ![c] = ExpireThread(slots[c], t)]
      PROVE  SlotsThin
  BY <1>5, EveryTable, AllButCommitThin, OneTableThins
<1>6. ASSUME NEW c, NEW g, slots' = [slots EXCEPT ![c] = ExpireIngress(slots[c], g)]
      PROVE  SlotsThin
  BY <1>6, EveryTable, AllButCommitThin, OneTableThins
<1>7. CASE CommitResult(t)
  <2>1. Escapes(op[t].grant.capability)
    BY <1>7 DEF CommitResult, GrantsFit, Fits
  <2>2. QED
    BY <1>7, <2>1 DEF CommitResult
<1>8. CASE \E ok \in BOOLEAN : CallReturns(t, ok)
  <2>1. PICK ok \in BOOLEAN : CallReturns(t, ok)
    BY <1>8
  <2>2. CASE Top(t).pending.generation # 0 /\ ok /\ Top(t).pending.escaped
    <3>1. frames[t] # <<>> /\ Depth(t) \in 1 .. Depth(t)
      BY <2>1, TopTyped DEF CallReturns, InPhase, Typed
    <3>2. Escapes(Top(t).pending.capability)
      BY <2>2, <3>1 DEF GrantsFit, Fits, Top
    <3>3. QED
      BY <2>1, <2>2, <3>2 DEF CallReturns
  <2>3. CASE ~(Top(t).pending.generation # 0 /\ ok /\ Top(t).pending.escaped)
    BY <1>1, <1>3, <2>1, <2>3 DEF CallReturns
  <2>4. QED
    BY <2>2, <2>3
<1>9. CASE ExpireTop(t)
  BY <1>6, <1>9 DEF ExpireTop
<1>10. CASE \/ ClearReplaced(t) \/ RevokeResult(t)
            \/ ExpireEvent(t) \/ ExpireOwner(t) \/ ExpireProcess(t)
  BY <1>1, <1>3, <1>4, <1>5, <1>10
     DEF ClearReplaced, RevokeResult, ExpireEvent, ExpireOwner, ExpireProcess
<1>11. QED
  BY <1>1, <1>2, <1>7, <1>8, <1>9, <1>10
     DEF Step, Runtime, Guest, Host, CheckImage, PushFrame, RefuseStack,
         Preflight, PublishRefused, DeactivateImage, RetireImage, StartFinish,
         PopTop, StartCall, CallAborts, GuestReturns, GuestFails,
         ActivateCapability, ActivationRefused, StartEvent, Fault, Unwind,
         Enter, ThreadExits, shared

LocalsOwned ==
  \A c \in Capabilities : \A i \in SlotIds : slots[c][i].active =>
    /\ slots[c][i].escaped = Escapes(c)
    /\ ~Escapes(c) => /\ slots[c][i].owner_ingress # 0
                      /\ slots[c][i].owner_thread = publisher[c][i]

\* What is published for a call is owned by the frame that makes it.
LEMMA PublishLocalsOwned ==
  ASSUME Typed, FramesStacked, GrantsFit, LocalsOwned,
         NEW t \in Threads, PublishCapability(t)
  PROVE  LocalsOwned'
<1> DEFINE c0 == op[t].grant.capability
           i0 == First(Free(slots[c0], Lifetime[c0]))
<1>1. /\ c0 \in Capabilities /\ i0 \in SlotIds
      /\ slots'[c0][i0] = NewSlot(op[t].grant.generation, op[t].grant.escaped,
                                  t, Top(t).generation)
      /\ publisher'[c0][i0] = t
      /\ \A d \in Capabilities : \A j \in SlotIds : d # c0 \/ j # i0 =>
           slots'[d][j] = slots[d][j] /\ publisher'[d][j] = publisher[d][j]
  BY PublishedSlot
<1>2. op[t].grant.escaped = Escapes(c0)
  BY DEF PublishCapability, GrantsFit, Fits
<1>3. Top(t).generation # 0
  <2>1. frames[t] # <<>>
    BY DEF PublishCapability, Typed, Shape
  <2>2. Depth(t) \in 1 .. Depth(t)
    BY <2>1, TopTyped DEF Typed
  <2>3. QED
    BY <2>2 DEF FramesStacked, Stacked, Ordered, Top
<1> HIDE DEF c0, i0
<1>4. /\ slots'[c0][i0].escaped = Escapes(c0)
      /\ slots'[c0][i0].owner_ingress # 0
      /\ ~Escapes(c0) => slots'[c0][i0].owner_thread = t
  BY <1>1, <1>2, <1>3 DEF NewSlot
<1>5. ASSUME NEW c \in Capabilities, NEW i \in SlotIds, slots'[c][i].active
      PROVE  /\ slots'[c][i].escaped = Escapes(c)
             /\ ~Escapes(c) => /\ slots'[c][i].owner_ingress # 0
                               /\ slots'[c][i].owner_thread = publisher'[c][i]
  <2>1. CASE c = c0 /\ i = i0
    BY <1>1, <1>4, <2>1
  <2>2. CASE c # c0 \/ i # i0
    BY <1>1, <1>5, <2>2 DEF LocalsOwned
  <2>3. QED
    BY <2>1, <2>2
<1>6. QED
  BY <1>5 DEF LocalsOwned

\* LocalsOwned is inductive.
LEMMA NextLocalsOwned ==
  ASSUME Typed, FramesStacked, GrantsFit, LocalsOwned, [Next]_vars
  PROVE  LocalsOwned'
<1>1. CASE UNCHANGED vars
  BY <1>1 DEF vars, LocalsOwned
<1>2. ASSUME NEW t \in Threads, Step(t), ~PublishCapability(t)
      PROVE  LocalsOwned'
  <2>1. SlotsNarrow /\ publisher' = publisher
    <3>1. PopTop(t) => SlotsNarrow /\ publisher' = publisher
      BY SlotsUnchanged DEF PopTop, shared, Typed
    <3>2. QED
      BY <1>2, <3>1, StepKinds DEF Quiet
  <2>2. ASSUME NEW c \in Capabilities, NEW i \in SlotIds, slots'[c][i].active
        PROVE  /\ slots'[c][i].escaped = Escapes(c)
               /\ ~Escapes(c) => /\ slots'[c][i].owner_ingress # 0
                                 /\ slots'[c][i].owner_thread = publisher'[c][i]
    <3>1. /\ slots[c][i].active
          /\ slots'[c][i].escaped = slots[c][i].escaped
          /\ slots'[c][i].owner_thread = slots[c][i].owner_thread
      BY <2>1, <2>2 DEF SlotsNarrow, Narrows
    <3>2. ~Escapes(c) => slots'[c][i] = slots[c][i]
      <4>1. CASE SlotsThin
        BY <2>2, <4>1 DEF SlotsThin, Thins
      <4>2. ASSUME NEW d, NEW g, Escapes(d),
                   slots' = [slots EXCEPT ![d] = Commit(slots[d], g)], ~Escapes(c)
            PROVE  slots'[c][i] = slots[c][i]
        <5>1. d # c
          BY <4>2
        <5>2. slots \in [Capabilities -> Table]
          BY DEF Typed, TypeOK
        <5>3. QED
          BY <4>2, <5>1, <5>2
      <4>3. QED
        BY <1>2, <4>1, <4>2, StepThins
    <3>3. QED
      BY <2>1, <3>1, <3>2 DEF LocalsOwned
  <2>3. QED
    BY <2>2 DEF LocalsOwned
<1>3. QED
  BY <1>1, <1>2, PublishLocalsOwned DEF Next, Step

\* Nothing is lent initially.
LEMMA InitLocalsOwned == Init => LocalsOwned
BY DEF Init, LocalsOwned, EmptySlot

(* Who lends what: the four halves of the argument together.               *)
Lent == Typed /\ Ownership /\ FramesStacked /\ GrantsFit /\ LocalsOwned

\* Until the counter of a thread wraps, what is lent has its owner.
LEMMA AlwaysLent ==
  ASSUME NoIngressWrap
  PROVE  Spec => []Lent
<1>1. Init => Ownership /\ GrantsFit /\ LocalsOwned
  BY InitOwnership, InitGrantsFit, InitLocalsOwned
<1>2. /\ Typed /\ FramesStacked /\ Ownership /\ GrantsFit /\ LocalsOwned
      /\ [Next]_vars
      => Ownership' /\ GrantsFit' /\ LocalsOwned'
  BY NextOwnership, NextGrantsFit, NextLocalsOwned
<1>3. QED
  BY <1>1, <1>2, TypedCorrect, AlwaysStacked, PTL DEF Spec, Lent

\* The owner of what is lent is a frame of the thread it admits.
LEMMA LocalHasOwner ==
  ASSUME Lent, NEW c \in Capabilities, NEW i \in SlotIds,
         slots[c][i].active, ~slots[c][i].escaped
  PROVE  /\ slots[c][i].owner_thread \in Threads
         /\ \E k \in 1 .. Depth(slots[c][i].owner_thread) :
              frames[slots[c][i].owner_thread][k].generation = slots[c][i].owner_ingress
<1>1. /\ ~Escapes(c) /\ slots[c][i].owner_ingress # 0
      /\ slots[c][i].owner_thread = publisher[c][i]
  BY DEF Lent, LocalsOwned
<1>2. QED
  BY <1>1 DEF Lent, Ownership, ProvisionalHasLiveOwner

(* A during-call generation is only ever active while a frame of the very  *)
(* thread it admits is inside the ingress that lent it.                    *)
THEOREM LocalsHaveLiveOwners ==
  ASSUME NoIngressWrap
  PROVE  Spec => []DuringCallHasLiveOwner
<1>1. Lent => DuringCallHasLiveOwner
  BY LocalHasOwner DEF DuringCallHasLiveOwner
<1>2. QED
  BY <1>1, AlwaysLent, PTL

-----------------------------------------------------------------------------
(* Admissions: the grants that admitted the frames of a thread, and the    *)
(* one an entry about to push its frame has been given.                    *)
Holding(t) == IF pc[t] = "push" THEN 1 .. (Depth(t) + 1) ELSE 1 .. Depth(t)

Admission(t, i) ==
  IF i = Depth(t) + 1 THEN op[t].grant ELSE frames[t][i].admitted

\* An entry comes with no grant.
EntersBare(t) == pc[t] = "prepare" => op[t].grant = NoGrant

\* The steps of an entry up to the frame it pushes.
LEMMA EntrySteps ==
  ASSUME Typed, NEW t \in Threads, Step(t), Entering(t)'
  PROVE  \/ /\ \E b \in Bridges, r \in Reasons : Enter(t, b, r)
            /\ pc'[t] = "prepare" /\ op'[t].grant = NoGrant
         \/ /\ CheckImage(t) \/ AuthorizeCapability(t)
            /\ pc'[t] \in {"authorize", "push"}
<1>1. pc \in [Threads -> Steps] /\ op \in [Threads -> Op]
  BY DEF Typed, TypeOK
<1>2. CASE \/ PushFrame(t) \/ PopTop(t) \/ ThreadExits(t) \/ RefuseStack(t)
           \/ CheckImage(t) \/ AuthorizeCapability(t)
           \/ \E b \in Bridges, r \in Reasons : Enter(t, b, r)
  <2>1. CASE PushFrame(t) \/ PopTop(t) \/ ThreadExits(t) \/ RefuseStack(t)
    <3>1. pc'[t] \in {"run", "expire"}
      BY <1>1, <2>1 DEF PushFrame, PopTop, ThreadExits, RefuseStack, Idle, Return, Goto
    <3>2. QED
      BY <3>1 DEF Entering
  <2>2. CASE CheckImage(t)
    <3>1. pc'[t] \in {"run", "push", "authorize"}
      BY <1>1, <2>2 DEF CheckImage, Return, Goto
    <3>2. QED
      BY <2>2, <3>1 DEF Entering
  <2>3. CASE AuthorizeCapability(t)
    <3>1. pc'[t] \in {"run", "push", "authorize"}
      BY <1>1, <2>3 DEF AuthorizeCapability, Return, Advance, Goto
    <3>2. QED
      BY <2>3, <3>1 DEF Entering
  <2>4. ASSUME NEW b \in Bridges, NEW r \in Reasons, Enter(t, b, r)
        PROVE  pc'[t] = "prepare" /\ op'[t].grant = NoGrant
    BY <1>1, <2>4 DEF Enter, NoOp, Goto
  <2>5. QED
    BY <1>2, <2>1, <2>2, <2>3, <2>4
<1>3. CASE Flat(t) /\ ~CheckImage(t) /\ ~AuthorizeCapability(t) /\ ~RefuseStack(t)
  <2>1. pc[t] \in {"prepare", "authorize", "push"}
    BY <1>3 DEF Flat, Entering
  <2>2. pc[t] \notin {"prepare", "authorize", "push"} \/ PushFrame(t)
        \/ ThreadExits(t) \/ \E b \in Bridges, r \in Reasons : Enter(t, b, r)
    BY <1>3 DEF Step, Runtime, Guest, Host, Preflight, PublishCapability,
       PublishRefused, CommitResult, RevokeResult, ClearReplaced, ExpireEvent,
       ExpireOwner, ExpireProcess, DeactivateImage, RetireImage, StartFinish,
       ExpireTop, PopTop, StartCall, CallAborts, GuestReturns, GuestFails,
       ActivateCapability, ActivationRefused, CallReturns, StartEvent, Fault,
       Unwind, InPhase
  <2>3. QED
    BY <1>2, <2>1, <2>2
<1>4. QED
  BY <1>2, <1>3, StackKinds

\* Where the grant of an entry comes from.
LEMMA EntryMoves ==
  ASSUME Typed, NEW t \in Threads, Step(t)
  PROVE  /\ pc'[t] = "prepare" => op'[t].grant = NoGrant
         /\ pc'[t] = "push" =>
              \/ CheckImage(t) /\ op'[t].grant = op[t].grant
              \/ AuthorizeCapability(t)
<1>1. pc \in [Threads -> Steps] /\ op \in [Threads -> Op]
  BY DEF Typed, TypeOK
<1>2. CheckImage(t) /\ pc'[t] = "push" => op'[t].grant = op[t].grant
  BY <1>1 DEF CheckImage, Return, Goto, Op
<1>3. QED
  BY <1>2, EntrySteps DEF Entering

(* An authorized entry holds the grant of an active slot that admits it,   *)
(* which a one-shot capability then no longer has.                         *)
LEMMA AuthorizedBySlot ==
  ASSUME Typed, NEW t \in Threads, AuthorizeCapability(t), pc'[t] = "push"
  PROVE  /\ pc[t] = "authorize" /\ UNCHANGED <<frames, next_generation>>
         /\ \E c \in Capabilities, i \in SlotIds :
              /\ slots[c][i].active /\ slots[c][i].generation # 0
              /\ slots[c][i].escaped \/ slots[c][i].owner_thread = t
              /\ op'[t].grant = [capability |-> c,
                                 generation |-> slots[c][i].generation,
                                 escaped |-> slots[c][i].escaped,
                                 owner |-> slots[c][i].owner_ingress]
              /\ Lifetime[c] = "one_shot" => ~slots'[c][i].active
<1> DEFINE list == BridgeCapabilities[op[t].bridge]
           c == list[op[t].cursor]
           i == First(Admitting(slots[c], t))
           grant == [capability |-> c, generation |-> slots[c][i].generation,
                     escaped |-> slots[c][i].escaped,
                     owner |-> slots[c][i].owner_ingress]
           o == [op[t] EXCEPT !.grant = grant]
<1>1. /\ op[t] \in Op /\ op[t].bridge \in Bridges /\ op[t].cursor \in Nat \ {0}
      /\ pc \in [Threads -> Steps] /\ op \in [Threads -> Op]
      /\ slots \in [Capabilities -> Table] /\ pc[t] = "authorize"
      /\ UNCHANGED <<frames, next_generation>>
  BY DEF AuthorizeCapability, Typed, TypeOK, Shape, Op
<1>2. /\ op[t].cursor <= Len(list) /\ Admitting(slots[c], t) # {}
      /\ slots' = [slots EXCEPT ![c] = Authorize(slots[c], Lifetime[c], t)]
      /\ Goto(t, "push", o)
  <2>1. ~Return(t) /\ ~Advance(t)
    BY <1>1 DEF Return, Advance, Goto
  <2>2. QED
    BY <2>1 DEF AuthorizeCapability
<1>3. op'[t].grant = grant
  <2> HIDE DEF grant
  <2>1. op'[t] = o
    BY <1>1, <1>2 DEF Goto
  <2>2. QED
    BY <1>1, <2>1 DEF Op
<1>4. c \in Capabilities
  <2>1. list \in Seq(Capabilities)
    BY <1>1, ConfigurationAssumption
  <2> HIDE DEF list
  <2>2. Len(list) \in Nat
    BY <2>1, LenProperties
  <2>3. op[t].cursor \in Nat \ {0} /\ op[t].cursor <= Len(list)
    BY ONLY <1>1, <1>2
  <2>4. op[t].cursor \in 1 .. Len(list)
    BY ONLY <2>2, <2>3
  <2>5. QED
    BY <2>1, <2>4, ElementOfSeq
<1>5. /\ i \in SlotIds /\ slots[c][i].active /\ slots[c][i].generation # 0
      /\ slots[c][i].escaped \/ slots[c][i].owner_thread = t
  <2>1. i \in Admitting(slots[c], t)
    BY <1>2, FirstInSet DEF Admitting
  <2>2. QED
    BY <2>1 DEF Admitting
<1>6. Lifetime[c] = "one_shot" => ~slots'[c][i].active
  <2>1. slots'[c] = [slots[c] EXCEPT ![i].active = (Lifetime[c] # "one_shot")]
    BY <1>1, <1>2, <1>4 DEF Authorize
  <2>2. slots[c] \in Table
    BY <1>1, <1>4
  <2> HIDE DEF c, i
  <2>3. QED
    BY <1>5, <2>1, <2>2 DEF Table, Slot
<1> HIDE DEF c, i
<1>7. QED
  BY <1>1, <1>3, <1>4, <1>5, <1>6

(* Where the admissions of a thread come from.                             *)
LEMMA HoldingMoves ==
  ASSUME Typed, NEW t \in Threads, EntersBare(t), Step(t),
         NEW i \in Holding(t)'
  PROVE  \/ /\ i \in Holding(t)
            /\ Admission(t, i)' = Admission(t, i)
            /\ \A j \in 1 .. (i - 1) :
                 frames'[t][j].generation = frames[t][j].generation
         \/ Admission(t, i)'.generation = 0
         \/ /\ AuthorizeCapability(t) /\ pc'[t] = "push"
            /\ i = Depth(t) + 1 /\ Admission(t, i)' = op'[t].grant
<1>1. Depth(t) \in Nat
  BY CountersTyped
<1>2. CASE PushFrame(t)
  <2> DEFINE n == Depth(t)
  <2>1. /\ Len(frames'[t]) = n + 1
        /\ \A k \in 1 .. n : frames'[t][k] = frames[t][k]
        /\ frames'[t][n + 1].admitted = op[t].grant
        /\ pc'[t] = "run" /\ pc[t] = "push"
    BY <1>2, PushLeaves DEF PushFrame
  <2>2. i \in 1 .. (n + 1) /\ Holding(t) = 1 .. (n + 1)
    BY <2>1 DEF Holding, Depth
  <2>3. Admission(t, i)' = frames'[t][i].admitted
    BY <1>1, <2>1, <2>2 DEF Admission, Depth
  <2>4. Admission(t, i)' = Admission(t, i)
    BY <1>1, <2>1, <2>2, <2>3 DEF Admission
  <2>5. \A j \in 1 .. (i - 1) : j \in 1 .. n
    BY <1>1, <2>2
  <2>6. QED
    BY <2>1, <2>2, <2>4, <2>5
<1>3. CASE PopTop(t)
  <2> DEFINE n == Depth(t) - 1
  <2>1. /\ n \in Nat /\ Len(frames'[t]) = n
        /\ \A j \in 1 .. n :
              \/ frames'[t][j] = frames[t][j]
              \/ frames'[t][j] = HandlerRuns(frames[t][j])
        /\ pc'[t] # "push"
    BY <1>3, PopLeaves, PopRestores
  <2>2. \A j \in 1 .. n : frames[t][j] \in Frame
    BY <2>1, CountersTyped
  <2>3. \A j \in 1 .. n : /\ HandlerRuns(frames[t][j]).admitted = frames[t][j].admitted
                          /\ HandlerRuns(frames[t][j]).generation = frames[t][j].generation
    BY <2>2 DEF HandlerRuns, Frame
  <2>4. i \in 1 .. n /\ Admission(t, i)' = frames'[t][i].admitted
    BY <2>1 DEF Holding, Admission, Depth
  <2>5. i \in Holding(t) /\ Admission(t, i) = frames[t][i].admitted
    BY <1>1, <2>1, <2>4 DEF Holding, Admission
  <2>6. \A j \in 1 .. (i - 1) : j \in 1 .. n
    BY <2>1, <2>4
  <2>7. QED
    BY <2>1, <2>3, <2>4, <2>5, <2>6
<1>4. CASE FlatFrames(t)
  <2>1. /\ Len(frames'[t]) = Len(frames[t])
        /\ \A k \in 1 .. Len(frames[t]) :
             /\ frames'[t][k].admitted = frames[t][k].admitted
             /\ frames'[t][k].generation = frames[t][k].generation
    BY <1>4 DEF FlatFrames, SameEntry
  <2>2. CASE i \in 1 .. Depth(t)
    <3>1. i \in Holding(t) /\ Admission(t, i) = frames[t][i].admitted
          /\ Admission(t, i)' = frames'[t][i].admitted
      BY <1>1, <2>1, <2>2 DEF Holding, Admission, Depth
    <3>2. \A j \in 1 .. (i - 1) : j \in 1 .. Len(frames[t])
      BY <1>1, <2>2 DEF Depth
    <3>3. QED
      BY <2>1, <2>2, <3>1, <3>2 DEF Depth
  <2>3. CASE i \notin 1 .. Depth(t)
    <3>1. pc'[t] = "push" /\ i = Depth(t) + 1 /\ Admission(t, i)' = op'[t].grant
      BY <1>1, <2>1, <2>3 DEF Holding, Admission, Depth
    <3>2. CheckImage(t) /\ op'[t].grant = op[t].grant => op'[t].grant = NoGrant
      BY DEF CheckImage, EntersBare
    <3>3. QED
      BY <3>1, <3>2, EntryMoves DEF NoGrant
  <2>4. QED
    BY <2>2, <2>3
<1>5. QED
  <2>1. ThreadExits(t) \/ (\E b \in Bridges, r \in Reasons : Enter(t, b, r))
          => UNCHANGED frames
    BY DEF ThreadExits, Enter
  <2>2. QED
    BY <1>2, <1>3, <1>4, <2>1, StackKinds, SameFramesFlat DEF Flat

-----------------------------------------------------------------------------
(* Callbacks admitted for the duration of a call run above the frame that  *)
(* lent them.                                                              *)
Nested(t) ==
  \A i \in Holding(t) :
    LET g == Admission(t, i)
    IN  g.generation # 0 /\ ~g.escaped =>
          \E j \in 1 .. (i - 1) : frames[t][j].generation = g.owner

AdmissionsNested == \A t \in Threads : EntersBare(t) /\ Nested(t)

\* A step keeps the admissions nested.
LEMMA StepNested ==
  ASSUME Lent, AdmissionsNested, NEW t \in Threads, Step(t)
  PROVE  AdmissionsNested'
<1>1. Typed /\ EntersBare(t) /\ Nested(t)
  BY DEF Lent, AdmissionsNested
<1>2. EntersBare(t)'
  BY <1>1, EntryMoves DEF EntersBare
<1>3. ASSUME NEW i \in Holding(t)', Admission(t, i)'.generation # 0,
             ~Admission(t, i)'.escaped
      PROVE  \E j \in 1 .. (i - 1) : frames'[t][j].generation = Admission(t, i)'.owner
  <2>1. CASE /\ i \in Holding(t)
             /\ Admission(t, i)' = Admission(t, i)
             /\ \A j \in 1 .. (i - 1) :
                  frames'[t][j].generation = frames[t][j].generation
    <3>1. PICK j \in 1 .. (i - 1) : frames[t][j].generation = Admission(t, i).owner
      BY <1>1, <1>3, <2>1 DEF Nested
    <3>2. QED
      BY <2>1, <3>1
  <2>2. CASE /\ AuthorizeCapability(t) /\ pc'[t] = "push"
             /\ i = Depth(t) + 1 /\ Admission(t, i)' = op'[t].grant
    <3>1. UNCHANGED frames /\ Depth(t) \in Nat
      BY <1>1, <2>2, AuthorizedBySlot, CountersTyped
    <3>2. PICK c \in Capabilities, k \in SlotIds :
            /\ slots[c][k].active
            /\ slots[c][k].escaped \/ slots[c][k].owner_thread = t
            /\ op'[t].grant = [capability |-> c,
                               generation |-> slots[c][k].generation,
                               escaped |-> slots[c][k].escaped,
                               owner |-> slots[c][k].owner_ingress]
      BY <1>1, <2>2, AuthorizedBySlot
    <3>3. /\ ~slots[c][k].escaped /\ slots[c][k].owner_thread = t
          /\ Admission(t, i)'.owner = slots[c][k].owner_ingress
      BY <1>3, <2>2, <3>2
    <3>4. \E j \in 1 .. Depth(t) : frames[t][j].generation = slots[c][k].owner_ingress
      BY <3>2, <3>3, LocalHasOwner
    <3>5. QED
      BY <2>2, <3>1, <3>3, <3>4
  <2>3. QED
    BY <1>1, <1>3, <2>1, <2>2, HoldingMoves
<1>4. Nested(t)'
  BY <1>3 DEF Nested
<1>5. ASSUME NEW u \in Threads \ {t}
      PROVE  EntersBare(u)' /\ Nested(u)'
  <2>1. /\ pc'[u] = pc[u] /\ op'[u] = op[u] /\ frames'[u] = frames[u]
        /\ EntersBare(u) /\ Nested(u)
    BY <1>1, StepLeavesOthers DEF OthersStay, AdmissionsNested
  <2>2. QED
    BY <2>1 DEF EntersBare, Nested, Holding, Admission, Depth
<1>6. QED
  BY <1>2, <1>4, <1>5 DEF AdmissionsNested

\* AdmissionsNested is inductive.
LEMMA NextNested == Lent /\ AdmissionsNested /\ [Next]_vars => AdmissionsNested'
<1> SUFFICES ASSUME Lent, AdmissionsNested, [Next]_vars PROVE AdmissionsNested'
  OBVIOUS
<1>1. CASE UNCHANGED vars
  BY <1>1 DEF vars, AdmissionsNested, EntersBare, Nested, Holding, Admission, Depth
<1>2. QED
  BY <1>1, StepNested DEF Next, Step

\* Nothing is admitted initially.
LEMMA InitNested == Init => AdmissionsNested
<1> SUFFICES ASSUME Init, NEW t \in Threads PROVE EntersBare(t) /\ Nested(t)
  BY DEF AdmissionsNested
<1>1. Depth(t) = 0 /\ pc[t] = "run"
  BY EmptySeq DEF Init, Depth
<1>2. \A i \in Holding(t) : FALSE
  BY <1>1 DEF Holding
<1>3. QED
  BY <1>1, <1>2 DEF EntersBare, Nested

\* The lender of a nested admission is below it, in a call.
LEMMA NestedAdmissions ==
  ASSUME Lent, AdmissionsNested, NEW t \in Threads, NEW i \in 1 .. Depth(t),
         frames[t][i].admitted.generation # 0, ~frames[t][i].admitted.escaped
  PROVE  \E j \in 1 .. (i - 1) :
           /\ frames[t][j].generation = frames[t][i].admitted.owner
           /\ frames[t][j].phase = "call"
<1>1. Depth(t) \in Nat
  BY CountersTyped DEF Lent
<1>2. i \in Holding(t) /\ Admission(t, i) = frames[t][i].admitted
  BY <1>1 DEF Holding, Admission
<1>3. PICK j \in 1 .. (i - 1) : frames[t][j].generation = frames[t][i].admitted.owner
  BY <1>2 DEF AdmissionsNested, Nested
<1>4. j \in 1 .. (Depth(t) - 1)
  BY <1>1
<1>5. frames[t][j].phase = "call"
  BY <1>4 DEF Lent, FramesStacked, Stacked, Calling
<1>6. QED
  BY <1>3, <1>5

(* A callback admitted by a during-call generation runs above the frame    *)
(* that lent it, in the same thread, while that frame is inside a call.    *)
THEOREM LocalAdmissionsNested ==
  ASSUME NoIngressWrap
  PROVE  Spec => []DuringCallAdmissionNested
<1>1. Lent /\ AdmissionsNested => DuringCallAdmissionNested
  BY NestedAdmissions DEF DuringCallAdmissionNested
<1>2. QED
  BY <1>1, AlwaysLent, InitNested, NextNested, PTL DEF Spec
-----------------------------------------------------------------------------
(* One-shot admission: a generation that admitted a frame is not drawn     *)
(* again, and of a one-shot capability it is not active again.             *)
SpentBy(g, t, i) ==
  /\ g.generation <= next_generation
  /\ \A u \in Threads : Publishing(u) => op[u].grant.generation # g.generation
  /\ \A c \in Capabilities : \A j \in SlotIds :
       slots[c][j].active /\ slots[c][j].generation = g.generation =>
         c = g.capability /\ Lifetime[c] # "one_shot"
  /\ \A u \in Threads : \A j \in Holding(u) :
       LET h == Admission(u, j)
       IN  h.generation = g.generation =>
             /\ h.capability = g.capability
             /\ Lifetime[g.capability] = "one_shot" => t = u /\ i = j

Spent ==
  /\ \A t \in Threads : EntersBare(t)
  /\ \A t \in Threads : \A i \in Holding(t) :
       Admission(t, i).generation # 0 => SpentBy(Admission(t, i), t, i)

\* The frame that holds admission i of thread u, or will, is not new.
Kept(u, i) == i \in Holding(u) /\ Admission(u, i)' = Admission(u, i)

\* Entry t has just been admitted by slot k of capability c.
AdmittedBy(t, c, k) ==
  /\ pc[t] = "authorize" /\ UNCHANGED <<frames, next_generation>>
  /\ slots[c][k].active
  /\ op'[t].grant.capability = c
  /\ op'[t].grant.generation = slots[c][k].generation
  /\ Lifetime[c] = "one_shot" => ~slots'[c][k].active

(* After a step of t, an admission is an old one or the one t was given.   *)
LEMMA AdmissionsMove ==
  ASSUME Typed, Spent, NEW t \in Threads, Step(t),
         NEW u \in Threads, NEW i \in Holding(u)', Admission(u, i)'.generation # 0
  PROVE  \/ Kept(u, i)
         \/ /\ u = t /\ i = Depth(t) + 1 /\ Admission(u, i)' = op'[t].grant
            /\ pc'[t] = "push"
            /\ \E c \in Capabilities, k \in SlotIds : AdmittedBy(t, c, k)
<1>1. CASE u # t
  <2>1. pc'[u] = pc[u] /\ op'[u] = op[u] /\ frames'[u] = frames[u]
    BY <1>1, StepLeavesOthers DEF OthersStay
  <2>2. QED
    BY <2>1 DEF Kept, Holding, Admission, Depth
<1>2. CASE u = t
  <2>1. EntersBare(t)
    BY DEF Spent
  <2>2. \/ Kept(t, i)
        \/ /\ AuthorizeCapability(t) /\ pc'[t] = "push"
           /\ i = Depth(t) + 1 /\ Admission(t, i)' = op'[t].grant
    BY <1>2, <2>1, HoldingMoves DEF Kept
  <2>3. AuthorizeCapability(t) /\ pc'[t] = "push" =>
          \E c \in Capabilities, k \in SlotIds : AdmittedBy(t, c, k)
    <3> SUFFICES ASSUME AuthorizeCapability(t), pc'[t] = "push"
                 PROVE  \E c \in Capabilities, k \in SlotIds : AdmittedBy(t, c, k)
      OBVIOUS
    <3>1. /\ pc[t] = "authorize" /\ UNCHANGED <<frames, next_generation>>
          /\ \E c \in Capabilities, k \in SlotIds :
               /\ slots[c][k].active
               /\ op'[t].grant = [capability |-> c,
                                  generation |-> slots[c][k].generation,
                                  escaped |-> slots[c][k].escaped,
                                  owner |-> slots[c][k].owner_ingress]
               /\ Lifetime[c] = "one_shot" => ~slots'[c][k].active
      BY AuthorizedBySlot
    <3>2. PICK c \in Capabilities, k \in SlotIds :
               /\ slots[c][k].active
               /\ op'[t].grant = [capability |-> c,
                                  generation |-> slots[c][k].generation,
                                  escaped |-> slots[c][k].escaped,
                                  owner |-> slots[c][k].owner_ingress]
               /\ Lifetime[c] = "one_shot" => ~slots'[c][k].active
      BY <3>1
    <3>3. /\ op'[t].grant.capability = c
          /\ op'[t].grant.generation = slots[c][k].generation
      BY <3>2
    <3>4. AdmittedBy(t, c, k)
      BY <3>1, <3>2, <3>3 DEF AdmittedBy
    <3>5. QED
      BY <3>4
  <2>4. QED
    BY <1>2, <2>2, <2>3
<1>3. QED
  BY <1>1, <1>2

\* An admission has a generation.
LEMMA AdmissionTyped ==
  ASSUME Typed, NEW t \in Threads, NEW i \in Holding(t)
  PROVE  Admission(t, i).generation \in Nat
<1>1. op[t].grant.generation \in Nat
  BY DEF Typed, TypeOK, Op, Grant
<1>2. \A k \in 1 .. Depth(t) : frames[t][k].admitted.generation \in Nat
  BY CountersTyped DEF Frame, Grant
<1>3. Depth(t) \in Nat
  BY CountersTyped
<1>4. i # Depth(t) + 1 => i \in 1 .. Depth(t)
  BY <1>3 DEF Holding
<1>5. QED
  BY <1>1, <1>2, <1>4 DEF Admission

(* What a generation that admitted a frame has spent stays spent.          *)
LEMMA StaysSpent ==
  ASSUME NoCapabilityWrap, Typed, Fresh, Spent, NEW t \in Threads, Step(t),
         NEW u \in Threads, NEW i \in Nat,
         NEW g, g.generation \in Nat \ {0}, SpentBy(g, u, i)
  PROVE  SpentBy(g, u, i)'
<1>1. g.generation <= next_generation'
  BY GenerationMoves DEF SpentBy
<1>2. ASSUME NEW v \in Threads, Publishing(v)'
      PROVE  op'[v].grant.generation # g.generation
  <2>1. CASE v # t
    <3>1. Publishing(v) /\ op'[v] = op[v]
      BY <1>2, <2>1, StepLeavesOthers DEF OthersStay, Publishing
    <3>2. QED
      BY <3>1 DEF SpentBy
  <2>2. CASE v = t
    BY <1>2, <2>2, GenerationMoves DEF SpentBy
  <2>3. QED
    BY <2>1, <2>2
<1>3. ASSUME NEW c \in Capabilities, NEW j \in SlotIds, slots'[c][j].active,
             slots'[c][j].generation = g.generation
      PROVE  c = g.capability /\ Lifetime[c] # "one_shot"
  <2>1. CASE slots[c][j].active /\ slots'[c][j].generation = slots[c][j].generation
    BY <1>3, <2>1 DEF SpentBy
  <2>2. CASE Publishing(t) /\ slots'[c][j].generation = op[t].grant.generation
    BY <1>3, <2>2 DEF SpentBy
  <2>3. QED
    BY <1>3, <2>1, <2>2, LiveMoves DEF Publishing
<1>4. ASSUME NEW v \in Threads, NEW j \in Holding(v)',
             Admission(v, j)'.generation = g.generation
      PROVE  /\ Admission(v, j)'.capability = g.capability
             /\ Lifetime[g.capability] = "one_shot" => u = v /\ i = j
  <2>1. CASE Kept(v, j)
    BY <1>4, <2>1 DEF SpentBy, Kept
  <2>2. ASSUME NEW c \in Capabilities, NEW k \in SlotIds, AdmittedBy(t, c, k),
               Admission(v, j)' = op'[t].grant
        PROVE  Admission(v, j)'.capability = g.capability
               /\ Lifetime[g.capability] # "one_shot"
    <3>1. /\ slots[c][k].active /\ slots[c][k].generation = g.generation
          /\ Admission(v, j)'.capability = c
      BY <1>4, <2>2 DEF AdmittedBy
    <3>2. QED
      BY <3>1 DEF SpentBy
  <2>3. Admission(v, j)'.generation # 0
    BY <1>4
  <2>4. QED
    BY <2>1, <2>2, <2>3, AdmissionsMove
<1>5. QED
  BY <1>1, <1>2, <1>3, <1>4 DEF SpentBy

(* The generation that has just admitted an entry is spent on it.          *)
LEMMA AdmittingSpends ==
  ASSUME NoCapabilityWrap, Typed, Fresh, Spent, NEW t \in Threads, Step(t),
         NEW c \in Capabilities, NEW k \in SlotIds, AdmittedBy(t, c, k),
         pc'[t] = "push", slots[c][k].generation # 0,
         NEW g, g.capability = c, g.generation = slots[c][k].generation
  PROVE  SpentBy(g, t, Depth(t) + 1)'
<1>0. /\ next_generation' = next_generation /\ Depth(t)' = Depth(t) /\ pc[t] # "publish"
      /\ slots[c][k].active
      /\ op'[t].grant.capability = c
      /\ op'[t].grant.generation = slots[c][k].generation
      /\ Lifetime[c] = "one_shot" => ~slots'[c][k].active
  BY DEF AdmittedBy, Depth
<1>1. slots[c][k].generation <= next_generation
  BY <1>0 DEF Fresh
<1>2. ASSUME NEW v \in Threads, Publishing(v)'
      PROVE  op'[v].grant.generation # slots[c][k].generation
  <2>1. v # t
    BY <1>2 DEF Publishing
  <2>2. Publishing(v) /\ op'[v] = op[v]
    BY <1>2, <2>1, StepLeavesOthers DEF OthersStay, Publishing
  <2>3. QED
    BY <1>0, <2>2 DEF Fresh
<1>3. ASSUME NEW d \in Capabilities, NEW j \in SlotIds, slots'[d][j].active,
             slots'[d][j].generation = slots[c][k].generation
      PROVE  d = c /\ Lifetime[d] # "one_shot"
  <2>1. slots[d][j].active /\ slots'[d][j].generation = slots[d][j].generation
    BY <1>0, <1>3, LiveMoves
  <2>2. slots[d][j].generation = slots[c][k].generation
    BY <1>3, <2>1
  <2>3. d = c /\ j = k
    BY <1>0, <2>1, <2>2 DEF Fresh, UniqueGenerations
  <2>4. QED
    BY <1>0, <1>3, <2>3
<1>4. ASSUME NEW v \in Threads, NEW j \in Holding(v)',
             Admission(v, j)'.generation = slots[c][k].generation
      PROVE  /\ Admission(v, j)'.capability = c
             /\ Lifetime[c] = "one_shot" => t = v /\ Depth(t) + 1 = j
  <2>1. CASE Kept(v, j)
    <3>1. SpentBy(Admission(v, j), v, j)
      BY <1>4, <2>1 DEF Kept, Spent
    <3>2. c = Admission(v, j).capability /\ Lifetime[c] # "one_shot"
      BY <1>0, <1>4, <2>1, <3>1 DEF SpentBy, Kept
    <3>3. QED
      BY <2>1, <3>2 DEF Kept
  <2>2. CASE v = t /\ j = Depth(t) + 1 /\ Admission(v, j)' = op'[t].grant
    BY <1>0, <2>2
  <2>3. QED
    BY <1>4, <2>1, <2>2, AdmissionsMove
<1>5. QED
  BY <1>0, <1>1, <1>2, <1>3, <1>4 DEF SpentBy

\* A step keeps what admitted a frame spent.
LEMMA StepSpent ==
  ASSUME NoCapabilityWrap, Typed, Fresh, Spent, NEW t \in Threads, Step(t)
  PROVE  Spent'
<1>1. ASSUME NEW u \in Threads
      PROVE  EntersBare(u)'
  <2>1. EntersBare(u)
    BY DEF Spent
  <2>2. CASE u = t
    BY <2>2, EntryMoves DEF EntersBare
  <2>3. CASE u # t
    BY <2>1, <2>3, StepLeavesOthers DEF OthersStay, EntersBare
  <2>4. QED
    BY <2>2, <2>3
<1>2. ASSUME NEW u \in Threads, NEW i \in Holding(u)', NEW g,
             g = Admission(u, i)', g.generation # 0
      PROVE  SpentBy(g, u, i)'
  <2>1. CASE Kept(u, i)
    <3>1. i \in Holding(u) /\ g = Admission(u, i)
      BY <1>2, <2>1 DEF Kept
    <3>2. i \in Nat
      BY <3>1, CountersTyped DEF Holding
    <3>3. g.generation \in Nat \ {0}
      BY <1>2, <3>1, AdmissionTyped
    <3>4. SpentBy(g, u, i)
      BY <1>2, <3>1 DEF Spent
    <3>5. QED
      BY <3>2, <3>3, <3>4, StaysSpent
  <2>2. ASSUME NEW c \in Capabilities, NEW k \in SlotIds, AdmittedBy(t, c, k),
               pc'[t] = "push", u = t, i = Depth(t) + 1, g = op'[t].grant
        PROVE  SpentBy(g, u, i)'
    <3>1. g.capability = c /\ g.generation = slots[c][k].generation
      BY <2>2 DEF AdmittedBy
    <3>2. SpentBy(g, t, Depth(t) + 1)'
      BY <1>2, <2>2, <3>1, AdmittingSpends
    <3>3. Depth(t)' = Depth(t)
      BY <2>2 DEF AdmittedBy, Depth
    <3>4. QED
      BY <2>2, <3>2, <3>3
  <2>3. QED
    BY <1>2, <2>1, <2>2, AdmissionsMove
<1>3. QED
  BY <1>1, <1>2 DEF Spent

\* Spent is inductive.
LEMMA NextSpent ==
  ASSUME NoCapabilityWrap, Typed, Fresh, Spent, [Next]_vars
  PROVE  Spent'
<1>1. CASE UNCHANGED vars
  BY <1>1 DEF vars, Spent, SpentBy, EntersBare, Holding, Admission, Depth, Publishing
<1>2. QED
  BY <1>1, StepSpent DEF Next, Step

\* Nothing is spent initially.
LEMMA InitSpent == Init => Spent
<1> SUFFICES ASSUME Init PROVE Spent
  OBVIOUS
<1>1. \A t \in Threads : Depth(t) = 0 /\ pc[t] = "run"
  BY EmptySeq DEF Init, Depth
<1>2. \A t \in Threads : \A i \in Holding(t) : FALSE
  BY <1>1 DEF Holding
<1>3. QED
  BY <1>1, <1>2 DEF Spent, EntersBare

\* What is spent admits no second frame.
LEMMA SpentAdmitsOnce ==
  ASSUME Typed, Spent
  PROVE  OneShotAdmitsOnce
<1>1. ASSUME NEW t \in Threads, NEW i \in 1 .. Depth(t)
      PROVE  i \in Holding(t) /\ Admission(t, i) = frames[t][i].admitted
  BY <1>1, CountersTyped DEF Holding, Admission
<1>2. SUFFICES ASSUME NEW t \in Threads, NEW u \in Threads,
                      NEW i \in 1 .. Depth(t), NEW j \in 1 .. Depth(u),
                      Admission(t, i).generation # 0,
                      Admission(t, i).generation = Admission(u, j).generation,
                      Lifetime[Admission(t, i).capability] = "one_shot"
               PROVE  t = u /\ i = j
  BY <1>1 DEF OneShotAdmitsOnce
<1>3. SpentBy(Admission(t, i), t, i) /\ j \in Holding(u)
  BY <1>1, <1>2 DEF Spent
<1>4. QED
  BY <1>2, <1>3 DEF SpentBy

(* One-shot admission is atomic: no two live frames, of one thread or of   *)
(* two, were admitted by the same one-shot generation, until the counter   *)
(* of generations wraps.                                                   *)
THEOREM OneShotsAdmitOnce ==
  ASSUME NoCapabilityWrap
  PROVE  Spec => []OneShotAdmitsOnce
<1>1. Typed /\ Spent => OneShotAdmitsOnce
  BY SpentAdmitsOnce
<1>2. Typed /\ Fresh /\ Spent /\ [Next]_vars => Spent'
  BY NextSpent
<1>3. QED
  BY <1>1, <1>2, TypedCorrect, AlwaysFresh, InitSpent, PTL DEF Spec

-----------------------------------------------------------------------------
(* Process detach, with a host that detaches only when nothing else runs   *)
(* in the image.                                                           *)
Ordinary(b) == LifecycleMode[b] = "none" /\ b \notin ProcessRoots

(* A detach is the outermost entry of its thread, and the only one.        *)
DetachesAlone(t) ==
  /\ op[t].reason = "detach" => frames[t] = <<>>
  /\ \A i \in 1 .. Depth(t) : frames[t][i].reason = "detach" => i = 1
  /\ Detaching(t) => \A u \in Threads \ {t} : Idle(u)

(* The detach expires capability after capability and then turns the image *)
(* inactive, inside its own frame and no other.                            *)
TearsDown(t) ==
  pc[t] \in {"process", "deactivate"} =>
    /\ Depth(t) = 1
    /\ frames[t][1].reason = "detach"
    /\ LifecycleMode[frames[t][1].bridge] = "dllmain"
    /\ \A c \in Capabilities : pc[t] = "deactivate" \/ c < op[t].cursor =>
         \A i \in SlotIds : ~slots[c][i].active

NothingActive == \A c \in Capabilities : \A i \in SlotIds : ~slots[c][i].active

(* A thread is not inside an image that is inactive.                       *)
Outside(t) ==
  /\ pc[t] # "publish"
  /\ pc[t] \in {"authorize", "push"} => ~Ordinary(op[t].bridge)
  /\ \A i \in 1 .. Depth(t) : ~Ordinary(frames[t][i].bridge)

Quiesced ==
  /\ \A t \in Threads : DetachesAlone(t) /\ TearsDown(t)
  /\ ~image_active => NothingActive /\ \A t \in Threads : Outside(t)

\* The reason of an operation is the one its entry came with.
LEMMA ReasonMoves ==
  ASSUME Typed, NEW t \in Threads, Step(t)
  PROVE  \/ op'[t].reason \in {"none", op[t].reason}
         \/ \E b \in Bridges, r \in Reasons : Enter(t, b, r)
<1>1. /\ op \in [Threads -> Op] /\ op[t] \in Op
      /\ NoOp \in Op /\ NoOp.reason = "none"
  BY NoOpTyped DEF Typed, TypeOK, NoOp
<1>2. ASSUME NEW step, NEW o, Goto(t, step, o)
      PROVE  op'[t] = o
  BY <1>1, <1>2 DEF Goto
<1>3. ASSUME NEW n, NEW g
      PROVE  /\ [op[t] EXCEPT !.cursor = n].reason = op[t].reason
             /\ [op[t] EXCEPT !.grant = g].reason = op[t].reason
  BY <1>1 DEF Op, NoOp
<1>4. Return(t) => op'[t].reason = "none"
  BY <1>1, <1>2 DEF Return
<1>5. Advance(t) => op'[t].reason = op[t].reason
  BY <1>2, <1>3 DEF Advance
<1>6. CASE \/ Preflight(t) \/ StartCall(t) \/ CallAborts(t) \/ GuestFails(t)
           \/ \E a \in Activations : ActivationRefused(t, a)
           \/ \E ok \in BOOLEAN : CallReturns(t, ok)
           \/ ThreadExits(t)
  BY <1>6 DEF Preflight, StartCall, CallAborts, GuestFails, ActivationRefused,
     CallReturns, ThreadExits
<1>7. CASE \/ RefuseStack(t) \/ PushFrame(t) \/ PublishCapability(t)
           \/ PublishRefused(t) \/ CommitResult(t) \/ RevokeResult(t)
           \/ ClearReplaced(t) \/ DeactivateImage(t) \/ RetireImage(t)
           \/ GuestReturns(t)
  <2>1. \/ UNCHANGED op \/ Return(t)
        \/ \E step \in Steps : Goto(t, step, NoOp) \/ Goto(t, step, op[t])
    BY <1>7 DEF RefuseStack, PushFrame, PublishCapability, PublishRefused,
       CommitResult, RevokeResult, ClearReplaced, DeactivateImage, RetireImage,
       GuestReturns, Steps
  <2>2. QED
    BY <1>1, <1>2, <1>4, <2>1
<1>8. CASE \/ CheckImage(t) \/ AuthorizeCapability(t)
           \/ ExpireEvent(t) \/ ExpireOwner(t) \/ ExpireProcess(t) \/ ExpireTop(t)
           \/ PopTop(t)
  <2>1. \/ Return(t) \/ Advance(t) \/ \E step \in Steps : Goto(t, step, NoOp)
        \/ \E step \in Steps, n \in Nat : Goto(t, step, [op[t] EXCEPT !.cursor = n])
        \/ \E step \in Steps : \E g : Goto(t, step, [op[t] EXCEPT !.grant = g])
    BY <1>8 DEF CheckImage, AuthorizeCapability, ExpireEvent, ExpireOwner,
       ExpireProcess, ExpireTop, PopTop, Steps
  <2>2. QED
    BY <1>1, <1>2, <1>3, <1>4, <1>5, <2>1
<1>9. CASE \/ \E a \in Activations : ActivateCapability(t, a)
           \/ \E c \in Capabilities : StartEvent(t, EndEvent[c])
           \/ StartFinish(t)
           \/ \E k \in 1 .. Depth(t) : Fault(t, k)
           \/ \E k \in 0 .. Depth(t) : Unwind(t, k)
  <2>1. \/ UNCHANGED op
        \/ \E step, n, g, use :
             \/ Goto(t, step, [NoOp EXCEPT !.use = use, !.target = n])
             \/ Goto(t, step, [NoOp EXCEPT !.use = use, !.target = n, !.grant = g])
             \/ Goto(t, step, [NoOp EXCEPT !.cursor = n, !.target = n])
    BY <1>9 DEF ActivateCapability, StartEvent, StartFinish, Fault, Unwind, Leave
  <2>2. ASSUME NEW step, NEW n, NEW g, NEW use,
               \/ Goto(t, step, [NoOp EXCEPT !.use = use, !.target = n])
               \/ Goto(t, step, [NoOp EXCEPT !.use = use, !.target = n, !.grant = g])
               \/ Goto(t, step, [NoOp EXCEPT !.cursor = n, !.target = n])
        PROVE  op'[t].reason = "none"
    <3>1. \/ op'[t] = [NoOp EXCEPT !.use = use, !.target = n]
          \/ op'[t] = [NoOp EXCEPT !.use = use, !.target = n, !.grant = g]
          \/ op'[t] = [NoOp EXCEPT !.cursor = n, !.target = n]
      BY <1>2, <2>2
    <3>2. QED
      BY <3>1 DEF NoOp
  <2>3. QED
    BY <2>1, <2>2
<1>10. QED
  BY <1>6, <1>7, <1>8, <1>9 DEF Step, Runtime, Guest, Host

\* The image turns inactive at the end of a process detach, and only there.
LEMMA ImageMoves ==
  ASSUME Typed, NEW t \in Threads, Step(t)
  PROVE  image_active' \/ UNCHANGED image_active \/ DeactivateImage(t)
BY DEF Step, Runtime, Guest, Host, CheckImage, AuthorizeCapability,
   PushFrame, RefuseStack, Preflight, PublishCapability, PublishRefused,
   CommitResult, RevokeResult, ClearReplaced, ExpireEvent, ExpireOwner,
   ExpireProcess, RetireImage, StartFinish, ExpireTop, PopTop, StartCall,
   CallAborts, GuestReturns, GuestFails, ActivateCapability, ActivationRefused,
   CallReturns, StartEvent, Fault, Unwind, Enter, ThreadExits, shared

\* Next to a detach, another thread can only end.
LEMMA DetachWaits ==
  ASSUME HostQuiescesDetach, Typed, Quiesced, NEW t \in Threads, Step(t),
         NEW u \in Threads \ {t}, Detaching(u)
  PROVE  ThreadExits(t)
<1>1. pc[t] = "run" /\ frames[t] = <<>>
  BY DEF Quiesced, DetachesAlone, Idle
<1>2. ~(\E b \in Bridges, r \in Reasons : Enter(t, b, r))
  BY DEF Enter, HostAllows
<1>3. QED
  BY <1>1, <1>2 DEF Step, Runtime, Guest, Host, CheckImage, AuthorizeCapability,
     PushFrame, RefuseStack, Preflight, PublishCapability, PublishRefused,
     CommitResult, RevokeResult, ClearReplaced, ExpireEvent, ExpireOwner,
     ExpireProcess, DeactivateImage, RetireImage, StartFinish, ExpireTop,
     PopTop, StartCall, CallAborts, GuestReturns, GuestFails,
     ActivateCapability, ActivationRefused, CallReturns, StartEvent, Fault,
     Unwind, InPhase

(* How the frames of the thread that steps change their bridge and reason. *)
LEMMA EntriesMove ==
  ASSUME Typed, NEW t \in Threads, Step(t), ~PushFrame(t)
  PROVE  /\ Depth(t)' <= Depth(t)
         /\ \A k \in 1 .. Depth(t)' :
              /\ frames'[t][k].reason = frames[t][k].reason
              /\ frames'[t][k].bridge = frames[t][k].bridge
<1>1. Depth(t) \in Nat /\ \A k \in 1 .. Depth(t) : frames[t][k] \in Frame
  BY CountersTyped
<1>2. CASE PopTop(t)
  <2> DEFINE n == Depth(t) - 1
  <2>1. /\ n \in Nat /\ Len(frames'[t]) = n
        /\ \A j \in 1 .. n :
              \/ frames'[t][j] = frames[t][j]
              \/ frames'[t][j] = HandlerRuns(frames[t][j])
    BY <1>2, PopLeaves, PopRestores
  <2>2. \A j \in 1 .. n : /\ HandlerRuns(frames[t][j]).reason = frames[t][j].reason
                          /\ HandlerRuns(frames[t][j]).bridge = frames[t][j].bridge
    BY <1>1 DEF HandlerRuns, Frame
  <2>3. Depth(t)' = n /\ n <= Depth(t)
    BY <1>1, <2>1 DEF Depth
  <2>4. QED
    BY <2>1, <2>2, <2>3
<1>3. CASE FlatFrames(t)
  <2>1. Depth(t)' = Depth(t)
    BY <1>3 DEF FlatFrames, Depth
  <2>2. QED
    BY <1>1, <1>3, <2>1 DEF FlatFrames, SameEntry, Depth
<1>4. QED
  <2>1. ThreadExits(t) \/ (\E b \in Bridges, r \in Reasons : Enter(t, b, r))
          => UNCHANGED frames
    BY DEF ThreadExits, Enter
  <2>2. QED
    BY <1>2, <1>3, <2>1, StackKinds, SameFramesFlat DEF Flat

\* A step keeps a detach alone.
LEMMA StepDetachesAlone ==
  ASSUME HostQuiescesDetach, Typed, Typed', Quiesced, NEW t \in Threads, Step(t),
         NEW u \in Threads
  PROVE  DetachesAlone(u)'
<1>0. DetachesAlone(t) /\ DetachesAlone(u)
  BY DEF Quiesced
<1>1. OthersStay(t)
  BY StepLeavesOthers
<1>2. CASE u # t
  <2>1. /\ pc'[u] = pc[u] /\ op'[u] = op[u] /\ frames'[u] = frames[u]
        /\ Detaching(u)' => Detaching(u)
    BY <1>1, <1>2 DEF OthersStay, Detaching, Depth
  <2>2. ASSUME Detaching(u)', NEW v \in Threads \ {u}
        PROVE  Idle(v)'
    <3>1. Detaching(u) /\ ThreadExits(t) /\ Idle(v)
      BY <1>0, <1>2, <2>1, <2>2, DetachWaits DEF DetachesAlone
    <3>2. QED
      BY <3>1 DEF ThreadExits, Idle
  <2>3. QED
    BY <1>0, <2>1, <2>2 DEF DetachesAlone, Depth
<1>3. CASE u = t /\ \E b \in Bridges, r \in Reasons : Enter(t, b, r)
  <2>1. PICK b \in Bridges, r \in Reasons : Enter(t, b, r)
    BY <1>3
  <2>2. /\ UNCHANGED frames /\ op'[t].reason = r
        /\ r = "detach" => frames[t] = <<>>
        /\ r = "detach" => \A v \in Threads \ {t} : Idle(v)
    <3>1. op \in [Threads -> Op]
      BY DEF Typed, TypeOK
    <3>2. op'[t] = [NoOp EXCEPT !.bridge = b, !.reason = r]
      BY <2>1, <3>1 DEF Enter, Goto
    <3>3. op'[t].reason = r
      BY <3>2 DEF NoOp
    <3>4. QED
      BY <2>1, <3>3 DEF Enter, HostAllows
  <2>3. ASSUME Detaching(t)', NEW v \in Threads \ {t}
        PROVE  Idle(v)'
    <3>1. Idle(v)
      BY <1>0, <1>3, <2>2, <2>3 DEF Detaching, DetachesAlone, Depth
    <3>2. QED
      BY <1>1, <3>1 DEF OthersStay, Idle
  <2>4. QED
    BY <1>0, <1>3, <2>2, <2>3 DEF DetachesAlone, Depth
<1>4. CASE u = t /\ PushFrame(t)
  <2>1. /\ Depth(t) \in Nat /\ Len(frames'[t]) = Depth(t) + 1
        /\ \A k \in 1 .. Depth(t) : frames'[t][k] = frames[t][k]
        /\ frames'[t][Depth(t) + 1].reason = op[t].reason
    BY <1>4, PushLeaves
  <2>2. op'[t].reason = "none"
    BY <1>4, ReturnMoves DEF PushFrame, Typed, NoOp
  <2>3. op[t].reason = "detach" => Depth(t) = 0
    BY <1>0, EmptyStack DEF DetachesAlone, Depth
  <2>4. ASSUME NEW k \in 1 .. Depth(t)', frames'[t][k].reason = "detach"
        PROVE  k = 1 /\ Detaching(t)
    <3>1. Depth(t)' = Depth(t) + 1
      BY <2>1 DEF Depth
    <3>2. CASE k = Depth(t) + 1
      BY <2>1, <2>3, <2>4, <3>2 DEF Detaching
    <3>3. CASE k # Depth(t) + 1
      BY <1>0, <1>4, <2>1, <2>4, <3>1, <3>3 DEF Detaching, DetachesAlone
    <3>4. QED
      BY <3>2, <3>3
  <2>5. ASSUME Detaching(t)', NEW v \in Threads \ {t}
        PROVE  Idle(v)'
    <3>1. Detaching(t)
      BY <2>2, <2>4, <2>5 DEF Detaching
    <3>2. QED
      BY <1>0, <1>1, <1>4, <3>1 DEF DetachesAlone, OthersStay, Idle
  <2>6. QED
    BY <1>4, <2>2, <2>4, <2>5 DEF DetachesAlone
<1>5. CASE u = t /\ ~PushFrame(t) /\ ~\E b \in Bridges, r \in Reasons : Enter(t, b, r)
  <2>1. /\ Depth(t)' <= Depth(t) /\ Depth(t) \in Nat /\ Depth(t)' \in Nat
        /\ \A k \in 1 .. Depth(t)' : frames'[t][k].reason = frames[t][k].reason
    BY <1>5, EntriesMove, EmptyStack, EmptyStackNext DEF Depth
  <2>2. op'[t].reason \in {"none", op[t].reason}
    BY <1>5, ReasonMoves
  <2>3. op'[t].reason = "detach" => frames'[t] = <<>>
    BY <1>0, <1>5, <2>1, <2>2, EmptyStack, EmptyStackNext DEF DetachesAlone, Depth
  <2>4. \A k \in 1 .. Depth(t)' : k \in 1 .. Depth(t)
    BY <2>1
  <2>5. Detaching(t)' => Detaching(t)
    BY <2>1, <2>2, <2>4 DEF Detaching
  <2>6. ASSUME Detaching(t)', NEW v \in Threads \ {t}
        PROVE  Idle(v)'
    BY <1>0, <1>1, <1>5, <2>5, <2>6 DEF DetachesAlone, OthersStay, Idle
  <2>7. QED
    BY <1>0, <1>5, <2>1, <2>3, <2>4, <2>6 DEF DetachesAlone
<1>6. QED
  BY <1>2, <1>3, <1>4, <1>5


\* How a thread comes to tear the process down, and how it goes on.
LEMMA TearingMoves ==
  ASSUME Typed, NEW t \in Threads, Step(t), pc'[t] \in {"process", "deactivate"}
  PROVE  \/ /\ InPhase(t, "guest") /\ UNCHANGED slots
            /\ Top(t).reason = "detach"
            /\ LifecycleMode[Top(t).bridge] = "dllmain"
            /\ pc'[t] = "process" /\ op'[t].cursor = 0
         \/ ExpireProcess(t)
<1>1. pc \in [Threads -> Steps] /\ op \in [Threads -> Op]
  BY DEF Typed, TypeOK
<1>2. ASSUME NEW step, NEW o, Goto(t, step, o)
      PROVE  pc'[t] = step /\ op'[t] = o
  BY <1>1, <1>2 DEF Goto
<1>3. CASE Runtime(t)
  <2>1. \/ ExpireProcess(t)
        \/ pc'[t] \in {"run", "authorize", "push", "commit", "clear", "revoke",
                       "retire", "expire"}
        \/ pc'[t] = pc[t] /\ pc[t] \notin {"process", "deactivate"}
    BY <1>2, <1>3 DEF Runtime, CheckImage, AuthorizeCapability, PushFrame,
       RefuseStack, Preflight, PublishCapability, PublishRefused, CommitResult,
       RevokeResult, ClearReplaced, ExpireEvent, ExpireOwner, DeactivateImage,
       RetireImage, StartFinish, ExpireTop, PopTop, Return, Advance, Leave, InPhase
  <2>2. QED
    BY <2>1
<1>4. CASE Guest(t)
  <2>1. GuestReturns(t)
    <3>1. \/ GuestReturns(t)
          \/ pc'[t] \in {"run", "publish", "event", "expire"}
      BY <1>2, <1>4 DEF Guest, StartCall, CallAborts, GuestFails,
         ActivateCapability, ActivationRefused, CallReturns, StartEvent, Fault,
         Unwind, Leave, InPhase
    <3>2. QED
      BY <3>1
  <2>2. /\ InPhase(t, "guest") /\ UNCHANGED slots
        /\ LifecycleMode[Top(t).bridge] = "dllmain"
        /\ Top(t).reason = "detach" /\ Goto(t, "process", NoOp)
    <3>1. pc[t] = "run"
      BY <2>1 DEF GuestReturns, InPhase
    <3>2. ~Goto(t, "thread", NoOp) /\ ~UNCHANGED pc
      BY <1>2, <3>1
    <3>3. QED
      BY <2>1, <3>2 DEF GuestReturns
  <2>3. QED
    BY <1>2, <2>2 DEF NoOp
<1>5. CASE Host(t)
  <2>1. pc'[t] = "prepare" \/ (pc' = pc /\ pc[t] = "run")
    BY <1>2, <1>5 DEF Host, Enter, ThreadExits, Idle
  <2>2. QED
    BY <2>1
<1>6. QED
  BY <1>3, <1>4, <1>5 DEF Step

\* A step of the teardown leaves the capabilities it has visited inactive.
LEMMA TeardownVisits ==
  ASSUME Typed, NEW t \in Threads, ExpireProcess(t), TearsDown(t),
         pc'[t] \in {"process", "deactivate"},
         NEW c \in Capabilities, NEW i \in SlotIds,
         pc'[t] = "deactivate" \/ c < op'[t].cursor
  PROVE  ~slots'[c][i].active
<1>1. /\ pc \in [Threads -> Steps] /\ op \in [Threads -> Op] /\ op[t].cursor \in Nat
      /\ slots \in [Capabilities -> Table] /\ pc[t] = "process"
      /\ c \in Nat /\ c < CapabilityCount
  BY ConfigurationAssumption DEF Typed, TypeOK, Op, Capabilities, ExpireProcess
<1>2. CASE op[t].cursor = CapabilityCount
  BY <1>1, <1>2 DEF ExpireProcess, TearsDown
<1>3. CASE op[t].cursor < CapabilityCount
  <2>1. slots' = [slots EXCEPT ![op[t].cursor] = ExpireAll(slots[op[t].cursor])]
        /\ Advance(t)
    BY <1>1, <1>3, ConfigurationAssumption DEF ExpireProcess
  <2>2. pc'[t] = "process" /\ op'[t].cursor = op[t].cursor + 1
    BY <1>1, <2>1 DEF Advance, Goto, Op
  <2>3. CASE c = op[t].cursor
    <3>1. slots'[c] = ExpireAll(slots[c]) /\ slots[c] \in Table
      BY <1>1, <2>1, <2>3
    <3>2. QED
      BY <3>1 DEF ExpireAll, Table, Slot
  <2>4. CASE c # op[t].cursor
    <3>1. c < op[t].cursor /\ slots'[c] = slots[c]
      BY <1>1, <2>1, <2>2, <2>4
    <3>2. QED
      BY <1>1, <3>1 DEF TearsDown
  <2>5. QED
    BY <2>3, <2>4
<1>4. QED
  BY <1>1, <1>2, <1>3 DEF ExpireProcess

\* A step keeps the teardown inside its detach.
LEMMA StepTearsDown ==
  ASSUME HostQuiescesDetach, Typed, Quiesced, NEW t \in Threads, Step(t),
         NEW u \in Threads
  PROVE  TearsDown(u)'
<1> SUFFICES ASSUME pc'[u] \in {"process", "deactivate"}
             PROVE  /\ Depth(u)' = 1
                    /\ frames'[u][1].reason = "detach"
                    /\ LifecycleMode[frames'[u][1].bridge] = "dllmain"
                    /\ \A c \in Capabilities :
                         pc'[u] = "deactivate" \/ c < op'[u].cursor =>
                           \A i \in SlotIds : ~slots'[c][i].active
  BY DEF TearsDown
<1>1. TearsDown(u) /\ DetachesAlone(u)
  BY DEF Quiesced
<1>2. CASE u # t
  <2>1. pc'[u] = pc[u] /\ op'[u] = op[u] /\ frames'[u] = frames[u]
    BY <1>2, StepLeavesOthers DEF OthersStay
  <2>2. Detaching(u)
    BY <1>1, <2>1 DEF TearsDown, Detaching
  <2>3. UNCHANGED slots
    BY <1>2, <2>2, DetachWaits DEF ThreadExits, shared
  <2>4. QED
    BY <1>1, <2>1, <2>3 DEF TearsDown, Depth
<1>3. CASE /\ u = t /\ InPhase(t, "guest") /\ UNCHANGED slots
           /\ Top(t).reason = "detach"
           /\ LifecycleMode[Top(t).bridge] = "dllmain"
           /\ pc'[t] = "process" /\ op'[t].cursor = 0
  <2>1. Depth(t) \in Nat \ {0} /\ pc[t] = "run"
    BY <1>3, EmptyStack DEF InPhase, Depth
  <2>2. Depth(t) = 1
    BY <1>1, <1>3, <2>1 DEF DetachesAlone, Top
  <2>3. FlatFrames(t)
    <3>1. ~PushFrame(t) /\ ~PopTop(t) /\ ~ThreadExits(t)
          /\ ~\E b \in Bridges, r \in Reasons : Enter(t, b, r)
      <4>1. pc \in [Threads -> Steps]
        BY DEF Typed, TypeOK
      <4>2. QED
        BY <1>3, <2>1, <4>1 DEF PushFrame, PopTop, ThreadExits, Enter, Goto
    <3>2. QED
      BY <3>1, StackKinds DEF Flat
  <2>4. Depth(t)' = 1 /\ frames'[t][1].reason = "detach"
        /\ LifecycleMode[frames'[t][1].bridge] = "dllmain"
    BY <1>3, <2>2, <2>3 DEF FlatFrames, SameEntry, Top, Depth
  <2>5. \A c \in Capabilities : ~(c < 0)
    BY DEF Capabilities
  <2>6. QED
    BY <1>3, <2>4, <2>5
<1>4. CASE u = t /\ ExpireProcess(t)
  <2>1. UNCHANGED frames /\ pc[t] = "process"
    BY <1>4 DEF ExpireProcess
  <2>2. QED
    BY <1>1, <1>4, <2>1, TeardownVisits DEF TearsDown, Depth
<1>5. QED
  BY <1>2, <1>3, <1>4, TearingMoves

\* Nobody gets inside an inactive image.
LEMMA StepStaysOutside ==
  ASSUME Typed, Typed', NEW t \in Threads, Step(t), ~image_active, Outside(t)
  PROVE  Outside(t)'
<1>1. pc'[t] # "publish"
  <2>1. \A a \in Activations : ~ActivateCapability(t, a)
    BY DEF ActivateCapability
  <2>2. QED
    BY <2>1, GrantMoves
<1>2. ASSUME pc'[t] \in {"authorize", "push"}
      PROVE  ~Ordinary(op'[t].bridge)
  <2>1. pc \in [Threads -> Steps] /\ op \in [Threads -> Op] /\ op[t] \in Op
    BY DEF Typed, TypeOK
  <2>2. CheckImage(t) \/ AuthorizeCapability(t)
    BY <1>2, EntrySteps DEF Entering
  <2>3. op'[t].bridge = op[t].bridge
    <3>1. CASE CheckImage(t)
      BY <1>2, <2>1, <3>1 DEF CheckImage, Return, Goto, Op
    <3>2. CASE AuthorizeCapability(t)
      <4>1. \/ Return(t) \/ Advance(t)
            \/ \E g : Goto(t, "push", [op[t] EXCEPT !.grant = g])
        BY <3>2 DEF AuthorizeCapability
      <4>2. CASE Return(t)
        BY <1>2, <2>1, <4>2 DEF Return, Goto
      <4>3. CASE Advance(t)
        BY <2>1, <4>3 DEF Advance, Goto, Op
      <4>4. CASE \E g : Goto(t, "push", [op[t] EXCEPT !.grant = g])
        BY <2>1, <4>4 DEF Goto, Op
      <4>5. QED
        BY <4>1, <4>2, <4>3, <4>4
    <3>3. QED
      BY <2>2, <3>1, <3>2
  <2>4. CASE CheckImage(t)
    BY <1>2, <2>1, <2>3, <2>4 DEF CheckImage, ImageAdmits, Ordinary, Return, Goto
  <2>5. CASE AuthorizeCapability(t)
    BY <2>3, <2>5 DEF AuthorizeCapability, Outside
  <2>6. QED
    BY <2>2, <2>4, <2>5
<1>3. ASSUME NEW k \in 1 .. Depth(t)'
      PROVE  ~Ordinary(frames'[t][k].bridge)
  <2>1. CASE PushFrame(t)
    <3>1. /\ Depth(t) \in Nat /\ Len(frames'[t]) = Depth(t) + 1
          /\ \A j \in 1 .. Depth(t) : frames'[t][j] = frames[t][j]
          /\ frames'[t][Depth(t) + 1].bridge = op[t].bridge
          /\ pc[t] = "push"
      BY <2>1, PushLeaves DEF PushFrame
    <3>2. k \in 1 .. Depth(t) \/ k = Depth(t) + 1
      BY <3>1 DEF Depth
    <3>3. QED
      BY <3>1, <3>2 DEF Outside
  <2>2. CASE ~PushFrame(t)
    <3>1. /\ Depth(t)' <= Depth(t) /\ Depth(t) \in Nat /\ Depth(t)' \in Nat
          /\ frames'[t][k].bridge = frames[t][k].bridge
      BY <2>2, EntriesMove, EmptyStack, EmptyStackNext DEF Depth
    <3>2. k \in 1 .. Depth(t)
      BY <3>1
    <3>3. QED
      BY <3>1, <3>2 DEF Outside
  <2>3. QED
    BY <2>1, <2>2
<1>4. QED
  BY <1>1, <1>2, <1>3 DEF Outside

\* A step keeps an inactive image empty, and leaves it empty when it ends it.
LEMMA StepGone ==
  ASSUME HostQuiescesDetach, Typed, Typed', Quiesced, NEW t \in Threads, Step(t),
         ~image_active'
  PROVE  NothingActive' /\ \A u \in Threads : Outside(u)'
<1>1. CASE ~image_active
  <2>1. NothingActive /\ \A u \in Threads : Outside(u)
    BY <1>1 DEF Quiesced
  <2>2. NothingActive'
    <3>1. pc[t] # "publish"
      BY <2>1 DEF Outside
    <3>2. QED
      BY <2>1, <3>1, LiveMoves DEF NothingActive
  <2>3. Outside(t)'
    BY <1>1, <2>1, StepStaysOutside
  <2>4. \A u \in Threads \ {t} : Outside(u)'
    BY <2>1, StepLeavesOthers DEF OthersStay, Outside, Depth
  <2>5. QED
    BY <2>2, <2>3, <2>4
<1>2. CASE image_active
  <2>1. DeactivateImage(t)
    BY <1>2, ImageMoves
  <2>2. /\ pc[t] = "deactivate" /\ UNCHANGED <<slots, frames>> /\ pc'[t] = "retire"
    BY <2>1, GoingElsewhere DEF DeactivateImage
  <2>3. /\ Depth(t) = 1 /\ frames[t][1].reason = "detach"
        /\ LifecycleMode[frames[t][1].bridge] = "dllmain"
        /\ NothingActive
    BY <2>2 DEF Quiesced, TearsDown, NothingActive
  <2>4. \A u \in Threads \ {t} : Idle(u)
    BY <2>3 DEF Quiesced, DetachesAlone, Detaching
  <2>5. Outside(t)'
    BY <2>2, <2>3 DEF Outside, Ordinary, Depth
  <2>6. ASSUME NEW u \in Threads \ {t}
        PROVE  Outside(u)'
    <3>1. pc'[u] = "run" /\ frames'[u] = <<>>
      BY <2>4, StepLeavesOthers DEF OthersStay, Idle
    <3>2. QED
      BY <3>1, EmptyStackNext DEF Outside, Depth
  <2>7. QED
    BY <2>2, <2>3, <2>5, <2>6 DEF NothingActive
<1>3. QED
  BY <1>1, <1>2

\* Quiesced is inductive.
LEMMA NextQuiesced ==
  ASSUME HostQuiescesDetach, Typed, Typed', Quiesced, [Next]_vars
  PROVE  Quiesced'
<1>1. CASE UNCHANGED vars
  BY <1>1 DEF vars, Quiesced, DetachesAlone, TearsDown, Outside, NothingActive,
     Detaching, Idle, Depth
<1>2. ASSUME NEW t \in Threads, Step(t)
      PROVE  Quiesced'
  BY <1>2, StepDetachesAlone, StepTearsDown, StepGone DEF Quiesced
<1>3. QED
  BY <1>1, <1>2 DEF Next, Step

\* No detach is in progress initially, and nothing is inside.
LEMMA InitQuiesced == Init => Quiesced
<1> SUFFICES ASSUME Init PROVE Quiesced
  OBVIOUS
<1>1. \A t \in Threads : /\ pc[t] = "run" /\ frames[t] = <<>> /\ Depth(t) = 0
                         /\ op[t].reason = "none"
  BY EmptySeq DEF Init, Depth, NoOp
<1>2. \A t \in Threads : \A i \in 1 .. Depth(t) : FALSE
  BY <1>1
<1>3. \A t \in Threads : ~Detaching(t)
  BY <1>1, <1>2 DEF Detaching
<1>4. NothingActive
  BY DEF Init, NothingActive, EmptySlot
<1>5. QED
  BY <1>1, <1>2, <1>3, <1>4 DEF Quiesced, DetachesAlone, TearsDown, Outside

(* With a host that detaches only when nothing else runs in the image,     *)
(* process detach is final: while the image is inactive no generation is   *)
(* active or about to be published and no ordinary ingress is inside.      *)
THEOREM DetachIsFinal ==
  ASSUME HostQuiescesDetach
  PROVE  Spec => []DetachLeavesNothing
<1>1. Quiesced => DetachLeavesNothing
  BY DEF Quiesced, NothingActive, Outside, Ordinary, DetachLeavesNothing
<1>2. Typed /\ Typed' /\ Quiesced /\ [Next]_vars => Quiesced'
  BY NextQuiesced
<1>3. QED
  BY <1>1, <1>2, TypedCorrect, InitQuiesced, PTL DEF Spec

-----------------------------------------------------------------------------
(* What an outgoing call has lent stays until the call returns, when one   *)
(* thread runs in the image.  A second one may take it away, for its       *)
(* ingresses have the same numbers; a detach of the thread from inside the *)
(* call and the replacement of what was lent do so on purpose.             *)
OneThread == \A t, u \in Threads : t = u
NeverDetaches == \A b \in Bridges : LifecycleMode[b] # "dllmain"
ReplacesEscaped == \A p \in Replacements : Escapes(p[1])

\* What clears or revokes has found a capability that escapes.
Confined(t) ==
  /\ pc[t] \notin {"thread", "process"}
  /\ pc[t] = "publish" /\ op[t].use = "replace" => Escapes(op[t].target)
  /\ pc[t] = "clear" => Escapes(op[t].target)
  /\ pc[t] = "revoke" => Escapes(op[t].grant.capability)

\* The steps after which a thread clears, revokes or detaches.
LEMMA SettlingMoves ==
  ASSUME Typed, NEW t \in Threads, Step(t)
  PROVE  /\ pc'[t] \in {"thread", "process"} =>
              \/ pc[t] = pc'[t]
              \/ GuestReturns(t) /\ LifecycleMode[Top(t).bridge] = "dllmain"
         /\ pc'[t] = "clear" =>
              PublishCapability(t) /\ op'[t] = op[t] /\ op[t].use = "replace"
         /\ pc'[t] = "revoke" => CommitResult(t) /\ op'[t] = op[t]
<1>1. pc \in [Threads -> Steps] /\ op \in [Threads -> Op]
  BY DEF Typed, TypeOK
<1>2. ASSUME NEW step, NEW o, Goto(t, step, o)
      PROVE  pc'[t] = step /\ op'[t] = o
  BY <1>1, <1>2 DEF Goto
<1>3. CASE PublishCapability(t)
  <2>1. \/ pc'[t] \in {"run", "commit"}
        \/ pc'[t] = "clear" /\ op'[t] = op[t] /\ op[t].use = "replace"
    BY <1>2, <1>3 DEF PublishCapability, Return
  <2>2. QED
    BY <1>3, <2>1
<1>4. CASE CommitResult(t)
  <2>1. pc'[t] = "run" \/ (pc'[t] = "revoke" /\ op'[t] = op[t])
    BY <1>2, <1>4 DEF CommitResult, Return
  <2>2. QED
    BY <1>4, <2>1
<1>5. CASE GuestReturns(t)
  <2>1. \/ pc'[t] = "run"
        \/ LifecycleMode[Top(t).bridge] = "dllmain" /\ pc'[t] \in {"thread", "process"}
    BY <1>2, <1>5 DEF GuestReturns, InPhase
  <2>2. QED
    BY <1>5, <2>1
<1>6. CASE Runtime(t) /\ ~PublishCapability(t) /\ ~CommitResult(t)
  <2>1. \/ pc'[t] \in {"run", "push", "authorize", "deactivate", "retire", "expire"}
        \/ pc'[t] = pc[t] /\ pc[t] \notin {"clear", "revoke"}
    BY <1>2, <1>6 DEF Runtime, CheckImage, AuthorizeCapability, PushFrame,
       RefuseStack, Preflight, PublishRefused, RevokeResult,
       ClearReplaced, ExpireEvent, ExpireOwner, ExpireProcess, DeactivateImage,
       RetireImage, StartFinish, ExpireTop, PopTop, Return, Advance, Leave,
       InPhase
  <2>2. QED
    BY <2>1
<1>7. CASE Guest(t) /\ ~GuestReturns(t)
  <2>1. pc'[t] \in {"run", "publish", "event", "expire"}
    BY <1>2, <1>7 DEF Guest, StartCall, CallAborts, GuestFails, ActivateCapability,
       ActivationRefused, CallReturns, StartEvent, Fault, Unwind, Leave, InPhase
  <2>2. QED
    BY <2>1
<1>8. CASE Host(t)
  <2>1. pc'[t] = "prepare" \/ (pc' = pc /\ pc[t] = "run")
    BY <1>2, <1>8 DEF Host, Enter, ThreadExits, Idle
  <2>2. QED
    BY <2>1
<1>9. QED
  BY <1>3, <1>4, <1>5, <1>6, <1>7, <1>8 DEF Step

\* Confined is inductive where nothing detaches and what is replaced escapes.
LEMMA StepConfined ==
  ASSUME NeverDetaches, ReplacesEscaped, Typed, GrantsFit,
         NEW t \in Threads, Confined(t), Step(t)
  PROVE  Confined(t)'
<1>1. pc'[t] \notin {"thread", "process"}
  <2>1. ~(GuestReturns(t) /\ LifecycleMode[Top(t).bridge] = "dllmain")
    <3>1. GuestReturns(t) => frames[t] # <<>>
      BY DEF GuestReturns, InPhase
    <3>2. GuestReturns(t) => Top(t).bridge \in Bridges
      BY <3>1, TopTyped DEF Typed, Frame
    <3>3. QED
      BY <3>2 DEF NeverDetaches
  <2>2. QED
    BY <2>1, SettlingMoves DEF Confined
<1>2. pc'[t] = "publish" /\ op'[t].use = "replace" => Escapes(op'[t].target)
  <2> SUFFICES ASSUME pc'[t] = "publish", op'[t].use = "replace"
               PROVE  Escapes(op'[t].target)
    OBVIOUS
  <2>1. PICK a \in Activations : ActivateCapability(t, a)
    BY GrantMoves
  <2>2. op'[t].use = a[1] /\ op'[t].target = a[3]
    BY <2>1, ActivationFits
  <2>3. PICK p \in Replacements : a = <<"replace", p[2], p[1]>>
    BY <2>2 DEF Activations
  <2>4. QED
    BY <2>2, <2>3 DEF ReplacesEscaped
<1>3. pc'[t] = "clear" => Escapes(op'[t].target)
  BY SettlingMoves DEF Confined, PublishCapability
<1>4. pc'[t] = "revoke" => Escapes(op'[t].grant.capability)
  BY SettlingMoves DEF GrantsFit, Fits, CommitResult
<1>5. QED
  BY <1>1, <1>2, <1>3, <1>4 DEF Confined

(* The generations lent by the calls in progress: drawn in the order of    *)
(* the frames, and all before the one that is about to be published.       *)
Drawn(t) ==
  /\ \A k \in 1 .. Depth(t) :
       /\ frames[t][k].pending.generation <= next_generation
       /\ Publishing(t) => frames[t][k].pending.generation < op[t].grant.generation
  /\ \A k \in 1 .. Depth(t) : \A j \in 1 .. (k - 1) :
       frames[t][k].pending.generation # 0
         => frames[t][j].pending.generation < frames[t][k].pending.generation

\* What a frame keeps of a lent generation is a grant.
LEMMA PendingTyped ==
  ASSUME Typed, NEW t \in Threads, NEW k \in 1 .. Depth(t)
  PROVE  /\ frames[t][k].pending \in Grant
         /\ frames[t][k].pending.generation \in Nat
BY CountersTyped DEF Frame, Grant

\* Drawn is inductive.
LEMMA StepDrawn ==
  ASSUME NoCapabilityWrap, Typed, Typed', Fresh, NEW t \in Threads, Drawn(t), Step(t)
  PROVE  Drawn(t)'
<1> DEFINE old(k) == frames[t][k].pending.generation
           new(k) == frames'[t][k].pending.generation
           g == op[t].grant.generation
           n == Len(frames[t])
           m == Len(frames'[t])
<1>0. m \in Nat
  BY EmptyStackNext
<1>1. n \in Nat /\ Depth(t) = n /\ g \in Nat /\ next_generation \in Nat
  BY CountersTyped DEF Typed, TypeOK, Op, Grant, Depth
<1>2. \A k \in 1 .. n : old(k) \in Nat
  BY <1>1, PendingTyped
<1>3. ASSUME NEW k \in 1 .. m
      PROVE  \/ new(k) = 0
             \/ k \in 1 .. n /\ new(k) = old(k)
             \/ Lends(t) /\ k = n /\ new(k) = g
  BY <1>1, <1>3, PendingMoves DEF NoGrant
<1>4. Lends(t) => /\ Publishing(t) /\ g <= next_generation
                  /\ \A k \in 1 .. n : old(k) < g
  BY <1>1 DEF Lends, PublishCapability, Publishing, Fresh, Drawn
<1>5. /\ \A k \in 1 .. n : old(k) <= next_generation
      /\ \A k \in 1 .. n : \A j \in 1 .. (k - 1) : old(k) # 0 => old(j) < old(k)
  BY <1>1 DEF Drawn
<1>6. \/ next_generation' = next_generation /\ ~Publishing(t)'
      \/ /\ next_generation' = next_generation + 1 /\ Publishing(t)'
         /\ op'[t].grant.generation = next_generation + 1
  BY GenerationMoves
<1>7. ASSUME NEW k \in 1 .. m
      PROVE  new(k) \in Nat /\ new(k) <= next_generation
  <2> HIDE DEF old, new, n, m, g
  <2>1. CASE Lends(t) /\ new(k) = g
    BY <1>1, <1>4, <2>1
  <2>2. QED
    BY <1>1, <1>2, <1>3, <1>5, <1>7, <2>1
<1>8. ASSUME NEW k \in 1 .. m, NEW j \in 1 .. (k - 1), new(k) # 0
      PROVE  new(j) < new(k)
  <2> HIDE DEF old, new, n, m, g
  <2>1. j \in 1 .. m /\ j < k /\ j \in Nat /\ k \in Nat
    BY <1>0, <1>8
  <2>2. CASE k \in 1 .. n /\ new(k) = old(k)
    <3>1. j \in 1 .. n /\ j # n /\ old(j) < old(k)
      BY <1>1, <1>5, <1>8, <2>1, <2>2
    <3>2. new(j) = 0 \/ new(j) = old(j)
      BY <1>3, <2>1, <3>1
    <3>3. QED
      BY <1>2, <1>8, <2>2, <3>1, <3>2
  <2>3. CASE Lends(t) /\ k = n /\ new(k) = g
    <3>1. j \in 1 .. n /\ j # n /\ old(j) < g
      BY <1>1, <1>4, <2>1, <2>3
    <3>2. new(j) = 0 \/ new(j) = old(j)
      BY <1>3, <2>1, <3>1
    <3>3. QED
      BY <1>1, <1>8, <2>3, <3>1, <3>2
  <2>4. QED
    BY <1>3, <1>8, <2>2, <2>3
<1>9. QED
  <2> HIDE DEF new, m
  <2>1. \A k \in 1 .. m :
          new(k) <= next_generation' /\ (Publishing(t)' => new(k) < op'[t].grant.generation)
    BY <1>1, <1>6, <1>7
  <2>2. QED
    BY <1>8, <2>1 DEF Drawn, Depth, new, m

\* Revoking one generation spares the others.
LEMMA RevokeSpares ==
  ASSUME NEW table \in Table, NEW g, NEW i \in SlotIds, table[i].generation # g
  PROVE  Revoke(table, g)[i] = table[i]
<1>1. CASE Live(table, g) = {}
  BY <1>1 DEF Revoke
<1>2. CASE Live(table, g) # {}
  <2> DEFINE j == First(Live(table, g))
  <2>1. j \in Live(table, g)
    BY <1>2, FirstInSet DEF Live
  <2>2. j # i
    BY <2>1 DEF Live
  <2>3. Revoke(table, g) = [table EXCEPT ![j].active = FALSE]
    BY <1>2 DEF Revoke
  <2> HIDE DEF j
  <2>4. QED
    BY <2>2, <2>3 DEF Table
<1>3. QED
  BY <1>1, <1>2

\* An admission by a slot that is not one-shot leaves the table as it is.
LEMMA AdmissionKeeps ==
  ASSUME NEW table \in Table, NEW mode, mode # "one_shot", NEW t,
         Admitting(table, t) # {}
  PROVE  Authorize(table, mode, t) = table
<1> DEFINE i == First(Admitting(table, t))
<1>1. i \in SlotIds /\ table[i].active
  BY FirstInSet DEF Admitting
<1>2. Authorize(table, mode, t) = [table EXCEPT ![i].active = TRUE]
  BY DEF Authorize
<1> HIDE DEF i
<1>3. [table[i] EXCEPT !.active = TRUE] = table[i]
  BY <1>1 DEF Table, Slot
<1>4. QED
  BY <1>1, <1>2, <1>3 DEF Table

\* One other table changes.
LEMMA OtherTable ==
  ASSUME Typed, NEW c \in Capabilities, NEW d, d # c, NEW new,
         slots' = [slots EXCEPT ![d] = new]
  PROVE  slots'[c] = slots[c]
BY DEF Typed, TypeOK

\* What a call lent stays in its slot, unless the call returns.
LEMMA LocalStays ==
  ASSUME Typed, FramesStacked, GrantsFit, NEW t \in Threads, Confined(t), Step(t),
         NEW k \in 1 .. Depth(t), Lending(t, k),
         NEW c \in Capabilities, ~Escapes(c), NEW i \in SlotIds, slots[c][i].active,
         slots[c][i].owner_ingress = frames[t][k].generation
  PROVE  \/ slots'[c][i] = slots[c][i]
         \/ /\ \E ok \in BOOLEAN : CallReturns(t, ok)
            /\ Top(t).pending.generation # 0
            /\ slots[c][i].generation = Top(t).pending.generation
<1>1. slots \in [Capabilities -> Table] /\ slots[c] \in Table /\ Lifetime[c] = "during_call"
  BY DEF Typed, TypeOK, Escapes
<1>2. CASE UNCHANGED slots
  BY <1>2
<1>3. CASE AuthorizeCapability(t)
  <2>1. ASSUME NEW d, Admitting(slots[d], t) # {},
               slots' = [slots EXCEPT ![d] = Authorize(slots[d], Lifetime[d], t)]
        PROVE  slots'[c] = slots[c]
    <3>1. CASE d # c
      BY <2>1, <3>1, OtherTable
    <3>2. CASE d = c
      BY <1>1, <2>1, <3>2, AdmissionKeeps
    <3>3. QED
      BY <3>1, <3>2
  <2> DEFINE e == BridgeCapabilities[op[t].bridge][op[t].cursor]
  <2>2. \/ UNCHANGED slots
        \/ /\ Admitting(slots[e], t) # {}
           /\ slots' = [slots EXCEPT ![e] = Authorize(slots[e], Lifetime[e], t)]
    BY <1>3 DEF AuthorizeCapability
  <2> HIDE DEF e
  <2>3. QED
    BY <2>1, <2>2
<1>4. CASE PublishCapability(t)
  <2> DEFINE d == op[t].grant.capability
             j == First(Free(slots[d], Lifetime[d]))
  <2>1. /\ Lifetime[d] # "until_replaced" => ~slots[d][j].active
        /\ \A e \in Capabilities : \A n \in SlotIds : e # d \/ n # j =>
             slots'[e][n] = slots[e][n] /\ publisher'[e][n] = publisher[e][n]
    BY <1>4, PublishedSlot
  <2> HIDE DEF d, j
  <2>2. c # d \/ i # j
    BY <1>1, <2>1
  <2>3. QED
    BY <2>1, <2>2
<1>5. CASE CommitResult(t)
  <2> DEFINE d == op[t].grant.capability
  <2>1. Escapes(d) /\ d # c
    BY <1>5 DEF CommitResult, GrantsFit, Fits
  <2>2. slots' = [slots EXCEPT ![d] = Commit(slots[d], op[t].grant.generation)]
    BY <1>5 DEF CommitResult
  <2> HIDE DEF d
  <2>3. QED
    BY <2>1, <2>2, OtherTable
<1>6. CASE RevokeResult(t)
  <2> DEFINE d == op[t].grant.capability
  <2>1. Escapes(d) /\ d # c
    BY <1>6 DEF RevokeResult, Confined
  <2>2. slots' = [slots EXCEPT ![d] = Revoke(slots[d], op[t].grant.generation)]
    BY <1>6 DEF RevokeResult
  <2> HIDE DEF d
  <2>3. QED
    BY <2>1, <2>2, OtherTable
<1>7. CASE ClearReplaced(t)
  <2>1. Escapes(op[t].target)
    BY <1>7 DEF ClearReplaced, Confined
  <2>2. QED
    BY <1>7, <2>1, OtherTable DEF ClearReplaced
<1>8. CASE ExpireEvent(t)
  BY <1>1, <1>2, <1>8, OtherTable DEF ExpireEvent
<1>9. CASE ExpireOwner(t) \/ ExpireProcess(t)
  BY <1>9 DEF ExpireOwner, ExpireProcess, Confined
<1>10. CASE ExpireTop(t)
  <2>1. k \in 1 .. (Depth(t) - 1)
    BY <1>10, CountersTyped DEF ExpireTop, Lending
  <2>2. QED
    BY <1>10, <2>1, ExpireTopSpares
<1>11. ASSUME NEW ok \in BOOLEAN, CallReturns(t, ok)
       PROVE  \/ slots'[c][i] = slots[c][i]
              \/ /\ Top(t).pending.generation # 0
                 /\ slots[c][i].generation = Top(t).pending.generation
  <2> DEFINE g == Top(t).pending
  <2>1. CASE g.generation # 0 /\ ok /\ g.escaped
    <3>1. frames[t] # <<>> /\ Depth(t) \in 1 .. Depth(t)
      BY <1>11, TopTyped DEF CallReturns, InPhase, Typed
    <3>2. Escapes(g.capability)
      BY <2>1, <3>1 DEF GrantsFit, Fits, Top
    <3>3. slots' = [slots EXCEPT ![g.capability] = Commit(slots[g.capability], g.generation)]
      BY <1>11, <2>1 DEF CallReturns
    <3>4. QED
      BY <3>2, <3>3, OtherTable
  <2>2. CASE g.generation # 0 /\ ~(ok /\ g.escaped)
    <3>1. slots' = [slots EXCEPT ![g.capability] = Revoke(slots[g.capability], g.generation)]
      BY <1>11, <2>2 DEF CallReturns
    <3>2. CASE g.capability # c
      BY <3>1, <3>2, OtherTable
    <3>3. CASE g.capability = c
      BY <1>1, <2>2, <3>1, <3>3, RevokeSpares
    <3>4. QED
      BY <3>2, <3>3
  <2>3. CASE g.generation = 0
    BY <1>11, <2>3 DEF CallReturns
  <2>4. QED
    BY <2>1, <2>2, <2>3
<1>12. QED
  BY <1>2, <1>3, <1>4, <1>5, <1>6, <1>7, <1>8, <1>9, <1>10, <1>11
     DEF Step, Runtime, Guest, Host, CheckImage, PushFrame, RefuseStack,
         Preflight, PublishRefused, DeactivateImage, RetireImage, StartFinish,
         PopTop, StartCall, CallAborts, GuestReturns, GuestFails,
         ActivateCapability, ActivationRefused, StartEvent, Fault, Unwind,
         Enter, ThreadExits, shared

(* The slot of each lent generation, owned by the ingress of the frame     *)
(* that made the call.                                                     *)
Holds(g, ingress) ==
  /\ g.capability \in Capabilities
  /\ \E i \in SlotIds : /\ slots[g.capability][i].active
                        /\ slots[g.capability][i].generation = g.generation
                        /\ slots[g.capability][i].owner_ingress = ingress

LentKept(t) ==
  \A k \in 1 .. Depth(t) :
    Lending(t, k) /\ ~frames[t][k].pending.escaped
      => Holds(frames[t][k].pending, frames[t][k].generation)

\* The frames that stay keep their generation.
LEMMA GenerationStays ==
  ASSUME Typed, NEW t \in Threads, Step(t),
         NEW k \in 1 .. Len(frames[t]), k \in 1 .. Len(frames'[t])
  PROVE  frames'[t][k].generation = frames[t][k].generation
<1>1. CASE Flat(t)
  BY <1>1 DEF Flat, FlatFrames, SameEntry
<1>2. CASE PushFrame(t)
  BY <1>2, PushLeaves DEF Depth
<1>3. CASE PopTop(t)
  <2>1. CASE frames'[t][k] = frames[t][k]
    BY <2>1
  <2>2. CASE frames'[t][k] = HandlerRuns(frames[t][k])
    <3>1. frames[t][k] \in Frame
      BY CountersTyped DEF Depth
    <3>2. HandlerRuns(frames[t][k]).generation = frames[t][k].generation
      BY <3>1 DEF HandlerRuns, Frame
    <3>3. QED
      BY <2>2, <3>2
  <2>3. QED
    BY <1>3, <2>1, <2>2, PopLeaves, PopRestores DEF Depth
<1>4. CASE ThreadExits(t) \/ \E b \in Bridges, r \in Reasons : Enter(t, b, r)
  BY <1>4 DEF ThreadExits, Enter
<1>5. QED
  BY <1>1, <1>2, <1>3, <1>4, StackKinds

\* A call that goes on lending has been lending.
LEMMA LendingStays ==
  ASSUME Typed, NEW t \in Threads, Step(t),
         NEW k \in 1 .. Len(frames[t]), k \in 1 .. Len(frames'[t]),
         frames'[t][k].pending = frames[t][k].pending, Lending(t, k)'
  PROVE  Lending(t, k)
<1> SUFFICES ASSUME pc[t] = "expire" PROVE k < Depth(t)
  BY DEF Lending
<1>1. Depth(t) \in Nat /\ k \in Nat /\ k <= Depth(t)
  BY CountersTyped DEF Depth
<1>2. CASE ExpireTop(t)
  <2>1. pc'[t] = "expire" /\ frames' = frames
    BY <1>2, GoingElsewhere DEF ExpireTop, Advance
  <2>2. QED
    BY <2>1 DEF Lending, Depth
<1>3. CASE PopTop(t)
  <2>1. Len(frames'[t]) = Depth(t) - 1
    BY <1>3, PopLeaves
  <2>2. QED
    BY <1>1, <2>1
<1>4. QED
  BY <1>2, <1>3, LeavingSteps

\* A call that returns lends nothing any more.
LEMMA ReturnedLendsNothing ==
  ASSUME Typed, NEW t \in Threads, NEW ok \in BOOLEAN, CallReturns(t, ok),
         Top(t).pending.generation # 0
  PROVE  frames'[t][Depth(t)].pending = NoGrant
<1>1. frames[t] # <<>> /\ Top(t) \in Frame
  BY TopTyped DEF CallReturns, InPhase, Typed
<1>2. PICK phase \in Phases :
        SetTop(t, [Top(t) EXCEPT !.pending = NoGrant, !.phase = phase])
  <2>1. "guest" \in Phases /\ "done" \in Phases
    BY DEF Phases
  <2>2. QED
    BY <2>1 DEF CallReturns
<1>3. /\ [Top(t) EXCEPT !.pending = NoGrant, !.phase = phase] \in Frame
      /\ [Top(t) EXCEPT !.pending = NoGrant, !.phase = phase].pending = NoGrant
  BY <1>1, NoOpTyped DEF Frame
<1>4. Len(frames[t]) \in 1 .. Len(frames[t])
  BY <1>1, TopTyped DEF Typed, Depth
<1>5. QED
  BY <1>1, <1>2, <1>3, <1>4, SetTopMoves DEF Depth, Typed

\* The slots of what is lent stay where they are.
LEMMA StepLentKept ==
  ASSUME Typed, Typed', FramesStacked, GrantsFit, NEW t \in Threads,
         Confined(t), Drawn(t), LentKept(t), Step(t)
  PROVE  LentKept(t)'
<1> SUFFICES ASSUME NEW k \in 1 .. Len(frames'[t]), Lending(t, k)',
                    ~frames'[t][k].pending.escaped
             PROVE  Holds(frames[t][k].pending, frames[t][k].generation)'
  BY DEF LentKept, Depth
<1> DEFINE g == frames[t][k].pending
           c == g.capability
<1>1. frames'[t][k].pending # NoGrant
  BY DEF Lending, NoGrant
<1>2. CASE k \in 1 .. Len(frames[t]) /\ frames'[t][k].pending = g
  <2>1. Lending(t, k) /\ k \in 1 .. Depth(t) /\ g.generation # 0 /\ ~g.escaped
    BY <1>2, LendingStays DEF Lending, Depth
  <2>2. c \in Capabilities /\ ~Escapes(c)
    BY <2>1 DEF LentKept, Holds, GrantsFit, Fits
  <2>3. PICK i \in SlotIds : /\ slots[c][i].active
                             /\ slots[c][i].generation = g.generation
                             /\ slots[c][i].owner_ingress = frames[t][k].generation
    BY <2>1 DEF LentKept, Holds
  <2>4. slots'[c][i] = slots[c][i]
    <3> SUFFICES ASSUME NEW ok \in BOOLEAN, CallReturns(t, ok),
                        Top(t).pending.generation # 0,
                        g.generation = Top(t).pending.generation
                 PROVE  FALSE
      BY <2>1, <2>2, <2>3, LocalStays
    <3>1. CASE k = Depth(t)
      BY <1>1, <1>2, <3>1, ReturnedLendsNothing
    <3>2. CASE k # Depth(t)
      <4>1. Depth(t) \in 1 .. Depth(t) /\ k \in 1 .. (Depth(t) - 1)
        BY <2>1, <3>2, CountersTyped
      <4>2. g.generation < Top(t).pending.generation
        BY <4>1 DEF Drawn, Top
      <4>3. QED
        BY <2>1, <4>2, PendingTyped
    <3>3. QED
      BY <3>1, <3>2
  <2>5. frames'[t][k].generation = frames[t][k].generation
    BY <1>2, GenerationStays
  <2>6. QED
    BY <1>2, <2>2, <2>3, <2>4, <2>5 DEF Holds
<1>3. CASE Lends(t) /\ k = Depth(t) /\ frames'[t][k].pending = op[t].grant
  <2>1. /\ op[t].grant.capability \in Capabilities
        /\ \E i \in SlotIds :
             slots'[op[t].grant.capability][i] =
               NewSlot(op[t].grant.generation, op[t].grant.escaped, t, Top(t).generation)
    BY <1>3, PublishedSlot DEF Lends
  <2>2. frames[t] # <<>> /\ k \in 1 .. Len(frames[t])
    BY <1>3, TopTyped DEF Lends, PublishCapability, Typed, Shape, Depth
  <2>3. frames'[t][k].generation = Top(t).generation
    BY <1>3, <2>2, GenerationStays DEF Top
  <2> DEFINE o == op[t].grant
  <2>4. PICK i \in SlotIds :
          slots'[o.capability][i] = NewSlot(o.generation, o.escaped, t, Top(t).generation)
    BY <2>1
  <2>5. /\ slots'[o.capability][i].active
        /\ slots'[o.capability][i].generation = o.generation
        /\ slots'[o.capability][i].owner_ingress = Top(t).generation
    BY <2>4 DEF NewSlot
  <2>6. o.capability \in Capabilities
    BY <2>1
  <2> HIDE DEF o
  <2>7. frames'[t][k].pending = o
    BY <1>3 DEF o
  <2>8. QED
    BY <2>3, <2>5, <2>6, <2>7 DEF Holds
<1>4. QED
  BY <1>1, <1>2, <1>3, PendingMoves

LentStays == \A t \in Threads : Confined(t) /\ Drawn(t) /\ LentKept(t)

\* With one thread, every step is its step.
LEMMA NextLentStays ==
  ASSUME OneThread, NeverDetaches, ReplacesEscaped, NoCapabilityWrap,
         Typed, Typed', Fresh, FramesStacked, GrantsFit, LentStays, [Next]_vars
  PROVE  LentStays'
<1>1. CASE UNCHANGED vars
  <2> SUFFICES ASSUME NEW t \in Threads
               PROVE  Confined(t)' /\ Drawn(t)' /\ LentKept(t)'
    BY DEF LentStays
  <2>1. Confined(t) /\ Drawn(t) /\ LentKept(t)
    BY DEF LentStays
  <2>2. Confined(t)'
    BY <1>1, <2>1 DEF vars, Confined
  <2>3. Drawn(t)'
    BY <1>1, <2>1 DEF vars, Drawn, Publishing, Depth
  <2>4. LentKept(t)'
    <3>1. UNCHANGED <<slots, frames, pc>>
      BY <1>1 DEF vars
    <3>2. \A g, ingress : Holds(g, ingress)' <=> Holds(g, ingress)
      BY <3>1 DEF Holds
    <3>3. QED
      BY <2>1, <3>1, <3>2 DEF LentKept, Lending, Depth
  <2>5. QED
    BY <2>2, <2>3, <2>4
<1>2. ASSUME NEW t \in Threads, Step(t)
      PROVE  LentStays'
  <2>1. Confined(t)' /\ Drawn(t)' /\ LentKept(t)'
    BY <1>2, StepConfined, StepDrawn, StepLentKept DEF LentStays
  <2>2. QED
    BY <2>1 DEF LentStays, OneThread
<1>3. QED
  BY <1>1, <1>2 DEF Next, Step

\* Nothing is lent initially.
LEMMA InitLentStays == Init => LentStays
<1>1. ASSUME Init, NEW t \in Threads
      PROVE  Depth(t) = 0 /\ pc[t] = "run"
  BY <1>1, EmptySeq DEF Init, Depth
<1>2. ASSUME NEW t \in Threads, Depth(t) = 0, NEW k \in 1 .. Depth(t)
      PROVE  FALSE
  BY <1>2
<1>3. QED
  BY <1>1, <1>2 DEF LentStays, Confined, Drawn, LentKept, Publishing

(* With one thread in the image, what an outgoing call has lent stays      *)
(* active until the call returns: no nested ingress, result, event, fault  *)
(* or unwind takes it away (spx_native_capability_expire_ingress).         *)
THEOREM LentUntilCallReturns ==
  ASSUME OneThread, NeverDetaches, ReplacesEscaped, NoIngressWrap, NoCapabilityWrap
  PROVE  Spec => []LentUntilReturn
<1>1. LentStays => LentUntilReturn
  BY DEF LentStays, LentKept, Holds, LentUntilReturn
<1>2. Lent /\ Lent' /\ Fresh /\ LentStays /\ [Next]_vars => LentStays'
  BY NextLentStays DEF Lent
<1>3. QED
  BY <1>1, <1>2, AlwaysLent, AlwaysFresh, InitLentStays, PTL DEF Spec
=============================================================================
