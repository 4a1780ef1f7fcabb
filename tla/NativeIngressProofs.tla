----------------------- MODULE NativeIngressProofs -----------------------
(***************************************************************************)
(* Type correctness of the native ingress runtime, for every number of     *)
(* threads, bridges, capabilities and slots.                               *)
(***************************************************************************)
EXTENDS NativeIngress, CapabilityTableProofs, SequenceTheorems

(* What an operation in progress relies on when it takes its next step.    *)
Shape(t) ==
  /\ pc[t] \in {"prepare", "authorize", "push"} => op[t].bridge \in Bridges
  /\ pc[t] = "authorize" => op[t].cursor # 0
  /\ pc[t] \in {"publish", "commit", "revoke"} =>
       op[t].grant.capability \in Capabilities
  /\ pc[t] \in {"publish", "commit", "revoke", "clear", "expire"} =>
       frames[t] # <<>>

Typed == TypeOK /\ \A t \in Threads : Shape(t)

\* The other threads stand where they stood.
OthersStay(t) ==
  \A u \in Threads \ {t} :
    pc'[u] = pc[u] /\ op'[u] = op[u] /\ frames'[u] = frames[u]

-----------------------------------------------------------------------------
(* How the helpers of the actions move a thread.                           *)

\* A frame stack keeps its length when its top is replaced.
LEMMA TopReplaced ==
  ASSUME NEW s \in Seq(Frame), s # <<>>, NEW f \in Frame
  PROVE  /\ Len(s) \in 1 .. Len(s)
         /\ s[Len(s)] \in Frame
         /\ [s EXCEPT ![Len(s)] = f] \in Seq(Frame)
         /\ Len([s EXCEPT ![Len(s)] = f]) = Len(s)
         /\ [s EXCEPT ![Len(s)] = f] # <<>>
         /\ \A j \in 1 .. Len(s) :
              [s EXCEPT ![Len(s)] = f][j] = IF j = Len(s) THEN f ELSE s[j]
<1>1. Len(s) \in 1 .. Len(s)
  BY EmptySeq
<1>2. s[Len(s)] \in Frame
  BY <1>1, ElementOfSeq
<1> DEFINE r == [s EXCEPT ![Len(s)] = f]
<1>3. /\ r \in Seq(Frame)
      /\ Len(r) = Len(s)
      /\ \A j \in 1 .. Len(s) : r[j] = IF j = Len(s) THEN f ELSE s[j]
  BY <1>1, ExceptSeq
<1>4. r # <<>>
  BY <1>1, <1>3, EmptySeq
<1>5. QED
  BY <1>1, <1>2, <1>3, <1>4

\* The top of a thread that is inside the image is a frame.
LEMMA TopTyped ==
  ASSUME TypeOK, NEW t \in Threads, frames[t] # <<>>
  PROVE  /\ frames[t] \in Seq(Frame)
         /\ Depth(t) \in Nat \ {0}
         /\ Top(t) \in Frame
<1>1. frames[t] \in Seq(Frame)
  BY DEF TypeOK
<1>2. Len(frames[t]) \in 1 .. Len(frames[t])
  BY <1>1, EmptySeq
<1>3. QED
  BY <1>1, <1>2, ElementOfSeq DEF Depth, Top

\* Setting the top frame leaves the frames below it and the other threads alone.
LEMMA SetTopMoves ==
  ASSUME TypeOK, NEW t \in Threads, frames[t] # <<>>, NEW f \in Frame,
         SetTop(t, f)
  PROVE  /\ frames' \in [Threads -> Seq(Frame)]
         /\ frames'[t] # <<>>
         /\ Len(frames'[t]) = Len(frames[t])
         /\ \A j \in 1 .. Len(frames[t]) :
              frames'[t][j] = IF j = Len(frames[t]) THEN f ELSE frames[t][j]
         /\ \A u \in Threads \ {t} : frames'[u] = frames[u]
<1>1. frames \in [Threads -> Seq(Frame)] /\ frames[t] \in Seq(Frame)
  BY DEF TypeOK
<1> DEFINE r == [frames[t] EXCEPT ![Len(frames[t])] = f]
<1>2. frames' = [frames EXCEPT ![t] = r]
  BY DEF SetTop, Depth
<1>3. r \in Seq(Frame) /\ r # <<>> /\ Len(r) = Len(frames[t])
      /\ \A j \in 1 .. Len(frames[t]) :
              r[j] = IF j = Len(frames[t]) THEN f ELSE frames[t][j]
  BY <1>1, TopReplaced
<1> HIDE DEF r
<1>4. QED
  BY <1>1, <1>2, <1>3

\* Going to a step moves one thread.
LEMMA GotoMoves ==
  ASSUME TypeOK, NEW t \in Threads, NEW step \in Steps, NEW o \in Op,
         Goto(t, step, o)
  PROVE  /\ pc' \in [Threads -> Steps] /\ pc'[t] = step
         /\ op' \in [Threads -> Op] /\ op'[t] = o
         /\ \A u \in Threads \ {t} : pc'[u] = pc[u] /\ op'[u] = op[u]
BY DEF TypeOK, Goto

\* A thread without an operation has an operation of the right type.
LEMMA NoOpTyped == NoOp \in Op /\ NoGrant \in Grant
BY DEF NoOp, NoGrant, Op, Grant, Uses, Reasons

\* Returning ends the operation of one thread.
LEMMA ReturnMoves ==
  ASSUME TypeOK, NEW t \in Threads, Return(t)
  PROVE  /\ pc' \in [Threads -> Steps] /\ pc'[t] = "run"
         /\ op' \in [Threads -> Op] /\ op'[t] = NoOp
         /\ \A u \in Threads \ {t} : pc'[u] = pc[u] /\ op'[u] = op[u]
BY NoOpTyped, GotoMoves DEF Return, Steps

\* Advancing moves only the cursor of one thread.
LEMMA AdvanceMoves ==
  ASSUME TypeOK, NEW t \in Threads, Advance(t)
  PROVE  /\ pc' = pc
         /\ op' \in [Threads -> Op]
         /\ op'[t] = [op[t] EXCEPT !.cursor = op[t].cursor + 1]
         /\ \A u \in Threads \ {t} : op'[u] = op[u]
<1>1. pc \in [Threads -> Steps] /\ op \in [Threads -> Op] /\ op[t] \in Op
  BY DEF TypeOK
<1> DEFINE o == [op[t] EXCEPT !.cursor = op[t].cursor + 1]
<1>2. o \in Op
  BY <1>1 DEF Op
<1>3. pc' = [pc EXCEPT ![t] = pc[t]] /\ op' = [op EXCEPT ![t] = o]
  BY DEF Advance, Goto
<1>4. pc' = pc
  BY <1>1, <1>3
<1> HIDE DEF o
<1>5. op' \in [Threads -> Op] /\ op'[t] = o /\ \A u \in Threads \ {t} : op'[u] = op[u]
  BY <1>1, <1>2, <1>3
<1>6. QED
  BY <1>4, <1>5 DEF o

-----------------------------------------------------------------------------
(* The two halves of Typed: where the threads are, and the rest.           *)
ControlTyped ==
  /\ pc \in [Threads -> Steps]
  /\ op \in [Threads -> Op]
  /\ frames \in [Threads -> Seq(Frame)]
  /\ \A t \in Threads : Shape(t)

DataTyped ==
  /\ slots \in [Capabilities -> Table]
  /\ next_generation \in Nat
  /\ assignments \in [{Target[c] : c \in Capabilities} -> 0 .. CapabilityCount]
  /\ image_active \in BOOLEAN
  /\ image_generation \in Nat
  /\ header \in [Threads -> Header]
  /\ bounds \in [Threads -> {"host", "private"}]
  /\ loader \in {"unloaded", "loaded"}
  /\ publisher \in [Capabilities -> [SlotIds -> Threads \cup {NoThread}]]

\* Typing is about the control of the threads and about the data they share.
LEMMA TypedHalves == /\ Typed <=> ControlTyped /\ DataTyped
                     /\ Typed' <=> ControlTyped' /\ DataTyped'
BY DEF Typed, TypeOK, ControlTyped, DataTyped

\* The shape of the other threads is not disturbed.
LEMMA ShapesStay ==
  ASSUME Typed, NEW t \in Threads, OthersStay(t), Shape(t)'
  PROVE  \A u \in Threads : Shape(u)'
BY DEF Typed, OthersStay, Shape

\* A thread may go to any step whose needs its operation meets.
LEMMA GotoControl ==
  ASSUME Typed, NEW t \in Threads, NEW step \in Steps, NEW o \in Op,
         Goto(t, step, o),
         frames' \in [Threads -> Seq(Frame)],
         \A u \in Threads \ {t} : frames'[u] = frames[u],
         step \in {"prepare", "authorize", "push"} => o.bridge \in Bridges,
         step = "authorize" => o.cursor # 0,
         step \in {"publish", "commit", "revoke"} =>
           o.grant.capability \in Capabilities,
         step \in {"publish", "commit", "revoke", "clear", "expire"} =>
           frames'[t] # <<>>
  PROVE  ControlTyped'
<1>1. /\ pc' \in [Threads -> Steps] /\ pc'[t] = step
      /\ op' \in [Threads -> Op] /\ op'[t] = o
      /\ \A u \in Threads \ {t} : pc'[u] = pc[u] /\ op'[u] = op[u]
  BY GotoMoves DEF Typed
<1>2. OthersStay(t) /\ Shape(t)'
  BY <1>1 DEF OthersStay, Shape
<1>3. QED
  BY <1>1, <1>2, ShapesStay DEF ControlTyped

\* Returning keeps the control of the threads typed.
LEMMA ReturnControl ==
  ASSUME Typed, NEW t \in Threads, Return(t),
         frames' \in [Threads -> Seq(Frame)],
         \A u \in Threads \ {t} : frames'[u] = frames[u]
  PROVE  ControlTyped'
BY NoOpTyped, GotoControl DEF Return, Steps

\* Advancing a scan keeps the control of the threads typed.
LEMMA AdvanceControl ==
  ASSUME Typed, NEW t \in Threads, Advance(t), UNCHANGED frames
  PROVE  ControlTyped'
<1>1. TypeOK /\ op[t] \in Op /\ Shape(t)
  BY DEF Typed, TypeOK
<1>2. /\ pc' = pc
      /\ op' \in [Threads -> Op]
      /\ op'[t] = [op[t] EXCEPT !.cursor = op[t].cursor + 1]
      /\ \A u \in Threads \ {t} : op'[u] = op[u]
  BY <1>1, AdvanceMoves
<1>3. op'[t].bridge = op[t].bridge /\ op'[t].grant = op[t].grant
      /\ op'[t].cursor # 0
  BY <1>1, <1>2 DEF Op
<1>4. OthersStay(t) /\ Shape(t)'
  BY <1>1, <1>2, <1>3 DEF OthersStay, Shape
<1>5. QED
  BY <1>1, <1>2, <1>4, ShapesStay DEF ControlTyped, TypeOK

\* Rewriting the top frame keeps the control of the threads typed.
LEMMA TopControl ==
  ASSUME Typed, NEW t \in Threads, frames[t] # <<>>, NEW f \in Frame,
         SetTop(t, f), UNCHANGED <<pc, op>>
  PROVE  ControlTyped'
<1>1. TypeOK /\ Shape(t)
  BY DEF Typed
<1>2. OthersStay(t) /\ Shape(t)'
  BY <1>1, SetTopMoves DEF OthersStay, Shape
<1>3. QED
  BY <1>1, <1>2, SetTopMoves, ShapesStay DEF ControlTyped, TypeOK

-----------------------------------------------------------------------------
(* The capability tables only narrow, except in PublishCapability.         *)
SlotsNarrow ==
  /\ slots' \in [Capabilities -> Table]
  /\ \A c \in Capabilities : Narrows(slots'[c], slots[c])

\* Slots that do not change narrow.
LEMMA SlotsUnchanged ==
  ASSUME TypeOK, UNCHANGED slots
  PROVE  SlotsNarrow
BY DEF TypeOK, SlotsNarrow, Narrows

\* Slots narrow when the one table that changes does.
LEMMA OneTableNarrows ==
  ASSUME TypeOK, NEW c, NEW new, slots' = [slots EXCEPT ![c] = new],
         c \in Capabilities => new \in Table /\ Narrows(new, slots[c])
  PROVE  SlotsNarrow
<1>1. slots \in [Capabilities -> Table]
  BY DEF TypeOK
<1>2. \A d \in Capabilities : Narrows(slots[d], slots[d])
  BY DEF Narrows
<1>3. slots' \in [Capabilities -> Table]
  BY <1>1
<1>4. ASSUME NEW d \in Capabilities
      PROVE  Narrows(slots'[d], slots[d])
  BY <1>1, <1>2
<1>5. QED
  BY <1>3, <1>4 DEF SlotsNarrow

\* Authorizing an entry narrows.
LEMMA AuthorizeCapabilityNarrows ==
  ASSUME Typed, NEW t \in Threads, AuthorizeCapability(t)
  PROVE  SlotsNarrow
<1>1. TypeOK
  BY DEF Typed
<1>2. CASE UNCHANGED slots
  BY <1>1, <1>2, SlotsUnchanged
<1>3. ASSUME NEW c, Admitting(slots[c], t) # {},
             slots' = [slots EXCEPT ![c] = Authorize(slots[c], Lifetime[c], t)]
      PROVE  SlotsNarrow
  BY <1>1, <1>3, OneTableNarrows, AuthorizeNarrows DEF TypeOK
<1>4. QED
  BY <1>2, <1>3 DEF AuthorizeCapability

\* Settling what was published narrows.
LEMMA SettlingNarrows ==
  ASSUME Typed, NEW t \in Threads,
         \/ CommitResult(t) \/ RevokeResult(t) \/ ClearReplaced(t)
         \/ \E ok \in BOOLEAN : CallReturns(t, ok)
  PROVE  SlotsNarrow
<1>1. TypeOK
  BY DEF Typed
<1>2. CASE UNCHANGED slots
  BY <1>1, <1>2, SlotsUnchanged
<1>3. ASSUME NEW c, NEW g, slots' = [slots EXCEPT ![c] = Commit(slots[c], g)]
      PROVE  SlotsNarrow
  BY <1>1, <1>3, OneTableNarrows, CommitNarrows DEF TypeOK
<1>4. ASSUME NEW c, NEW g, slots' = [slots EXCEPT ![c] = Revoke(slots[c], g)]
      PROVE  SlotsNarrow
  BY <1>1, <1>4, OneTableNarrows, RevokeNarrows DEF TypeOK
<1>5. ASSUME NEW c, slots' = [slots EXCEPT ![c] = ExpireAll(slots[c])]
      PROVE  SlotsNarrow
  BY <1>1, <1>5, OneTableNarrows, ExpireAllNarrows DEF TypeOK
<1>6. QED
  BY <1>2, <1>3, <1>4, <1>5
     DEF CommitResult, RevokeResult, ClearReplaced, CallReturns

\* Expiring narrows.
LEMMA ExpiryNarrows ==
  ASSUME Typed, NEW t \in Threads,
         ExpireEvent(t) \/ ExpireOwner(t) \/ ExpireProcess(t) \/ ExpireTop(t)
  PROVE  SlotsNarrow
<1>1. TypeOK /\ Shape(t)
  BY DEF Typed
<1>2. CASE UNCHANGED slots
  BY <1>1, <1>2, SlotsUnchanged
<1>3. ASSUME NEW c, slots' = [slots EXCEPT ![c] = ExpireAll(slots[c])]
      PROVE  SlotsNarrow
  BY <1>1, <1>3, OneTableNarrows, ExpireAllNarrows DEF TypeOK
<1>4. ASSUME NEW c, slots' = [slots EXCEPT ![c] = ExpireThread(slots[c], t)]
      PROVE  SlotsNarrow
  BY <1>1, <1>4, OneTableNarrows, ExpireThreadNarrows DEF TypeOK
<1>5. CASE ExpireTop(t)
  <2>1. Top(t).generation \in Nat
    BY <1>1, <1>5, TopTyped DEF ExpireTop, Shape, Frame
  <2>2. QED
    BY <1>1, <1>5, <2>1, OneTableNarrows, ExpireIngressNarrows DEF ExpireTop, TypeOK
<1>6. QED
  BY <1>2, <1>3, <1>4, <1>5 DEF ExpireEvent, ExpireOwner, ExpireProcess

-----------------------------------------------------------------------------
(* Entering.                                                               *)
LEMMA EnterTyped ==
  ASSUME Typed, NEW t \in Threads, NEW b \in Bridges, NEW r \in Reasons,
         Enter(t, b, r)
  PROVE  Typed'
<1> DEFINE o == [NoOp EXCEPT !.bridge = b, !.reason = r]
<1>1. o \in Op /\ o.bridge = b
  BY NoOpTyped DEF Op, NoOp
<1>2. ControlTyped'
  <2>1. Goto(t, "prepare", o) /\ UNCHANGED frames
    BY DEF Enter
  <2> HIDE DEF o
  <2>2. QED
    BY <1>1, <2>1, GotoControl DEF Typed, TypeOK, Steps
<1>3. header' \in [Threads -> Header]
  BY DEF Enter, Typed, TypeOK, Header
<1>4. loader' \in {"unloaded", "loaded"}
  BY DEF Enter, Typed, TypeOK
<1>5. UNCHANGED <<shared, bounds>>
  BY DEF Enter
<1>6. DataTyped'
  BY <1>3, <1>4, <1>5, TypedHalves DEF DataTyped, shared
<1>7. QED
  BY <1>2, <1>6, TypedHalves

\* The image cut keeps the types.
LEMMA CheckImageTyped ==
  ASSUME Typed, NEW t \in Threads, CheckImage(t)
  PROVE  Typed'
<1> DEFINE o == [op[t] EXCEPT !.cursor = 1]
<1>1. /\ op[t].bridge \in Bridges
      /\ o \in Op /\ o.bridge = op[t].bridge /\ o.cursor = 1
  BY DEF CheckImage, Typed, TypeOK, Shape, Op
<1>2. frames' = frames /\ frames' \in [Threads -> Seq(Frame)]
  BY DEF CheckImage, Typed, TypeOK
<1>3. CASE Return(t)
  <2>1. ControlTyped'
    BY <1>2, <1>3, ReturnControl
  <2>2. QED
    BY <2>1, TypedHalves DEF CheckImage, DataTyped, shared
<1>4. ASSUME NEW step \in {"push", "authorize"}, Goto(t, step, o)
      PROVE  Typed'
  <2> HIDE DEF o
  <2>1. ControlTyped'
    BY <1>1, <1>2, <1>4, GotoControl DEF Steps
  <2>2. QED
    BY <2>1, TypedHalves DEF CheckImage, DataTyped, shared
<1>5. QED
  BY <1>3, <1>4 DEF CheckImage

(* A capability in a bridge's list is one of the program.                  *)
LEMMA AuthorizeCapabilityTyped ==
  ASSUME Typed, NEW t \in Threads, AuthorizeCapability(t)
  PROVE  Typed'
<1> DEFINE list == BridgeCapabilities[op[t].bridge]
           c == list[op[t].cursor]
           s == slots[c][First(Admitting(slots[c], t))]
           grant == [capability |-> c, generation |-> s.generation,
                     escaped |-> s.escaped, owner |-> s.owner_ingress]
           o == [op[t] EXCEPT !.grant = grant]
<1>1. op[t] \in Op /\ op[t].bridge \in Bridges /\ op[t].cursor \in Nat \ {0}
  BY DEF AuthorizeCapability, Typed, TypeOK, Shape, Op
<1>2. list \in Seq(Capabilities)
  BY <1>1, ConfigurationAssumption
<1>3. frames' = frames /\ frames' \in [Threads -> Seq(Frame)]
  BY DEF AuthorizeCapability, Typed, TypeOK
<1>4. ControlTyped'
  <2>1. CASE Return(t)
    BY <1>3, <2>1, ReturnControl
  <2>2. CASE Advance(t)
    BY <1>3, <2>2, AdvanceControl
  <2>3. CASE /\ op[t].cursor <= Len(list)
             /\ Admitting(slots[c], t) # {}
             /\ Goto(t, "push", o)
    <3>1. c \in Capabilities
      <4> HIDE DEF list
      <4>1. op[t].cursor \in 1 .. Len(list)
        <5> DEFINE n == Len(list)
                   i == op[t].cursor
        <5>1. n \in Nat
          BY <1>2, LenProperties
        <5>2. i \in Nat \ {0} /\ i <= n
          BY <1>1, <2>3
        <5> HIDE DEF n, i
        <5>3. i \in 1 .. n
          BY <5>1, <5>2
        <5>4. QED
          BY <5>3 DEF n, i
      <4>2. QED
        BY <1>2, <4>1, ElementOfSeq
    <3>2. slots[c] \in Table
      BY <3>1 DEF Typed, TypeOK
    <3>3. s \in Slot
      <4>1. First(Admitting(slots[c], t)) \in SlotIds
        BY <2>3, FirstInSet DEF Admitting
      <4>2. QED
        BY <3>2, <4>1 DEF Table
    <3>4. grant \in Grant
      <4>1. c \in Nat
        BY <3>1, ConfigurationAssumption DEF Capabilities
      <4> HIDE DEF c, s
      <4>2. QED
        BY <3>3, <4>1 DEF Slot, Grant
    <3>5. o \in Op /\ o.bridge = op[t].bridge
      <4> HIDE DEF grant
      <4>1. QED
        BY <1>1, <3>4 DEF Op
    <3> HIDE DEF o
    <3>6. QED
      BY <1>1, <1>3, <2>3, <3>5, GotoControl DEF Steps
  <2>4. QED
    BY <2>1, <2>2, <2>3 DEF AuthorizeCapability
<1>5. SlotsNarrow
  BY AuthorizeCapabilityNarrows
<1>6. DataTyped'
  BY <1>5, TypedHalves DEF AuthorizeCapability, DataTyped, SlotsNarrow
<1>7. QED
  BY <1>4, <1>6, TypedHalves

\* A refused stack keeps the types.
LEMMA RefuseStackTyped ==
  ASSUME Typed, NEW t \in Threads, RefuseStack(t)
  PROVE  Typed'
<1>1. ControlTyped'
  BY ReturnControl DEF RefuseStack, Typed, TypeOK
<1>2. QED
  BY <1>1, TypedHalves DEF RefuseStack, DataTyped, shared

\* A push keeps the types.
LEMMA PushFrameTyped ==
  ASSUME Typed, NEW t \in Threads, PushFrame(t)
  PROVE  Typed'
<1> DEFINE f == [bridge     |-> op[t].bridge,
                 reason     |-> op[t].reason,
                 generation |-> header[t].generation,
                 admitted   |-> op[t].grant,
                 phase      |-> "entered",
                 pending    |-> NoGrant,
                 recovered  |-> FALSE,
                 saved      |-> bounds[t]]
<1>1. /\ frames \in [Threads -> Seq(Frame)] /\ op[t] \in Op
      /\ op[t].bridge \in Bridges /\ header[t] \in Header
      /\ bounds[t] \in {"host", "private"}
  BY DEF PushFrame, Typed, TypeOK, Shape
<1>2. f \in Frame
  BY <1>1, NoOpTyped DEF Frame, Op, Header, Phases
<1>3. frames' = [frames EXCEPT ![t] = Append(frames[t], f)]
  BY DEF PushFrame
<1>4. /\ frames' \in [Threads -> Seq(Frame)]
      /\ \A u \in Threads \ {t} : frames'[u] = frames[u]
  <2> HIDE DEF f
  <2> QED BY <1>1, <1>2, <1>3
<1>5. ControlTyped'
  BY <1>4, ReturnControl DEF PushFrame
<1>6. header' \in [Threads -> Header]
  <2>1. NextIngress(header[t].generation) \in Nat
    BY <1>1, ConfigurationAssumption DEF NextIngress, Header
  <2>2. QED
    BY <2>1 DEF PushFrame, Typed, TypeOK, Header
<1>7. bounds' \in [Threads -> {"host", "private"}]
  BY DEF PushFrame, Typed, TypeOK
<1>8. UNCHANGED <<shared, loader>>
  BY DEF PushFrame
<1>9. DataTyped'
  BY <1>6, <1>7, <1>8, TypedHalves DEF DataTyped, shared
<1>10. QED
  BY <1>5, <1>9, TypedHalves

-----------------------------------------------------------------------------
(* Guest code: a step that only rewrites the top frame.                    *)
LEMMA TopFields ==
  ASSUME Typed, NEW t \in Threads, frames[t] # <<>>,
         NEW phase \in Phases, NEW pending \in Grant
  PROVE  /\ [Top(t) EXCEPT !.phase = phase] \in Frame
         /\ [Top(t) EXCEPT !.phase = phase, !.pending = pending] \in Frame
         /\ [Top(t) EXCEPT !.pending = pending, !.phase = phase] \in Frame
         /\ HandlerRuns(Top(t)) \in Frame
<1>1. Top(t) \in Frame
  BY TopTyped DEF Typed
<1>2. QED
  BY <1>1, NoOpTyped DEF Frame, Phases, HandlerRuns

\* Guest code outside the table keeps the types.
LEMMA GuestStepsTyped ==
  ASSUME Typed, NEW t \in Threads,
         Preflight(t) \/ StartCall(t) \/ GuestFails(t) \/ CallAborts(t)
  PROVE  Typed'
<1>1. frames[t] # <<>>
  BY DEF Preflight, StartCall, GuestFails, CallAborts, InPhase
<1>2. PICK f \in Frame : SetTop(t, f)
  <2>1. CASE Preflight(t) \/ StartCall(t) \/ GuestFails(t)
    <3>1. \E phase \in Phases : SetTop(t, [Top(t) EXCEPT !.phase = phase])
      BY <2>1 DEF Preflight, StartCall, GuestFails, Phases
    <3>2. QED
      BY <1>1, <3>1, TopFields, NoOpTyped
  <2>2. CASE CallAborts(t)
    BY <1>1, <2>2, TopFields, NoOpTyped DEF CallAborts, Phases
  <2>3. QED
    BY <2>1, <2>2
<1>3. UNCHANGED <<shared, header, bounds, pc, op, loader>>
  BY DEF Preflight, StartCall, GuestFails, CallAborts
<1>4. ControlTyped'
  BY <1>1, <1>2, <1>3, TopControl
<1>5. QED
  BY <1>3, <1>4, TypedHalves DEF DataTyped, shared

\* A claim keeps the assignments typed.
LEMMA ClaimTyped ==
  ASSUME Typed, NEW c \in Capabilities, Claim(c)
  PROVE  assignments' \in [{Target[d] : d \in Capabilities} -> 0 .. CapabilityCount]
<1>1. c \in 0 .. CapabilityCount
  BY ConfigurationAssumption DEF Capabilities
<1>2. assignments \in [{Target[d] : d \in Capabilities} -> 0 .. CapabilityCount]
  BY DEF Typed, TypeOK
<1>3. QED
  BY <1>1, <1>2 DEF Claim

\* An activation is of capabilities, and replaces only where it says so.
LEMMA ActivationTyped ==
  ASSUME NEW a \in Activations
  PROVE  /\ a[1] \in {"call", "result", "replace"}
         /\ a[2] \in Capabilities /\ a[3] \in Capabilities
         /\ a[1] # "replace" => a[2] = a[3]
BY ConfigurationAssumption DEF Activations

\* An activation keeps the types.
LEMMA ActivateCapabilityTyped ==
  ASSUME Typed, NEW t \in Threads, NEW a \in Activations,
         ActivateCapability(t, a)
  PROVE  Typed'
<1> DEFINE g == NextGeneration(next_generation)
           grant == [capability |-> a[2], generation |-> g,
                     escaped |-> Escapes(a[2]), owner |-> Top(t).generation]
           o == [NoOp EXCEPT !.use = a[1], !.target = a[3], !.grant = grant]
<1>1. frames[t] # <<>>
  BY DEF ActivateCapability, InPhase
<1>2. Top(t).generation \in Nat
  BY <1>1, TopTyped DEF Typed, Frame
<1>3. g \in Nat
  BY ConfigurationAssumption DEF NextGeneration, Typed, TypeOK
<1>4. a[2] \in Nat /\ a[3] \in Nat
  BY ActivationTyped, ConfigurationAssumption DEF Capabilities
<1>5. grant \in Grant
  <2> HIDE DEF g
  <2> QED BY <1>2, <1>3, <1>4 DEF Grant, Escapes
<1>6. o \in Op /\ o.grant.capability \in Capabilities
  <2>1. grant.capability \in Capabilities
    BY ActivationTyped
  <2> HIDE DEF grant
  <2>2. QED
    BY <1>4, <1>5, <2>1, NoOpTyped, ActivationTyped DEF Op, NoOp, Uses
<1>7. ControlTyped'
  <2>1. Goto(t, "publish", o) /\ UNCHANGED frames
    BY DEF ActivateCapability
  <2> HIDE DEF o
  <2>2. QED
    BY <1>1, <1>6, <2>1, GotoControl DEF Steps, Typed, TypeOK
<1>8. /\ next_generation' = g
      /\ UNCHANGED <<slots, image_active, image_generation, publisher, header,
                     bounds, loader>>
  BY DEF ActivateCapability
<1>9. assignments' \in [{Target[d] : d \in Capabilities} -> 0 .. CapabilityCount]
  BY ActivationTyped, ClaimTyped DEF ActivateCapability
<1>10. DataTyped'
  BY <1>3, <1>8, <1>9, TypedHalves DEF DataTyped
<1>11. QED
  BY <1>7, <1>10, TypedHalves

\* A refused activation keeps the types.
LEMMA ActivationRefusedTyped ==
  ASSUME Typed, NEW t \in Threads, NEW a \in Activations,
         ActivationRefused(t, a)
  PROVE  Typed'
<1>1. frames[t] # <<>> /\ Top(t) \in Frame
  BY TopTyped DEF ActivationRefused, InPhase, Typed
<1> DEFINE phase == IF a[1] = "replace" THEN Top(t).phase ELSE "done"
<1>2. phase \in Phases /\ SetTop(t, [Top(t) EXCEPT !.phase = phase])
  BY <1>1 DEF Frame, Phases, ActivationRefused
<1>3. ControlTyped'
  <2> HIDE DEF phase
  <2> QED
    BY <1>1, <1>2, TopFields, NoOpTyped, TopControl DEF ActivationRefused
<1>4. assignments' \in [{Target[d] : d \in Capabilities} -> 0 .. CapabilityCount]
  BY ActivationTyped, ClaimTyped DEF ActivationRefused
<1>5. QED
  BY <1>3, <1>4, TypedHalves DEF ActivationRefused, DataTyped

(* What a publication leaves in the slots: the one it fills holds the      *)
(* grant for the top ingress of the publisher, the others do not change.   *)
LEMMA PublishedSlot ==
  ASSUME Typed, NEW t \in Threads, PublishCapability(t)
  PROVE  LET c == op[t].grant.capability
             i == First(Free(slots[c], Lifetime[c]))
         IN  /\ c \in Capabilities /\ i \in SlotIds
             /\ Lifetime[c] # "until_replaced" => ~slots[c][i].active
             /\ slots' \in [Capabilities -> Table]
             /\ slots'[c][i] = NewSlot(op[t].grant.generation,
                                       op[t].grant.escaped, t, Top(t).generation)
             /\ publisher' \in [Capabilities -> [SlotIds -> Threads \cup {NoThread}]]
             /\ publisher'[c][i] = t
             /\ \A d \in Capabilities : \A j \in SlotIds : d # c \/ j # i =>
                  slots'[d][j] = slots[d][j] /\ publisher'[d][j] = publisher[d][j]
<1> DEFINE g == op[t].grant
           c == g.capability
           i == First(Free(slots[c], Lifetime[c]))
           new == Publish(slots[c], Lifetime[c], g.generation, g.escaped, t,
                          Top(t).generation)
           s == NewSlot(g.generation, g.escaped, t, Top(t).generation)
<1>1. g \in Grant /\ c \in Capabilities /\ frames[t] # <<>>
  BY DEF PublishCapability, Typed, TypeOK, Shape, Op
<1>2. Top(t).generation \in Nat
  BY <1>1, TopTyped DEF Typed, Frame
<1>3. slots \in [Capabilities -> Table] /\ slots[c] \in Table
  BY <1>1 DEF Typed, TypeOK
<1>4. g.generation \in Nat /\ g.escaped \in BOOLEAN
  BY <1>1 DEF Grant
<1>5. /\ i \in SlotIds
      /\ Lifetime[c] # "until_replaced" => ~slots[c][i].active
      /\ new \in Table
      /\ new = [slots[c] EXCEPT ![i] = s]
  <2>1. Free(slots[c], Lifetime[c]) # {}
    BY DEF PublishCapability
  <2>2. QED
    BY <1>2, <1>3, <1>4, <2>1, PublishFillsOne
<1>6. /\ slots' = [slots EXCEPT ![c] = new]
      /\ publisher' = [publisher EXCEPT ![c][i] = t]
  BY DEF PublishCapability
<1>7. publisher \in [Capabilities -> [SlotIds -> Threads \cup {NoThread}]]
  BY DEF Typed, TypeOK
<1> HIDE DEF s, new, i, c
<1>8. slots' \in [Capabilities -> Table]
  BY <1>1, <1>3, <1>5, <1>6
<1>9. slots'[c][i] = s
  BY <1>1, <1>3, <1>5, <1>6 DEF Table
<1>10. /\ publisher' \in [Capabilities -> [SlotIds -> Threads \cup {NoThread}]]
       /\ publisher'[c][i] = t
  BY <1>1, <1>5, <1>6, <1>7
<1>11. \A d \in Capabilities : \A j \in SlotIds : d # c \/ j # i =>
         slots'[d][j] = slots[d][j] /\ publisher'[d][j] = publisher[d][j]
  BY <1>1, <1>3, <1>5, <1>6, <1>7 DEF Table
<1>12. QED
  BY <1>1, <1>5, <1>8, <1>9, <1>10, <1>11 DEF s, i, c

\* A publication keeps the types.
LEMMA PublishCapabilityTyped ==
  ASSUME Typed, NEW t \in Threads, PublishCapability(t)
  PROVE  Typed'
<1>1. /\ pc[t] = "publish" /\ frames[t] # <<>> /\ op[t] \in Op
      /\ op[t].grant \in Grant /\ op[t].grant.capability \in Capabilities
      /\ frames \in [Threads -> Seq(Frame)]
  BY DEF PublishCapability, Typed, TypeOK, Shape, Op
<1>2. ASSUME SetTop(t, [Top(t) EXCEPT !.phase = "call", !.pending = op[t].grant]),
             Return(t)
      PROVE  ControlTyped'
  <2>1. [Top(t) EXCEPT !.phase = "call", !.pending = op[t].grant] \in Frame
    BY <1>1, TopFields DEF Phases
  <2>2. /\ frames' \in [Threads -> Seq(Frame)]
        /\ \A u \in Threads \ {t} : frames'[u] = frames[u]
    BY <1>1, <1>2, <2>1, SetTopMoves DEF Typed
  <2>3. QED
    BY <1>2, <2>2, ReturnControl
<1>3. ASSUME UNCHANGED frames, Return(t)
      PROVE  ControlTyped'
  BY <1>1, <1>3, ReturnControl
<1>4. ASSUME NEW step \in {"commit", "clear"}, UNCHANGED frames, Goto(t, step, op[t])
      PROVE  ControlTyped'
  BY <1>1, <1>4, GotoControl DEF Steps
<1>5. ControlTyped'
  BY <1>2, <1>3, <1>4 DEF PublishCapability
<1>6. DataTyped'
  <2>1. /\ slots' \in [Capabilities -> Table]
        /\ publisher' \in [Capabilities -> [SlotIds -> Threads \cup {NoThread}]]
    BY PublishedSlot
  <2>2. QED
    BY <2>1, TypedHalves DEF PublishCapability, DataTyped
<1>7. QED
  BY <1>5, <1>6, TypedHalves

\* The top frame is done with and the operation returns.
LEMMA DoneAndReturn ==
  ASSUME Typed, NEW t \in Threads, frames[t] # <<>>, Return(t),
         SetTop(t, [Top(t) EXCEPT !.phase = "done"])
  PROVE  ControlTyped'
<1>1. [Top(t) EXCEPT !.phase = "done"] \in Frame
  BY TopFields, NoOpTyped DEF Phases
<1>2. /\ frames' \in [Threads -> Seq(Frame)]
      /\ \A u \in Threads \ {t} : frames'[u] = frames[u]
  BY <1>1, SetTopMoves DEF Typed
<1>3. QED
  BY <1>2, ReturnControl

\* A refused publication keeps the types.
LEMMA PublishRefusedTyped ==
  ASSUME Typed, NEW t \in Threads, PublishRefused(t)
  PROVE  Typed'
<1>1. frames[t] # <<>>
  BY DEF PublishRefused, Typed, Shape
<1>2. ControlTyped'
  BY <1>1, DoneAndReturn DEF PublishRefused
<1>3. QED
  BY <1>2, TypedHalves DEF PublishRefused, DataTyped, shared

\* Settling a result or a replacement keeps the types.
LEMMA SettlingTyped ==
  ASSUME Typed, NEW t \in Threads,
         CommitResult(t) \/ RevokeResult(t) \/ ClearReplaced(t)
  PROVE  Typed'
<1>1. /\ frames[t] # <<>> /\ frames \in [Threads -> Seq(Frame)] /\ op[t] \in Op
      /\ pc[t] = "commit" => op[t].grant.capability \in Capabilities
  BY DEF CommitResult, RevokeResult, ClearReplaced, Typed, TypeOK, Shape
<1>2. CASE CommitResult(t) \/ ClearReplaced(t)
  <2>1. frames' \in [Threads -> Seq(Frame)] /\ UNCHANGED frames
    BY <1>1, <1>2 DEF CommitResult, ClearReplaced
  <2>2. ASSUME Return(t)
        PROVE  ControlTyped'
    BY <2>1, <2>2, ReturnControl
  <2>3. ASSUME CommitResult(t), Goto(t, "revoke", op[t])
        PROVE  ControlTyped'
    <3>1. pc[t] = "commit"
      BY <2>3 DEF CommitResult
    <3>2. QED
      BY <1>1, <2>1, <2>3, <3>1, GotoControl DEF Steps
  <2>4. ControlTyped'
    BY <1>2, <2>2, <2>3 DEF CommitResult, ClearReplaced
  <2>5. QED
    BY <1>2, <2>4, SettlingNarrows, TypedHalves
       DEF CommitResult, ClearReplaced, SlotsNarrow, DataTyped
<1>3. CASE RevokeResult(t)
  <2>1. ControlTyped'
    BY <1>1, <1>3, DoneAndReturn DEF RevokeResult
  <2>2. QED
    BY <1>3, <2>1, SettlingNarrows, TypedHalves
       DEF RevokeResult, SlotsNarrow, DataTyped
<1>4. QED
  BY <1>2, <1>3

\* The return of an outgoing call keeps the types.
LEMMA CallReturnsTyped ==
  ASSUME Typed, NEW t \in Threads, NEW ok \in BOOLEAN, CallReturns(t, ok)
  PROVE  Typed'
<1>1. frames[t] # <<>>
  BY DEF CallReturns, InPhase
<1>2. PICK f \in Frame : SetTop(t, f)
  <2>1. \/ \E phase \in Phases : SetTop(t, [Top(t) EXCEPT !.phase = phase])
        \/ \E phase \in Phases :
             SetTop(t, [Top(t) EXCEPT !.pending = NoGrant, !.phase = phase])
    BY DEF CallReturns, Phases
  <2>2. QED
    BY <1>1, <2>1, TopFields, NoOpTyped
<1>3. ControlTyped'
  BY <1>1, <1>2, TopControl DEF CallReturns
<1>4. SlotsNarrow
  BY SettlingNarrows
<1>5. QED
  BY <1>3, <1>4, TypedHalves DEF CallReturns, SlotsNarrow, DataTyped

\* The start of an event keeps the types.
LEMMA StartEventTyped ==
  ASSUME Typed, NEW t \in Threads, NEW e, StartEvent(t, e)
  PROVE  Typed'
<1>1. PICK c \in Capabilities : Goto(t, "event", [NoOp EXCEPT !.cursor = c, !.target = c])
  BY DEF StartEvent
<1> DEFINE o == [NoOp EXCEPT !.cursor = c, !.target = c]
<1>2. o \in Op
  <2>1. c \in Nat
    BY ConfigurationAssumption DEF Capabilities
  <2>2. QED
    BY <2>1, NoOpTyped DEF Op, NoOp
<1>3. Goto(t, "event", o)
  BY <1>1
<1>4. ControlTyped'
  <2> HIDE DEF o
  <2> QED BY <1>2, <1>3, GotoControl DEF StartEvent, Typed, TypeOK, Steps
<1>5. QED
  BY <1>4, TypedHalves DEF StartEvent, DataTyped, shared

-----------------------------------------------------------------------------
(* Scans over the capabilities, and the end of the image.                  *)
LEMMA ScansTyped ==
  ASSUME Typed, NEW t \in Threads,
         ExpireEvent(t) \/ ExpireOwner(t) \/ ExpireProcess(t) \/ ExpireTop(t)
  PROVE  Typed'
<1>1. UNCHANGED frames /\ frames' \in [Threads -> Seq(Frame)]
  BY DEF ExpireEvent, ExpireOwner, ExpireProcess, ExpireTop, Typed, TypeOK
<1>2. ASSUME Advance(t)
      PROVE  ControlTyped'
  BY <1>1, <1>2, AdvanceControl
<1>3. ASSUME Return(t)
      PROVE  ControlTyped'
  BY <1>1, <1>3, ReturnControl
<1>4. ASSUME Goto(t, "deactivate", NoOp)
      PROVE  ControlTyped'
  BY <1>1, <1>4, NoOpTyped, GotoControl DEF Steps
<1>5. ControlTyped'
  BY <1>2, <1>3, <1>4 DEF ExpireEvent, ExpireOwner, ExpireProcess, ExpireTop
<1>6. SlotsNarrow
  BY ExpiryNarrows
<1>7. UNCHANGED <<next_generation, assignments, image_active, image_generation,
                  publisher, header, bounds, loader>>
  BY DEF ExpireEvent, ExpireOwner, ExpireProcess, ExpireTop
<1>8. QED
  BY <1>5, <1>6, <1>7, TypedHalves DEF SlotsNarrow, DataTyped

\* The end of the image keeps the types.
LEMMA ImageEndTyped ==
  ASSUME Typed, NEW t \in Threads, DeactivateImage(t) \/ RetireImage(t)
  PROVE  Typed'
<1>1. UNCHANGED frames /\ frames' \in [Threads -> Seq(Frame)]
  BY DEF DeactivateImage, RetireImage, Typed, TypeOK
<1>2. ControlTyped'
  BY <1>1, NoOpTyped, ReturnControl, GotoControl DEF DeactivateImage, RetireImage, Steps
<1>3. image_active' \in BOOLEAN /\ image_generation' \in Nat
  <2>1. image_active \in BOOLEAN /\ image_generation \in Nat
    BY DEF Typed, TypeOK
  <2>2. CASE DeactivateImage(t)
    BY <2>1, <2>2 DEF DeactivateImage
  <2>3. CASE RetireImage(t)
    BY <2>1, <2>3 DEF RetireImage
  <2>4. QED
    BY <2>2, <2>3
<1>4. UNCHANGED <<slots, next_generation, assignments, publisher, header,
                  bounds, loader>>
  BY DEF DeactivateImage, RetireImage
<1>5. QED
  BY <1>2, <1>3, <1>4, TypedHalves DEF DataTyped

\* The return of the guest keeps the types.
LEMMA GuestReturnsTyped ==
  ASSUME Typed, NEW t \in Threads, GuestReturns(t)
  PROVE  Typed'
<1> DEFINE f == [Top(t) EXCEPT !.phase = "done"]
<1>1. frames[t] # <<>> /\ SetTop(t, f)
  BY DEF GuestReturns, InPhase
<1>2. f \in Frame
  BY <1>1, TopFields, NoOpTyped DEF Phases
<1>3. /\ frames' \in [Threads -> Seq(Frame)]
      /\ \A u \in Threads \ {t} : frames'[u] = frames[u]
  <2> HIDE DEF f
  <2> QED BY <1>1, <1>2, SetTopMoves DEF Typed
<1>4. ASSUME UNCHANGED <<pc, op>>
      PROVE  ControlTyped'
  <2> HIDE DEF f
  <2> QED BY <1>1, <1>2, <1>4, TopControl
<1>5. ASSUME NEW step \in {"thread", "process"}, Goto(t, step, NoOp)
      PROVE  ControlTyped'
  BY <1>3, <1>5, NoOpTyped, GotoControl DEF Steps
<1>6. ControlTyped'
  BY <1>4, <1>5 DEF GuestReturns
<1>7. /\ header' \in [Threads -> Header]
      /\ image_active' \in BOOLEAN
  <2>1. /\ header \in [Threads -> Header] /\ image_generation \in Nat
        /\ image_active \in BOOLEAN
    BY DEF Typed, TypeOK
  <2>2. \/ UNCHANGED <<header, image_active>>
        \/ /\ header' = [header EXCEPT ![t].image_generation = image_generation]
           /\ image_active' = TRUE
    BY DEF GuestReturns
  <2>3. [header[t] EXCEPT !.image_generation = image_generation] \in Header
    BY <2>1 DEF Header
  <2>4. QED
    BY <2>1, <2>2, <2>3
<1>8. UNCHANGED <<slots, next_generation, assignments, image_generation,
                  publisher, bounds, loader>>
  BY DEF GuestReturns
<1>9. QED
  BY <1>6, <1>7, <1>8, TypedHalves DEF DataTyped

-----------------------------------------------------------------------------
(* Leaving.                                                                *)
LEMMA StartLeavingTyped ==
  ASSUME Typed, NEW t \in Threads,
         \/ StartFinish(t)
         \/ \E k \in 1 .. Depth(t) : Fault(t, k)
         \/ \E k \in 0 .. Depth(t) : Unwind(t, k)
  PROVE  Typed'
<1>1. /\ frames[t] # <<>> /\ frames \in [Threads -> Seq(Frame)]
      /\ Depth(t) \in Nat \ {0}
  <2>1. frames[t] # <<>>
    BY DEF StartFinish, Fault, Unwind, InPhase
  <2>2. QED
    BY <2>1, TopTyped DEF Typed, TypeOK
<1>2. ASSUME NEW use \in Uses, NEW k \in Nat, UNCHANGED frames, Leave(t, use, k)
      PROVE  ControlTyped'
  <2> DEFINE o == [NoOp EXCEPT !.use = use, !.target = k]
  <2>1. o \in Op
    BY NoOpTyped DEF Op, NoOp
  <2>2. Goto(t, "expire", o)
    BY <1>2 DEF Leave
  <2> HIDE DEF o
  <2>3. QED
    BY <1>1, <1>2, <2>1, <2>2, GotoControl DEF Steps
<1>3. ASSUME SetTop(t, HandlerRuns(Top(t))), UNCHANGED <<pc, op>>
      PROVE  ControlTyped'
  BY <1>1, <1>3, TopFields, NoOpTyped, TopControl DEF Phases
<1>4. ControlTyped'
  <2>1. CASE StartFinish(t)
    BY <1>1, <1>2, <2>1 DEF StartFinish, Uses
  <2>2. CASE \E k \in 1 .. Depth(t) : Fault(t, k)
    BY <1>1, <1>2, <1>3, <2>2 DEF Fault, Uses
  <2>3. CASE \E k \in 0 .. Depth(t) : Unwind(t, k)
    BY <1>1, <1>2, <2>3 DEF Unwind, Uses
  <2>4. QED
    BY <2>1, <2>2, <2>3
<1>5. UNCHANGED <<shared, header, bounds, loader>>
  BY DEF StartFinish, Fault, Unwind
<1>6. QED
  BY <1>4, <1>5, TypedHalves DEF DataTyped, shared

(* The stack below the top: what PopTop leaves.                            *)
LEMMA PopLeaves ==
  ASSUME Typed, NEW t \in Threads, PopTop(t)
  PROVE  /\ frames' \in [Threads -> Seq(Frame)]
         /\ Len(frames'[t]) = Depth(t) - 1
         /\ \A j \in 1 .. (Depth(t) - 1) :
              \/ frames'[t][j] = frames[t][j]
              \/ j = Depth(t) - 1 /\ frames'[t][j] = HandlerRuns(frames[t][j])
         /\ \A u \in Threads \ {t} : frames'[u] = frames[u]
<1> DEFINE n == Depth(t) - 1
           s == SubSeq(frames[t], 1, n)
           r == [s EXCEPT ![n] = HandlerRuns(s[n])]
<1>1. /\ frames \in [Threads -> Seq(Frame)] /\ frames[t] # <<>>
      /\ frames[t] \in Seq(Frame)
  BY DEF PopTop, Typed, TypeOK, Shape
<1>2. Depth(t) \in Nat \ {0} /\ n \in Nat /\ Len(frames[t]) = n + 1
  BY <1>1, TopTyped DEF Typed, Depth
<1>3. /\ s \in Seq(Frame) /\ Len(s) = n
      /\ \A j \in 1 .. n : s[j] = frames[t][j] /\ s[j] \in Frame
  <2>1. \A j \in 1 .. n : frames[t][j] \in Frame
    BY <1>1, <1>2, ElementOfSeq
  <2> HIDE DEF n
  <2>2. QED
    BY <1>2, <2>1, SubSeqProperties
<1>4. /\ r \in Seq(Frame) /\ Len(r) = n
      /\ \A j \in 1 .. n : r[j] = s[j] \/ (j = n /\ r[j] = HandlerRuns(s[j]))
  <2> HIDE DEF n, s
  <2>1. CASE n = 0
    <3>1. DOMAIN s = {}
      BY <1>3, <2>1, LenProperties
    <3>2. r = s
      BY <1>3, <2>1, <3>1
    <3>3. QED
      BY <1>3, <2>1, <3>2
  <2>2. CASE n # 0
    <3>1. n \in 1 .. Len(s) /\ s[n] \in Frame
      BY <1>2, <1>3, <2>2
    <3>2. HandlerRuns(s[n]) \in Frame
      BY <3>1, NoOpTyped DEF HandlerRuns, Frame, Phases
    <3>3. QED
      BY <1>3, <3>1, <3>2, ExceptSeq
  <2>3. QED
    BY <2>1, <2>2
<1>5. frames' = [frames EXCEPT ![t] = s] \/ frames' = [frames EXCEPT ![t] = r]
  BY DEF PopTop
<1> HIDE DEF r, s
<1>6. QED
  <2>1. frames'[t] = s \/ frames'[t] = r
    BY <1>1, <1>5
  <2>2. /\ frames' \in [Threads -> Seq(Frame)]
        /\ \A u \in Threads \ {t} : frames'[u] = frames[u]
    BY <1>1, <1>3, <1>4, <1>5
  <2> HIDE DEF n
  <2>3. /\ Len(frames'[t]) = n
        /\ \A j \in 1 .. n :
              \/ frames'[t][j] = frames[t][j]
              \/ j = n /\ frames'[t][j] = HandlerRuns(frames[t][j])
    BY <1>3, <1>4, <2>1
  <2>4. QED
    BY <2>2, <2>3 DEF n

\* A pop keeps the types.
LEMMA PopTopTyped ==
  ASSUME Typed, NEW t \in Threads, PopTop(t)
  PROVE  Typed'
<1>1. /\ frames[t] # <<>> /\ op[t] \in Op /\ op[t].target \in Nat
      /\ bounds \in [Threads -> {"host", "private"}]
  BY DEF PopTop, Typed, TypeOK, Shape, Op
<1>2. Top(t).saved \in {"host", "private"}
  BY <1>1, TopTyped DEF Typed, Frame
<1>3. ASSUME Return(t)
      PROVE  ControlTyped'
  BY <1>3, PopLeaves, ReturnControl
<1>4. ASSUME Depth(t) - 1 > op[t].target,
             Goto(t, "expire", [op[t] EXCEPT !.cursor = 0])
      PROVE  ControlTyped'
  <2> DEFINE o == [op[t] EXCEPT !.cursor = 0]
  <2>1. o \in Op
    BY <1>1 DEF Op
  <2>2. Goto(t, "expire", o)
    BY <1>4
  <2>3. frames'[t] # <<>>
    <3>1. Depth(t) \in Nat
      BY <1>1, TopTyped DEF Typed
    <3>2. Len(frames'[t]) # 0
      BY <1>1, <1>4, <3>1, PopLeaves
    <3>3. QED
      BY <3>2
  <2> HIDE DEF o
  <2>4. QED
    BY <2>1, <2>2, <2>3, PopLeaves, GotoControl DEF Steps
<1>5. ControlTyped'
  BY <1>3, <1>4 DEF PopTop
<1>6. bounds' \in [Threads -> {"host", "private"}]
  BY <1>1, <1>2 DEF PopTop
<1>7. UNCHANGED <<shared, header, loader>>
  BY DEF PopTop
<1>8. QED
  BY <1>5, <1>6, <1>7, TypedHalves DEF DataTyped, shared

\* The end of a thread keeps the types.
LEMMA ThreadExitsTyped ==
  ASSUME Typed, NEW t \in Threads, ThreadExits(t)
  PROVE  Typed'
<1>1. header' \in [Threads -> Header]
  BY DEF ThreadExits, Typed, TypeOK, NoHeader, Header
<1>2. UNCHANGED <<shared, frames, bounds, pc, op, loader>>
  BY DEF ThreadExits
<1>3. ControlTyped'
  BY <1>2, TypedHalves DEF ControlTyped, Shape
<1>4. QED
  BY <1>1, <1>2, <1>3, TypedHalves DEF DataTyped, shared

-----------------------------------------------------------------------------
\* The initial state is typed.
LEMMA InitTyped == Init => Typed
<1> SUFFICES ASSUME Init PROVE Typed
  OBVIOUS
<1>1. ControlTyped
  BY NoOpTyped, EmptySeq DEF Init, ControlTyped, Shape, Steps
<1>2. EmptySlot \in Slot
  BY DEF EmptySlot, Slot
<1>3. /\ slots \in [Capabilities -> Table]
      /\ publisher \in [Capabilities -> [SlotIds -> Threads \cup {NoThread}]]
  BY <1>2 DEF Init, Table
<1>4. assignments \in [{Target[c] : c \in Capabilities} -> 0 .. CapabilityCount]
  <2>1. CapabilityCount \in 0 .. CapabilityCount
    BY ConfigurationAssumption
  <2>2. QED
    BY <2>1 DEF Init
<1>5. /\ header \in [Threads -> Header] /\ bounds \in [Threads -> {"host", "private"}]
      /\ loader \in {"unloaded", "loaded"}
      /\ next_generation \in Nat /\ image_generation \in Nat
  BY DEF Init, NoHeader, Header
<1>6. image_active \in BOOLEAN
  BY DEF Init
<1>7. QED
  BY <1>1, <1>3, <1>4, <1>5, <1>6, TypedHalves DEF DataTyped

\* Typing is inductive.
LEMMA NextTyped == Typed /\ [Next]_vars => Typed'
<1> SUFFICES ASSUME Typed, [Next]_vars PROVE Typed'
  OBVIOUS
<1>1. CASE UNCHANGED vars
  BY <1>1 DEF vars, Typed, TypeOK, Shape
<1>2. ASSUME NEW t \in Threads, Runtime(t)
      PROVE  Typed'
  BY <1>2, CheckImageTyped, AuthorizeCapabilityTyped, PushFrameTyped,
     RefuseStackTyped, GuestStepsTyped, PublishCapabilityTyped,
     PublishRefusedTyped, SettlingTyped, ScansTyped, ImageEndTyped,
     StartLeavingTyped, PopTopTyped DEF Runtime
<1>3. ASSUME NEW t \in Threads, Guest(t)
      PROVE  Typed'
  BY <1>3, GuestStepsTyped, GuestReturnsTyped, ActivateCapabilityTyped,
     ActivationRefusedTyped, CallReturnsTyped, StartEventTyped,
     StartLeavingTyped DEF Guest
<1>4. ASSUME NEW t \in Threads, Host(t)
      PROVE  Typed'
  BY <1>4, EnterTyped, ThreadExitsTyped DEF Host
<1>5. QED
  BY <1>1, <1>2, <1>3, <1>4 DEF Next

(* Every variable of the runtime keeps its type, and every operation in    *)
(* progress finds what it relies on: a bridge, a frame to leave, a         *)
(* capability of the program.                                              *)
THEOREM TypedCorrect == Spec => []Typed
BY InitTyped, NextTyped, PTL DEF Spec

(* TypeOK of the runs, for every configuration.                            *)
THEOREM TypeCorrect == Spec => []TypeOK
<1>1. Typed => TypeOK
  BY DEF Typed
<1>2. QED
  BY <1>1, TypedCorrect, PTL

=============================================================================
