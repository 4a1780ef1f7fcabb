----------------------- MODULE ClosedExecutionProofs -----------------------
(***************************************************************************)
(* A guest that stays within reach executes under the authority, and an    *)
(* image without nonlocal transfers keeps its guest within reach.  The     *)
(* first part follows the stack of activations: which steps end some,      *)
(* which begin one, and at the end of which edge.  The second part takes   *)
(* the construction from TransferClosureProofs (a complete closure has     *)
(* visited every key with its present state) and follows the values: each  *)
(* step of the guest goes over an edge of the key it is at, and the state  *)
(* of the edge covers what the guest carries.                              *)
(***************************************************************************)
EXTENDS ClosedExecution, TransferClosureProofs, SequenceTheorems

Names == Addresses \cup Atoms \cup Unknown

FrameContexts == [root : Names, entry : Names, string : Seq(Names \X Nat)]
Frames ==
  [unit : Names, context : FrameContexts, back : {"host", "caller", "fault"},
   called : BOOLEAN, unwound : Nat]

\* Entrances the guest may have given away.
Given ==
  [unit : Units, cell : Names,
   edge : [source : Names, target : Units, kind : {"callback_escape"}]]

GuestType ==
  /\ stack \in Seq(Frames)
  /\ reg \in Names /\ cell \in Names
  /\ registered \subseteq Given
  /\ stack # <<>> => stack[1].back = "host"

Callbacks == \A x \in registered : x.edge.target = x.unit /\ x.edge.kind = "callback_escape"

EInv ==
  /\ IInv
  /\ GuestType
  /\ Callbacks
  /\ entries \in Nat
  /\ Running => first = <<>> /\ verdict = "complete" /\ entries # 0

-----------------------------------------------------------------------------
\* s becomes t: some activations end and u begins, or some activations end.
Extends(s, t, u) ==
  \E n \in 0..Len(s) :
    /\ Len(t) = n + 1 /\ t[n + 1].unit = u
    /\ \A i \in 1..n : t[i].unit = s[i].unit

Shortens(s, t) ==
  \E n \in 0..Len(s) - 1 : Len(t) = n /\ \A i \in 1..n : t[i].unit = s[i].unit

KeepsHost(s, t) == t # <<>> => t[1].back = s[1].back

\* A prefix of a stack is a stack with the same activations.
LEMMA PrefixFacts ==
  ASSUME NEW s \in Seq(Frames), NEW n \in 0..Len(s)
  PROVE  /\ SubSeq(s, 1, n) \in Seq(Frames) /\ Len(SubSeq(s, 1, n)) = n
         /\ \A i \in 1..n : SubSeq(s, 1, n)[i] = s[i]
<1>1. \A i \in 1..n : s[i] \in Frames
  BY ElementOfSeq
<1>2. n \in Nat /\ Len(s) \in Nat
  BY LenProperties
<1>. QED
  BY <1>1, <1>2, SubSeqProperties

\* A prefix of s with one new activation, which keeps its way back if it is the first.
LEMMA PushOne ==
  ASSUME NEW s \in Seq(Frames), NEW n \in 0..Len(s), NEW f \in Frames,
         n = 0 => f.back = s[1].back
  PROVE  /\ Append(SubSeq(s, 1, n), f) \in Seq(Frames)
         /\ Append(SubSeq(s, 1, n), f) # <<>>
         /\ Extends(s, Append(SubSeq(s, 1, n), f), f.unit)
         /\ KeepsHost(s, Append(SubSeq(s, 1, n), f))
<1> DEFINE p == SubSeq(s, 1, n)
           t == Append(p, f)
<1>1. p \in Seq(Frames) /\ Len(p) = n /\ \A i \in 1..n : p[i] = s[i]
  BY PrefixFacts
<1> HIDE DEF p
<1>2. t \in Seq(Frames) /\ t # <<>> /\ Len(t) = n + 1 /\ t[n + 1] = f /\ \A i \in 1..n : t[i] = p[i]
  BY <1>1, AppendProperties
<1> HIDE DEF t
<1>3. t[1].back = s[1].back
  BY <1>1, <1>2
<1>4. Extends(s, t, f.unit)
  BY <1>1, <1>2 DEF Extends
<1>. QED
  BY <1>2, <1>3, <1>4 DEF KeepsHost, t, p

\* The running activation is changed, but stays at its unit, and one begins on top.
LEMMA PushTwo ==
  ASSUME NEW s \in Seq(Frames), s # <<>>, NEW f \in Frames, NEW g \in Frames,
         f.unit = s[Len(s)].unit, f.back = s[Len(s)].back
  PROVE  LET t == Append(Append(SubSeq(s, 1, Len(s) - 1), f), g) IN
         /\ t \in Seq(Frames) /\ t # <<>>
         /\ Extends(s, t, g.unit) /\ KeepsHost(s, t)
<1> DEFINE n == Len(s)
           p == SubSeq(s, 1, n - 1)
           q == Append(p, f)
           t == Append(q, g)
<1>0. n \in Nat \ {0}
  BY EmptySeq
<1>1. p \in Seq(Frames) /\ Len(p) = n - 1 /\ \A i \in 1..n - 1 : p[i] = s[i]
  <2>1. n - 1 \in 0..Len(s)
    BY <1>0
  <2> HIDE DEF n
  <2>. QED
    BY <2>1, PrefixFacts
<1> HIDE DEF n
<1> HIDE DEF p
<1>2. q \in Seq(Frames) /\ Len(q) = n /\ q[n] = f /\ \A i \in 1..n - 1 : q[i] = p[i]
  BY <1>0, <1>1, AppendProperties
<1> HIDE DEF q
<1>3. t \in Seq(Frames) /\ t # <<>> /\ Len(t) = n + 1 /\ t[n + 1] = g /\ \A i \in 1..n : t[i] = q[i]
  BY <1>2, AppendProperties
<1> HIDE DEF t
<1>4. \A i \in 1..n : t[i].unit = s[i].unit /\ t[i].back = s[i].back
  <2>1. f.unit = s[n].unit /\ f.back = s[n].back
    BY DEF n
  <2> TAKE i \in 1..n
  <2>2. t[i] = q[i]
    BY <1>3
  <2>3. CASE i = n
    BY <1>2, <2>1, <2>2, <2>3
  <2>4. CASE i # n
    <3>1. i \in 1..n - 1
      BY <1>0, <2>4
    <3>. QED
      BY <1>1, <1>2, <2>2, <3>1
  <2>. QED
    BY <2>3, <2>4
<1>5. Extends(s, t, g.unit)
  BY <1>0, <1>3, <1>4 DEF Extends, n
<1>6. KeepsHost(s, t)
  <2>1. 1 \in 1..n
    BY <1>0
  <2>. QED
    BY <1>4, <2>1 DEF KeepsHost
<1>7. t = Append(Append(SubSeq(s, 1, Len(s) - 1), f), g)
  BY DEF t, q, p, n
<1>. QED
  BY <1>3, <1>5, <1>6, <1>7

-----------------------------------------------------------------------------
\* The transfers of the program have the fields the guest reads.
LEMMA GuestTransfer ==
  ASSUME EInv, NEW u \in Units
  PROVE  /\ program[u] \in Transfers
         /\ program[u].fault.unwind \in Seq(Addresses)
         /\ program[u].fault.handler \in Addresses /\ program[u].fault.resume \in Addresses
<1>1. program[u] \in Transfers
  BY ClosureAssumption DEF EInv, IInv, ClosureAssumption
<1>. QED
  BY <1>1 DEF Transfers, Faults

\* Where the guest is inside the closure, every activation is at a unit.
LEMMA ReachedUnits ==
  ASSUME EInv, MayReach PROVE \A i \in 1..Len(stack) : stack[i].unit \in Units
<1>1. Reached \subseteq Units
  BY DEF EInv, IInv, Reached
<1>2. DOMAIN stack = 1..Len(stack)
  BY LenProperties DEF EInv, GuestType
<1>. QED
  BY <1>1, <1>2 DEF MayReach

\* A new activation is a frame at its unit.
LEMMA FrameType ==
  ASSUME NEW u \in Names, NEW c \in FrameContexts, NEW b \in {"host", "caller", "fault"}
  PROVE  Frame(u, c, b) \in Frames /\ Frame(u, c, b).unit = u /\ Frame(u, c, b).back = b
BY DEF Frame, Frames

\* The context of a root is a context.
LEMMA GuestRootContext ==
  ASSUME NEW r \in Names, NEW e \in Names PROVE RootContext(r, e) \in FrameContexts
BY EmptySeq DEF RootContext, FrameContexts

\* A sequence of one element.
LEMMA SingletonType ==
  ASSUME NEW S, NEW x \in S PROVE <<x>> \in Seq(S)
OBVIOUS

\* The context of an unwind function is a context.
LEMMA GuestUnwindContext ==
  ASSUME EInv, NEW c \in FrameContexts, NEW u \in Units,
         NEW i \in 1..Len(program[u].fault.unwind)
  PROVE  UnwindContext(c, u, i) \in FrameContexts
<1>1. program[u].fault.unwind[i] \in Addresses
  BY GuestTransfer, ElementOfSeq
<1>2. <<u, i>> \in Names \X Nat
  BY DEF Names, Addresses
<1>3. <<<<u, i>>>> \in Seq(Names \X Nat)
  BY <1>2, SingletonType
<1>. QED
  BY <1>1, <1>3 DEF UnwindContext, FrameContexts, Names

\* The context of a callee, whose call string is cut off, is a context.
LEMMA GuestChildContext ==
  ASSUME NEW c \in FrameContexts, NEW g \in Names, NEW u \in Names
  PROVE  Child(c, g, u) \in FrameContexts
<1> DEFINE s == Append(c.string, <<u, 0>>)
<1>1. c.string \in Seq(Names \X Nat) /\ c.root \in Names
  BY DEF FrameContexts
<1>2. s \in Seq(Names \X Nat)
  BY <1>1, AppendProperties
<1> HIDE DEF s
<1>3. Suffix(s) \in Seq(Names \X Nat)
  <2>1. CASE Len(s) <= CallStringLimit
    BY <1>2, <2>1 DEF Suffix
  <2>2. CASE ~(Len(s) <= CallStringLimit)
    <3>1. Len(s) \in Nat /\ CallStringLimit \in Nat
      BY <1>2, LenProperties, ClosureAssumption DEF ClosureAssumption
    <3>2. \A i \in Len(s) - CallStringLimit + 1..Len(s) : s[i] \in Names \X Nat
      BY <1>2, <2>2, <3>1, ElementOfSeq
    <3>3. SubSeq(s, Len(s) - CallStringLimit + 1, Len(s)) \in Seq(Names \X Nat)
      BY <3>1, <3>2, SubSeqProperties
    <3>. QED
      BY <2>2, <3>3 DEF Suffix
  <2>. QED
    BY <2>1, <2>2
<1>. QED
  BY <1>1, <1>3 DEF Child, FrameContexts, s

\* An activation ends, in a fault or in a function that a fault runs.
LEMMA AfterFaultFacts ==
  ASSUME EInv, NEW s \in Seq(Frames), s # <<>>, s[Len(s)].unit \in Units
  PROVE  /\ AfterFault(s) \in Seq(Frames) /\ AfterFault(s) # <<>>
         /\ Extends(s, AfterFault(s), FaultMove(s).target) /\ KeepsHost(s, AfterFault(s))
<1> DEFINE faulted == s[Len(s)]
           fault == program[faulted.unit].fault
           n == Len(fault.unwind)
           i == faulted.unwound
           root == faulted.context.root
           h == Frame(fault.handler, RootContext(root, fault.handler), "fault")
<1>1. Len(s) \in Nat \ {0} /\ faulted \in Frames
  BY EmptySeq, ElementOfSeq
<1>2. i \in Nat /\ faulted.context \in FrameContexts /\ root \in Names
      /\ faulted.back \in {"host", "caller", "fault"}
  BY <1>1 DEF Frames, FrameContexts
<1>3. n \in Nat /\ fault.handler \in Names /\ fault.resume \in Names
  BY GuestTransfer, LenProperties DEF Names
<1>4. Len(s) - 1 \in 0..Len(s) /\ (Len(s) - 1 = 0 => faulted.back = s[1].back)
  BY <1>1
<1> DEFINE again == [faulted EXCEPT !.unwound = i + 1]
<1>5. again \in Frames /\ again.unit = faulted.unit /\ again.back = faulted.back
  BY <1>1, <1>2 DEF Frames
<1>6. h \in Frames /\ h.unit = fault.handler
  BY <1>2, <1>3, GuestRootContext, FrameType
<1>7. CASE i < n
  <2> DEFINE g == Frame(fault.unwind[i + 1], UnwindContext(faulted.context, faulted.unit, i + 1), "fault")
  <2>1. i + 1 \in 1..n
    BY <1>2, <1>3, <1>7
  <2>2. fault.unwind[i + 1] \in Names
    BY <2>1, GuestTransfer, ElementOfSeq DEF Names
  <2>3. g \in Frames /\ g.unit = fault.unwind[i + 1]
    <3>1. UnwindContext(faulted.context, faulted.unit, i + 1) \in FrameContexts
      BY <1>2, <2>1, GuestUnwindContext
    <3> HIDE DEF faulted, fault, i
    <3>. QED
      BY <2>2, <3>1, FrameType
  <2>0. i + 1 <= n
    BY <2>1, <1>3
  <2>4. AfterFault(s) = Append(Append(SubSeq(s, 1, Len(s) - 1), again), g)
    BY <2>0, Zenon DEF AfterFault
  <2>5. FaultMove(s).target = fault.unwind[i + 1]
    BY <1>2, <1>3, <1>7 DEF FaultMove, Move
  <2> HIDE DEF faulted, fault, n, i, again, g, root, h
  <2>. QED
    BY <1>5, <2>3, <2>4, <2>5, PushTwo DEF faulted
<1>8. CASE i = n /\ fault.resume # Outside
  <2>0. ~(i + 1 <= n) /\ i + 1 = n + 1
    <3>1. i = n
      BY <1>8
    <3> HIDE DEF i, n
    <3>. QED
      BY <1>2, <1>3, <3>1
  <2>1. AfterFault(s) = Append(Append(SubSeq(s, 1, Len(s) - 1), again), h)
    BY <2>0, <1>8, Zenon DEF AfterFault
  <2>2. FaultMove(s).target = fault.handler
    BY <1>2, <1>3, <1>8 DEF FaultMove, Move
  <2> HIDE DEF faulted, fault, n, i, again, root, h
  <2>. QED
    BY <1>5, <1>6, <2>1, <2>2, PushTwo DEF faulted
<1>9. CASE i = n /\ fault.resume = Outside
  <2>0. ~(i + 1 <= n) /\ i + 1 = n + 1
    <3>1. i = n
      BY <1>9
    <3> HIDE DEF i, n
    <3>. QED
      BY <1>2, <1>3, <3>1
  <2> DEFINE g == [h EXCEPT !.back = faulted.back]
  <2>1. g \in Frames /\ g.unit = fault.handler /\ g.back = faulted.back
    BY <1>2, <1>6 DEF Frames
  <2>2. AfterFault(s) = Append(SubSeq(s, 1, Len(s) - 1), g)
    BY <2>0, <1>9, Zenon DEF AfterFault
  <2>3. FaultMove(s).target = fault.handler
    BY <1>2, <1>3, <1>9 DEF FaultMove, Move
  <2> HIDE DEF faulted, fault, n, i, again, g, root, h
  <2>. QED
    BY <1>4, <2>1, <2>2, <2>3, PushOne
<1>10. CASE i > n
  <2>0. ~(i + 1 <= n) /\ i + 1 # n + 1
    BY <1>2, <1>3, <1>10
  <2> DEFINE g == Frame(fault.resume, RootContext(root, fault.resume), faulted.back)
  <2>1. g \in Frames /\ g.unit = fault.resume /\ g.back = faulted.back
    BY <1>2, <1>3, GuestRootContext, FrameType
  <2>2. AfterFault(s) = Append(SubSeq(s, 1, Len(s) - 1), g)
    BY <2>0, Zenon DEF AfterFault
  <2>3. FaultMove(s).target = fault.resume
    BY <1>2, <1>3, <1>10 DEF FaultMove, Move
  <2> HIDE DEF faulted, fault, n, i, again, g, root, h
  <2>. QED
    BY <1>4, <2>1, <2>2, <2>3, PushOne
<1>. QED
  BY <1>2, <1>3, <1>7, <1>8, <1>9, <1>10

-----------------------------------------------------------------------------
\* What a running guest is made of.
LEMMA RunningFacts ==
  ASSUME EInv, MayReach, Running
  PROVE  /\ stack \in Seq(Frames) /\ Len(stack) \in Nat \ {0}
         /\ Top \in Frames /\ Top.unit \in Units /\ T \in Transfers
         /\ RegNow \in Names /\ CellNow \in Names
<1>1. stack \in Seq(Frames) /\ Len(stack) \in Nat \ {0}
  BY EmptySeq DEF EInv, GuestType, Running
<1>2. Top \in Frames /\ Top.unit \in Units
  BY <1>1, ElementOfSeq, ReachedUnits DEF Top
<1>3. T \in Transfers
  BY <1>2, GuestTransfer DEF T
<1>4. T.value \in Names
  BY <1>3 DEF Transfers, Names
<1>. QED
  BY <1>1, <1>2, <1>3, <1>4 DEF RegNow, CellNow, EInv, GuestType

\* What a step of the guest does to its activations.
StackStep ==
  /\ stack' \in Seq(Frames) /\ KeepsHost(stack, stack')
  /\ \/ move' # NoMove /\ Extends(stack, stack', move'.target)
     \/ Shortens(stack, stack')

\* A move that names a kind is a move.
LEMMA MoveFacts ==
  ASSUME NEW so, NEW ta, NEW ki, ki # "none"
  PROVE  Move(so, ta, ki) # NoMove /\ Move(so, ta, ki).target = ta
BY DEF Move, NoMove

\* Every step of a fault takes an edge.
LEMMA FaultMoves == ASSUME NEW s PROVE FaultMove(s) # NoMove
<1>1. FaultMove(s).kind \in {"exception_unwind", "exception_handler", "exception_resumption"}
  BY DEF FaultMove, Move
<1>2. NoMove.kind = "none"
  BY DEF NoMove
<1>. QED
  BY <1>1, <1>2

\* To go on in the same activation extends the stack below it.
LEMMA GotoSteps ==
  ASSUME EInv, MayReach, Running, NEW u \in Names, NEW ki, ki # "none", Goto(u, ki)
  PROVE  StackStep
<1> DEFINE f == [Top EXCEPT !.unit = u, !.called = FALSE]
<1>1. f \in Frames /\ f.unit = u /\ f.back = Top.back
  BY RunningFacts DEF Frames
<1>2. Len(stack) - 1 \in 0..Len(stack) /\ (Len(stack) - 1 = 0 => Top.back = stack[1].back)
  BY RunningFacts DEF Top
<1>3. stack' = Append(SubSeq(stack, 1, Len(stack) - 1), f)
  BY DEF Goto, Rest
<1>4. move' # NoMove /\ move'.target = u
  BY MoveFacts DEF Goto
<1> HIDE DEF f
<1>. QED
  BY <1>1, <1>2, <1>3, <1>4, PushOne, RunningFacts DEF StackStep

\* A call adds the activation of its callee.
LEMMA CallSteps == ASSUME EInv, MayReach, Call PROVE StackStep
<1> DEFINE g == IF T.call = "direct" THEN T.target ELSE RegNow
           f == [Top EXCEPT !.called = TRUE]
           c == Frame(g, Child(Top.context, g, Top.unit), "caller")
<1>1. Running
  BY DEF Call
<1>2. f \in Frames /\ f.unit = Top.unit /\ f.back = Top.back
  BY <1>1, RunningFacts DEF Frames
<1>3. g \in Names
  BY <1>1, RunningFacts DEF Transfers, Names
<1>4. c \in Frames /\ c.unit = g
  <2>1. Top.context \in FrameContexts /\ Top.unit \in Names
    BY <1>1, RunningFacts DEF Frames
  <2> HIDE DEF g
  <2>. QED
    BY <1>3, <2>1, GuestChildContext, FrameType
<1>5. stack' = Append(Append(SubSeq(stack, 1, Len(stack) - 1), f), c)
  BY DEF Call, Rest
<1>6. move' # NoMove /\ move'.target = g
  BY MoveFacts DEF Call
<1> HIDE DEF f, g, c
<1>. QED
  BY <1>1, <1>2, <1>4, <1>5, <1>6, PushTwo, RunningFacts DEF StackStep, Top, Running

\* A jump or branch moves the running activation.
LEMMA AdvanceSteps == ASSUME EInv, MayReach, Advance PROVE StackStep
<1>1. Running
  BY DEF Advance
<1>2. CASE \E i \in DOMAIN T.to : Goto(T.to[i], "direct_control")
  <2>1. PICK i \in DOMAIN T.to : Goto(T.to[i], "direct_control")
    BY <1>2
  <2>2. T.to \in Seq(Addresses)
    BY <1>1, RunningFacts DEF Transfers
  <2>3. T.to[i] \in Names
    BY <2>2, LenProperties, ElementOfSeq DEF Names
  <2>. QED
    BY <1>1, <2>1, <2>3, GotoSteps
<1>3. CASE Goto(RegNow, "indirect_control")
  BY <1>1, <1>3, GotoSteps, RunningFacts
<1>. QED
  BY <1>2, <1>3 DEF Advance

\* The end of the running activation shortens the stack.
LEMMA RestFacts ==
  ASSUME EInv, MayReach, Running
  PROVE  /\ Rest \in Seq(Frames) /\ Len(Rest) = Len(stack) - 1
         /\ \A i \in 1..Len(Rest) : Rest[i] = stack[i]
<1>1. Len(stack) - 1 \in 0..Len(stack) /\ stack \in Seq(Frames)
  BY RunningFacts
<1>. QED
  BY <1>1, PrefixFacts DEF Rest

\* A return ends an activation or goes on with the fault it belongs to.
LEMMA ReturnSteps == ASSUME EInv, MayReach, Return PROVE StackStep
<1>1. Running /\ Len(stack) \in Nat \ {0}
  BY RunningFacts DEF Return
<1>2. CASE Top.back = "fault"
  <2>1. stack' = AfterFault(Rest) /\ move' = FaultMove(Rest)
    BY <1>2 DEF Return
  <2>2. Len(stack) # 1
    BY <1>1, <1>2 DEF EInv, GuestType, Top, Running
  <2>3. Rest # <<>> /\ Len(Rest) \in Nat \ {0}
    BY <1>1, <2>2, RestFacts, EmptySeq
  <2>4. Rest[Len(Rest)].unit \in Units
    BY <1>1, <2>3, RestFacts, ReachedUnits
  <2>5. /\ AfterFault(Rest) \in Seq(Frames)
        /\ Extends(Rest, AfterFault(Rest), FaultMove(Rest).target)
        /\ KeepsHost(Rest, AfterFault(Rest))
    BY <1>1, <2>3, <2>4, RestFacts, AfterFaultFacts
  <2>6. Extends(stack, stack', move'.target)
    BY <1>1, <2>1, <2>5, RestFacts DEF Extends
  <2>7. KeepsHost(stack, stack')
    BY <1>1, <2>1, <2>3, <2>5, RestFacts DEF KeepsHost
  <2>. QED
    BY <2>1, <2>5, <2>6, <2>7, FaultMoves DEF StackStep
<1>3. CASE Top.back # "fault"
  <2>1. stack' = Rest
    BY <1>3 DEF Return
  <2>2. Shortens(stack, stack')
    BY <1>1, <2>1, RestFacts DEF Shortens
  <2>3. KeepsHost(stack, stack')
    BY <1>1, <2>1, RestFacts, EmptySeq DEF KeepsHost
  <2>. QED
    BY <1>1, <2>1, <2>2, <2>3, RestFacts DEF StackStep
<1>. QED
  BY <1>2, <1>3

\* A fault begins an unwind function, the handler or the resumption.
LEMMA FaultSteps == ASSUME EInv, MayReach, Fault PROVE StackStep
<1>1. Running /\ stack # <<>>
  BY DEF Fault, Running
<1>2. stack \in Seq(Frames) /\ stack[Len(stack)].unit \in Units
  BY <1>1, RunningFacts DEF Top
<1>3. stack' = AfterFault(stack) /\ move' = FaultMove(stack)
  BY DEF Fault
<1>. QED
  BY <1>1, <1>2, <1>3, AfterFaultFacts, FaultMoves DEF StackStep

\* A nonlocal transfer ends the activations above the one it lands in.
LEMMA NonlocallySteps == ASSUME EInv, MayReach, Nonlocally PROVE StackStep
<1>1. Running /\ stack \in Seq(Frames) /\ Len(stack) \in Nat \ {0} /\ RegNow \in Names
  BY RunningFacts DEF Nonlocally
<1>2. PICK i \in Landings :
        stack' = Append(SubSeq(stack, 1, i - 1), [stack[i] EXCEPT !.unit = RegNow, !.called = FALSE])
  BY DEF Nonlocally
<1>3. i \in 1..Len(stack) /\ i - 1 \in 0..Len(stack)
  BY <1>1 DEF Landings
<1> DEFINE f == [stack[i] EXCEPT !.unit = RegNow, !.called = FALSE]
<1>4. f \in Frames /\ f.unit = RegNow /\ f.back = stack[i].back
  <2>1. stack[i] \in Frames
    BY <1>1, <1>3, ElementOfSeq
  <2>. QED
    BY <1>1, <2>1 DEF Frames
<1>5. move' # NoMove /\ move'.target = RegNow
  BY MoveFacts DEF Nonlocally
<1>6. i - 1 = 0 => f.back = stack[1].back
  BY <1>3, <1>4
<1> HIDE DEF f
<1>. QED
  BY <1>1, <1>2, <1>3, <1>4, <1>5, <1>6, PushOne DEF StackStep, f

\* The end of the guest empties the stack.
LEMMA LeaveSteps == ASSUME EInv, MayReach, Leave PROVE StackStep
<1>1. Running /\ Len(stack) \in Nat \ {0}
  BY RunningFacts DEF Leave
<1>2. stack' = <<>>
  BY DEF Leave
<1>3. Shortens(stack, stack')
  BY <1>1, <1>2, EmptySeq DEF Shortens
<1>. QED
  BY <1>2, <1>3, EmptySeq DEF StackStep, KeepsHost

-----------------------------------------------------------------------------
\* Execution starts with an empty stack before a decision.
LEMMA InitEInv == AllInit => EInv
<1> SUFFICES ASSUME AllInit PROVE EInv
  OBVIOUS
<1>1. IInv
  BY InitIInv DEF AllInit
<1>2. Other \in Names /\ cell \in Names
  <2>1. cell \in InitialCell /\ InitialCell \subseteq Atoms \cup Unknown
    BY ClosureAssumption DEF AllInit, GuestInit, ClosureAssumption, Values
  <2>. QED
    BY <2>1 DEF Names, Unknown
<1>. QED
  BY <1>1, <1>2, EmptySeq DEF AllInit, GuestInit, EInv, GuestType, Callbacks, Running

\* A callback is given away with the edge that leads to it.
LEMMA GivenGrows ==
  ASSUME EInv, MayReach, Running, registered' \in {registered, Registered}
  PROVE  registered' \subseteq Given /\ Callbacks'
<1> DEFINE x == Entrance(RegNow, CellNow, Move(Top.unit, RegNow, "callback_escape"))
<1>1. registered' \subseteq registered \cup (IF RegNow \in Units THEN {x} ELSE {})
  BY DEF Registered
<1>2. RegNow \in Units => x \in Given /\ x.edge.target = x.unit /\ x.edge.kind = "callback_escape"
  <2> SUFFICES ASSUME RegNow \in Units
               PROVE  x \in Given /\ x.edge.target = x.unit /\ x.edge.kind = "callback_escape"
    OBVIOUS
  <2>1. CellNow \in Names /\ Top.unit \in Names
    BY RunningFacts DEF Frames
  <2>2. Move(Top.unit, RegNow, "callback_escape") \in [source : Names, target : Units, kind : {"callback_escape"}]
    BY <2>1 DEF Move
  <2>3. x.edge = Move(Top.unit, RegNow, "callback_escape") /\ x.unit = RegNow
    BY DEF Entrance
  <2>4. x \in Given
    BY <2>1, <2>2 DEF Entrance, Given
  <2>. QED
    BY <2>3, <2>4 DEF Move
<1>. QED
  BY <1>1, <1>2 DEF EInv, GuestType, Callbacks

\* The steps of a guest that runs leave the closure alone.
Moves == Call \/ Advance \/ Return \/ Fault \/ Nonlocally \/ Leave

\* The steps of the guest keep the invariant.
LEMMA MovesKeepEInv ==
  ASSUME EInv, MayReach, Moves PROVE EInv' /\ StackStep /\ Running /\ UNCHANGED <<vars, first>>
<1>1. Running /\ UNCHANGED <<vars, entries, first>>
  BY DEF Moves, Call, Advance, Return, Fault, Nonlocally, Leave
<1>2. reg' = RegNow /\ cell' = CellNow /\ registered' \in {registered, Registered}
  BY DEF Moves, Call, Advance, Return, Fault, Nonlocally, Leave
<1>3. StackStep
  BY CallSteps, AdvanceSteps, ReturnSteps, FaultSteps, NonlocallySteps, LeaveSteps DEF Moves
<1>4. IInv'
  BY <1>1, DecideKeepsIInv DEF EInv
<1>5. GuestType' /\ Callbacks'
  BY <1>1, <1>2, <1>3, GivenGrows, RunningFacts DEF EInv, GuestType, StackStep, KeepsHost, Running
<1>6. first = <<>> /\ verdict = "complete" /\ entries # 0 /\ entries \in Nat
  BY <1>1 DEF EInv
<1>. QED
  BY <1>1, <1>3, <1>4, <1>5, <1>6 DEF EInv, vars

\* The host enters under a complete decision only.
LEMMA EnterKeepsEInv ==
  ASSUME EInv, NEW x \in Entrances, Enter(x) PROVE EInv'
<1>1. x.unit \in Units
  BY ClosureAssumption DEF Entrances, Entrance, EInv, GuestType, Given, ClosureAssumption
<1>2. Frame(x.unit, RootContext(x.unit, x.unit), "host") \in Frames
  BY <1>1, GuestRootContext, FrameType DEF Names, Addresses
<1>3. stack' \in Seq(Frames) /\ stack'[1].back = "host"
  BY <1>2, SingletonType DEF Enter, Frame
<1>4. IInv'
  BY DecideKeepsIInv DEF Enter, EInv
<1>5. GuestType' /\ Callbacks'
  BY <1>3 DEF Enter, EInv, GuestType, Callbacks, Names, Unknown
<1>6. UNCHANGED verdict
  BY DEF Enter, vars
<1>7. entries' \in Nat /\ entries' # 0 /\ first' = <<>> /\ verdict = "complete"
  BY DEF Enter, EInv
<1>. QED
  BY <1>4, <1>5, <1>6, <1>7 DEF EInv

\* The construction goes on only while nothing runs.
LEMMA AnalysisKeepsEInv ==
  ASSUME EInv, Analysis \/ UNCHANGED allVars PROVE EInv'
<1>1. [Next]_vars /\ UNCHANGED <<guest, first>>
  BY DEF Analysis, allVars
<1>2. IInv'
  BY <1>1, NextKeepsIInv DEF EInv
<1>3. Running => UNCHANGED verdict
  BY <1>1 DEF EInv, Next, Visit, Flush, Decide, vars
<1>. QED
  BY <1>1, <1>2, <1>3 DEF EInv, GuestType, Callbacks, Running, guest

\* A replay begins before the guest has run.
LEMMA ReplayKeepsEInv == ASSUME EInv, Replay PROVE EInv'
<1>1. RootKeys' = RootKeys /\ RootStates' = RootStates
  BY DEF RootKeys, RootStates
<1>2. DOMAIN states' = RootKeys
  BY DEF Replay, RootStates
<1>3. \A key \in RootKeys : key[1] \in Roots /\ key[2].entry = key[1] /\ key = <<key[1], key[2]>>
  BY DEF RootKeys, RootContext
<1>4. Reached' = Roots
  <2>1. \A r \in Roots : <<r, RootContext(r, r)>> \in RootKeys
    BY DEF RootKeys
  <2>. QED
    BY <1>2, <1>3, <2>1 DEF Reached
<1>5. Roots \subseteq Units
  BY ClosureAssumption DEF ClosureAssumption
<1>6. IInv'
  BY <1>1, <1>2, <1>3, <1>4, <1>5 DEF Replay, EInv, IInv, Grounded, Entered
<1>7. GuestType' /\ Callbacks' /\ ~Running' /\ entries' \in Nat
  BY DEF Replay, EInv, GuestType, Callbacks, guest, Running
<1>. QED
  BY <1>6, <1>7 DEF EInv

\* EInv is inductive as long as the guest stays within reach.
LEMMA NextKeepsEInv ==
  ASSUME EInv, MayReach, [AllNext]_allVars PROVE EInv'
BY MovesKeepEInv, EnterKeepsEInv, AnalysisKeepsEInv, ReplayKeepsEInv DEF AllNext, Execution, Moves

-----------------------------------------------------------------------------
ActivationUnits(s) == [i \in DOMAIN s |-> s[i].unit]

\* The units of the activations are a sequence as long as the stack.
LEMMA UnitsOf ==
  ASSUME NEW s \in Seq(Frames)
  PROVE  /\ ActivationUnits(s) \in Seq(Names) /\ Len(ActivationUnits(s)) = Len(s)
         /\ \A i \in 1..Len(s) : ActivationUnits(s)[i] = s[i].unit
<1>1. Len(s) \in Nat /\ DOMAIN s = 1..Len(s) /\ \A i \in 1..Len(s) : s[i].unit \in Names
  <2>1. \A i \in 1..Len(s) : s[i] \in Frames
    BY ElementOfSeq
  <2>. QED
    BY <2>1, LenProperties DEF Frames
<1>2. ActivationUnits(s) \in [1..Len(s) -> Names]
  BY <1>1 DEF ActivationUnits
<1>3. ActivationUnits(s) \in Seq(Names)
  BY <1>1, <1>2, SeqDef
<1>. QED
  BY <1>1, <1>2, <1>3, LenProperties DEF ActivationUnits

\* A step of the guest that extends its activations follows an edge.
LEMMA ExtensionFollows ==
  ASSUME NEW s \in Seq(Frames), NEW t \in Seq(Frames), NEW u \in Names, Extends(s, t, u)
  PROVE  \E n \in 0..Len(ActivationUnits(s)) : ActivationUnits(t) = Append(SubSeq(ActivationUnits(s), 1, n), u)
<1>1. PICK n \in 0..Len(s) :
        /\ Len(t) = n + 1 /\ t[n + 1].unit = u
        /\ \A i \in 1..n : t[i].unit = s[i].unit
  BY DEF Extends
<1>2. n \in Nat /\ Len(s) \in Nat
  BY LenProperties
<1> DEFINE p == SubSeq(ActivationUnits(s), 1, n)
<1>3. p \in Seq(Names) /\ Len(p) = n /\ \A i \in 1..n : p[i] = s[i].unit
  <2>1. \A i \in 1..n : ActivationUnits(s)[i] \in Names /\ ActivationUnits(s)[i] = s[i].unit
    BY <1>2, UnitsOf, ElementOfSeq
  <2>. QED
    BY <1>2, <2>1, SubSeqProperties
<1> HIDE DEF p
<1>4. /\ Append(p, u) \in Seq(Names) /\ Len(Append(p, u)) = n + 1
      /\ Append(p, u)[n + 1] = u /\ \A i \in 1..n : Append(p, u)[i] = p[i]
  BY <1>3, AppendProperties
<1>5. ActivationUnits(t) = Append(p, u)
  <2>1. ASSUME NEW i \in 1..n + 1
        PROVE  ActivationUnits(t)[i] = Append(p, u)[i]
    <3>1. ActivationUnits(t)[i] = t[i].unit
      BY <1>1, UnitsOf
    <3>2. CASE i = n + 1
      BY <1>1, <1>4, <3>1, <3>2
    <3>3. CASE i # n + 1
      <4>1. i \in 1..n
        BY <1>2, <3>3
      <4>2. QED
        BY <1>1, <1>3, <1>4, <3>1, <4>1
    <3>4. QED
      BY <3>2, <3>3
  <2>. QED
    BY <1>1, <1>4, <2>1, UnitsOf, SeqEqual
<1>. QED
  BY <1>5, UnitsOf DEF p

\* To shorten the stack is to end some activations.
LEMMA ShorteningEnds ==
  ASSUME NEW s \in Seq(Frames), NEW t \in Seq(Frames), Shortens(s, t)
  PROVE  \E n \in 0..Len(ActivationUnits(s)) - 1 : ActivationUnits(t) = SubSeq(ActivationUnits(s), 1, n)
<1>1. PICK n \in 0..Len(s) - 1 : Len(t) = n /\ \A i \in 1..n : t[i].unit = s[i].unit
  BY DEF Shortens
<1>2. n \in Nat /\ Len(s) \in Nat
  BY LenProperties
<1> DEFINE p == SubSeq(ActivationUnits(s), 1, n)
<1>3. p \in Seq(Names) /\ Len(p) = n /\ \A i \in 1..n : p[i] = s[i].unit
  <2>1. \A i \in 1..n : ActivationUnits(s)[i] \in Names /\ ActivationUnits(s)[i] = s[i].unit
    BY <1>2, UnitsOf, ElementOfSeq
  <2>. QED
    BY <1>2, <2>1, SubSeqProperties
<1> HIDE DEF p
<1>4. ActivationUnits(t) = p
  <2>1. ActivationUnits(t) \in Seq(Names) /\ Len(ActivationUnits(t)) = n
    BY <1>1, UnitsOf
  <2>2. \A i \in 1..n : ActivationUnits(t)[i] = p[i]
    BY <1>1, <1>3, UnitsOf
  <2>. QED
    BY <1>3, <2>1, <2>2, SeqEqual
<1>. QED
  BY <1>4, UnitsOf DEF p

-----------------------------------------------------------------------------
\* The steps of the guest follow an edge or end activations.
LEMMA MovesAreAuthorized ==
  ASSUME EInv, MayReach, MayReach', Moves PROVE Authority!Next
<1>1. StackStep /\ Running /\ UNCHANGED <<states, edges, verdict, first>>
  BY MovesKeepEInv DEF vars, results
<1>2. first = <<>> /\ stack \in Seq(Frames) /\ stack' \in Seq(Frames)
  BY <1>1 DEF EInv, GuestType, StackStep
<1>3. CASE move' # NoMove /\ Extends(stack, stack', move'.target)
  <2>1. move' \in edges
    BY <1>1, <1>3 DEF MayReach
  <2>2. move'.target \in Names
    BY <2>1 DEF EInv, IInv, Grounded, Reached, Names, Addresses
  <2>3. \E n \in 0..Len(ActivationUnits(stack)) :
           ActivationUnits(stack') = Append(SubSeq(ActivationUnits(stack), 1, n), move'.target)
    BY <1>2, <1>3, <2>2, ExtensionFollows
  <2>4. ActivationUnits(stack) # <<>>
    BY <1>1, <1>2, UnitsOf, EmptySeq DEF Running
  <2>. QED
    BY <1>1, <1>2, <2>1, <2>3, <2>4
       DEF Authority!Next, Authority!Follow, ActivationUnits, Reached
<1>4. CASE Shortens(stack, stack')
  <2>1. \E n \in 0..Len(ActivationUnits(stack)) - 1 : ActivationUnits(stack') = SubSeq(ActivationUnits(stack), 1, n)
    BY <1>2, <1>4, ShorteningEnds
  <2>. QED
    BY <1>1, <1>2, <2>1 DEF Authority!Next, Authority!EndSome, ActivationUnits, Reached
<1>. QED
  BY <1>1, <1>3, <1>4 DEF StackStep

\* The host enters at an entrance of the authority.
LEMMA EnterIsAuthorized ==
  ASSUME EInv, MayReach', NEW x \in Entrances, Enter(x) PROVE Authority!Enter
<1>1. UNCHANGED <<states, edges, verdict, first>> /\ first = <<>> /\ verdict = "complete"
      /\ stack = <<>>
  BY DEF Enter, vars, results, Running
<1>2. ActivationUnits(stack) = <<>>
  BY <1>1 DEF ActivationUnits
<1>3. ActivationUnits(stack') = <<x.unit>>
  <2>1. stack' = <<Frame(x.unit, RootContext(x.unit, x.unit), "host")>>
    BY DEF Enter
  <2>2. Frame(x.unit, RootContext(x.unit, x.unit), "host").unit = x.unit
    BY DEF Frame
  <2>. QED
    BY <2>1, <2>2 DEF ActivationUnits
<1>4. x.unit \in Authority!Entrances
  <2>1. CASE x.unit \in Roots
    BY <2>1 DEF Authority!Entrances
  <2>2. CASE x \in registered
    <3>1. x.edge.target = x.unit /\ x.edge.kind = "callback_escape"
      BY <2>2 DEF EInv, Callbacks
    <3>2. move' = x.edge /\ x.edge # NoMove
      BY <3>1 DEF Enter, NoMove
    <3>3. x.edge \in edges
      BY <1>1, <3>2 DEF MayReach
    <3>. QED
      BY <1>1, <3>1, <3>3 DEF Authority!Entrances
  <2>. QED
    BY <2>1, <2>2 DEF Entrances, Entrance
<1>. QED
  BY <1>1, <1>2, <1>3, <1>4 DEF Authority!Enter, ActivationUnits, Reached

\* The construction discovers or decides; a replay stutters.
LEMMA AnalysisIsAuthorized ==
  ASSUME EInv, Analysis \/ UNCHANGED allVars
  PROVE  [Authority!Next]_(Authority!vars)
<1>1. [Next]_vars /\ UNCHANGED <<guest, first>>
  BY DEF Analysis, allVars
<1>2. UNCHANGED <<stack, first>>
  BY <1>1 DEF guest
<1>3. CASE first # <<>>
  BY <1>2, <1>3 DEF Authority!vars
<1>4. CASE first = <<>> /\ UNCHANGED vars
  BY <1>2, <1>4 DEF Authority!vars, vars, results, Reached
<1>5. CASE first = <<>> /\ Next
  <2>1. [Discovery!Next]_(Discovery!vars)
    BY <1>1, NextIsDiscovery DEF EInv
  <2>2. CASE UNCHANGED Discovery!vars
    BY <1>2, <1>5, <2>2 DEF Authority!vars, Discovery!vars
  <2>3. CASE Discovery!Discover
    BY <1>2, <1>5, <2>3 DEF Authority!Next, Authority!Discover, Discovery!Discover
  <2>4. CASE Discovery!Decide
    BY <1>2, <1>5, <2>4 DEF Authority!Next, Authority!Decide, Discovery!Decide
  <2>. QED
    BY <2>1, <2>2, <2>3, <2>4 DEF Discovery!Next, Discovery!Enter, Discovery!EndSome, Discovery!Follow
<1>. QED
  BY <1>1, <1>3, <1>4, <1>5

\* The beginning of a replay changes nothing of the authority.
LEMMA ReplayIsAuthorized ==
  ASSUME EInv, Replay PROVE UNCHANGED Authority!vars
<1>1. first = <<>> /\ first' = <<Payload>> /\ stack' = stack
  BY DEF Replay, guest
<1>2. first'[1].witnesses = DOMAIN states /\ first'[1].edges = edges /\ first'[1].verdict = verdict
  BY <1>1 DEF Payload
<1>3. first' # <<>>
  BY <1>1
<1>. QED
  BY <1>1, <1>2, <1>3 DEF Authority!vars, Reached

\* Every step of the execution is allowed by the authority.
LEMMA NextIsAuthorized ==
  ASSUME EInv, MayReach, MayReach', [AllNext]_allVars
  PROVE  [Authority!Next]_(Authority!vars)
<1>1. ASSUME NEW x \in Entrances, Enter(x) PROVE Authority!Next
  BY <1>1, EnterIsAuthorized DEF Authority!Next
<1>2. CASE Moves
  BY <1>2, MovesAreAuthorized
<1>3. CASE Analysis \/ UNCHANGED allVars
  BY <1>3, AnalysisIsAuthorized
<1>4. CASE Replay
  BY <1>4, ReplayIsAuthorized
<1>. QED
  BY <1>1, <1>2, <1>3, <1>4 DEF AllNext, Execution, Moves

\* The initial states are those of the authority.
LEMMA InitIsAuthorized == AllInit => Authority!Init
<1> SUFFICES ASSUME AllInit PROVE Authority!Init
  OBVIOUS
<1>1. Grounded
  BY InitIInv DEF AllInit, IInv
<1>. QED
  BY <1>1 DEF AllInit, GuestInit, Init, Grounded, Authority!Init

(* A guest that stays within reach of a complete closure keeps every other *)
(* promise of the authority as well: it only starts under a complete       *)
(* closure, at a root or at a callback, and each activation begins at the  *)
(* end of an edge; a replay of the closure changes no authority.           *)
THEOREM ReachIsAuthority == AllSpec /\ []MayReach => AuthorityHolds
<1>1. AllSpec /\ []MayReach => []EInv
  BY InitEInv, NextKeepsEInv, PTL DEF AllSpec
<1>2. AllSpec /\ []MayReach /\ []EInv => [][Authority!Next]_(Authority!vars)
  BY NextIsAuthorized, PTL DEF AllSpec
<1>. QED
  BY <1>1, <1>2, InitIsAuthorized, PTL DEF AllSpec, AuthorityHolds, Authority!Spec

-----------------------------------------------------------------------------
(* A closure that is complete is settled, also the second one of a replay. *)

\* The construction of the closure has its types and leaves nothing behind.
Constructed == Typed /\ Settling /\ IsFiniteSet(DOMAIN frames)

\* A construction starts so.
LEMMA InitConstructed == Init => Constructed
<1>1. Init => IsFiniteSet(DOMAIN frames)
  <2>1. Init => DOMAIN frames = {}
    BY DEF Init
  <2>. QED
    BY <2>1, FS_EmptySet
<1>. QED
  BY <1>1, InitType, InitSettling DEF Constructed

\* A replay starts a construction.
LEMMA ReplayRestarts == ASSUME Constructed, Replay PROVE Init'
<1>1. RootKeys' = RootKeys /\ RootStates' = RootStates
  BY DEF RootKeys, RootStates
<1>. QED
  BY <1>1 DEF Replay, Init, Constructed, Typed, IInv

\* The guest and a replay keep the construction as it must be.
LEMMA NextConstructed ==
  Constructed /\ [AllNext]_allVars => Constructed' \/ Init'
<1> SUFFICES ASSUME Constructed, [AllNext]_allVars PROVE Constructed' \/ Init'
  OBVIOUS
<1>1. CASE Analysis \/ Execution \/ UNCHANGED allVars
  <2>1. [Next]_vars
    BY <1>1 DEF Analysis, allVars, Execution, Enter, Call, Advance, Return, Fault, Nonlocally, Leave
  <2>. QED
    BY <2>1, NextKeepsType, NextKeepsSettling, FramesStayFinite DEF Constructed
<1>2. CASE Replay
  BY <1>2, ReplayRestarts
<1>. QED
  BY <1>1, <1>2 DEF AllNext

\* The construction is always as it must be.
LEMMA AlwaysConstructed == AllSpec => []Constructed
<1>1. AllInit => Constructed
  BY InitConstructed DEF AllInit
<1>. QED
  BY <1>1, InitConstructed, NextConstructed, PTL DEF AllSpec

(* A complete closure of an image without nonlocal transfers is a fixed    *)
(* point: to visit any of its keys again changes nothing.  The dependents  *)
(* bring back who read a summary, the join of states who read a state, and *)
(* the flush follows what was kept back.                                   *)
THEOREM CompleteIsSettled == AllSpec => [](~HasNonlocal => Settled)
<1>1. Constructed => (~HasNonlocal => Settled)
  BY SettledKey DEF Constructed, Settled
<1>. QED
  BY <1>1, AlwaysConstructed, PTL

-----------------------------------------------------------------------------
(* The guest under a complete closure: each activation has a key, its      *)
(* abstract state covers the register and the cell, and an activation that *)
(* waits for another covers the cell as long as nothing above it has       *)
(* written (the meaning of `wrote' across calls and unwind functions).     *)

\* A call site with a callee that returns has only callees that do (finding 6).
CallsReturn ==
  verdict = "complete" =>
    \A key \in DOMAIN states :
      (\E c \in Callees(key) : c \in DOMAIN summaries) => Callees(key) \subseteq DOMAIN summaries

At(fr) == <<fr.unit, fr.context>>

\* The abstract state of the running activation, and of one that waits for the next.
Here(fr) == IF fr.called THEN Out(At(fr)) ELSE states[At(fr)]
Held(fr) == IF fr.called THEN Start(At(fr)) ELSE Continuation(At(fr))[fr.unwound - 1]

\* An activation waits for what it has called, or for the next function of its fault.
Unwinds(fr, next) ==
  /\ Handled(At(fr))
  /\ \/ /\ fr.unwound \in 1 .. Len(Unwinders(At(fr)))
        /\ Composed(At(fr), fr.unwound - 1)
        /\ next.context = UnwindContext(fr.context, fr.unit, fr.unwound)
     \/ /\ fr.unwound = Len(Unwinders(At(fr))) + 1
        /\ WantsResumption(At(fr))
        /\ next.context = HandlerContext(At(fr))

Linked(fr, next) ==
  \/ next.back = "caller" /\ fr.called /\ fr.unwound = 0 /\ next.context \in Callees(At(fr))
  \/ next.back = "fault" /\ ~fr.called /\ fr.back = "host" /\ Unwinds(fr, next)

\* Nothing above activation i of s has written.
Silent(s, i) ==
  ~Here(s[Len(s)]).wrote /\ \A j \in i + 1 .. Len(s) - 1 : ~Held(s[j]).wrote

\* The key at which an activation of a context starts.
Entry(context) == <<context.entry, context>>

\* A state of an activation that has not written holds what its entry holds.
Flows(context, s) ==
  /\ Entry(context) \in DOMAIN states
  /\ ~s.wrote => Below(states[Entry(context)].cell, s.cell)

Tracks(s, v, c) ==
  /\ \A i \in 1 .. Len(s) : At(s[i]) \in DOMAIN states
  /\ \A i \in 1 .. Len(s) - 1 : Linked(s[i], s[i + 1])
  /\ \A i \in 1 .. Len(s) - 1 : Silent(s, i) => Covers(Held(s[i]).cell, c)
  /\ \A i \in 1 .. Len(s) - 1 : Flows(s[i].context, Held(s[i]))
  /\ s # <<>> =>
       /\ s[1].back = "host"
       /\ Flows(s[Len(s)].context, Here(s[Len(s)]))
       /\ s[Len(s)].unwound = 0
       /\ Covers(Here(s[Len(s)]).reg, v) /\ Covers(Here(s[Len(s)]).cell, c)
       /\ s[Len(s)].called => ~Waiting(At(s[Len(s)]))

\* Code that was given away is entered like a root.
Awaits(entrance) ==
  LET key == <<entrance.unit, RootContext(entrance.unit, entrance.unit)>> IN
  /\ key \in DOMAIN states
  /\ states[key].reg = Unknown /\ Covers(states[key].cell, entrance.cell)
  /\ entrance.edge \in edges

Simulation ==
  /\ entries # 0 => first = <<>> /\ verdict = "complete"
  /\ entries = 0 => registered = {} /\ move = NoMove
  /\ \A given \in registered : Awaits(given)
  /\ move # NoMove => move \in edges
  /\ Tracks(stack, reg, cell)

\* What is above a value covers what the value covers.
LEMMA CoversAbove ==
  ASSUME NEW v, NEW w \in Values, Below(v, w), NEW a, Covers(v, a) PROVE Covers(w, a)
<1>1. CASE v = Unknown /\ v \subseteq w
  <2>1. Other \in w
    BY <1>1 DEF Unknown
  <2>2. w \notin (SUBSET Atoms) \ {{}}
    BY <2>1, ClosureAssumption
  <2>. QED
    BY <2>2 DEF Values, Covers
<1>. QED
  BY <1>1 DEF Covers, Below

\* The same of states.
LEMMA CoversStateAbove ==
  ASSUME NEW s, NEW t \in States, StateBelow(s, t), NEW v, NEW c,
         Covers(s.reg, v), Covers(s.cell, c)
  PROVE  Covers(t.reg, v) /\ Covers(t.cell, c) /\ (~t.wrote => ~s.wrote)
<1>1. t.reg \in Values /\ t.cell \in Values
  BY DEF States
<1>. QED
  BY <1>1, CoversAbove DEF StateBelow

\* What a key of a complete closure is known to have done.
LEMMA CompleteKey ==
  ASSUME Constructed, verdict = "complete", NEW key \in DOMAIN states
  PROVE  /\ key[1] \in Units /\ key[2] \in Contexts /\ program[key[1]] \in Transfers
         /\ states[key] \in States /\ Start(key) \in States /\ Out(key) \in States
         /\ \A e \in LocalEdges(key) :
              /\ e.target \in Units /\ Key(e) \in DOMAIN states
              /\ states[Key(e)] \in States /\ StateBelow(e.state, states[Key(e)])
              /\ [source |-> e.source, target |-> e.target, kind |-> e.kind] \in edges
         /\ Returns(key) => /\ key[2] \in DOMAIN summaries
                            /\ StateBelow(EffectSummary(Out(key)), summaries[key[2]])
         /\ program[key[1]].call = "indirect" => Targets(key).known
         /\ JumpResolved(key) => JumpResolution(key).known
         /\ Escapes(key) => EscapeFound(key).known
<1>1. /\ queued = {} /\ deferred = {} /\ blockers = {}
      /\ \A u \in DOMAIN escapes : escapes[u].known
      /\ \A site \in DOMAIN indirect : indirect[site].known
  BY DEF Constructed, Settling, Blocked
<1>2. Visited(key) /\ Typed
  BY <1>1 DEF Constructed, Settling
<1>3. key[1] \in Units /\ key[2] \in Contexts /\ program[key[1]] \in Transfers
      /\ states[key] \in States /\ Start(key) \in States /\ Out(key) \in States
  BY <1>2, TransferType, StartType, OutType DEF Typed, TypeOK, PartialFunction
<1>4. \A e \in LocalEdges(key) : Absorbed(e)
  BY <1>1, <1>2 DEF Visited, EdgesTaken
<1>5. \A k \in DOMAIN states : states[k] \in States
  BY <1>2 DEF Typed, TypeOK, PartialFunction
<1>6. \A e \in LocalEdges(key) :
        /\ e.target \in Units /\ Key(e) \in DOMAIN states
        /\ states[Key(e)] \in States /\ StateBelow(e.state, states[Key(e)])
        /\ [source |-> e.source, target |-> e.target, kind |-> e.kind] \in edges
  BY <1>1, <1>4, <1>5 DEF Absorbed
<1>7. Returns(key) => /\ key[2] \in DOMAIN summaries
                      /\ StateBelow(EffectSummary(Out(key)), summaries[key[2]])
  BY <1>2 DEF Visited, ReturnTaken
<1>8. program[key[1]].call = "indirect" => Targets(key).known
  BY <1>1, <1>2 DEF Visited, CallTaken
<1>9. JumpResolved(key) => JumpResolution(key).known
  BY <1>1, <1>2 DEF Visited, JumpTaken
<1>10. Escapes(key) => EscapeFound(key).known
  BY <1>1, <1>2 DEF Visited, EscapeTaken
<1>. QED
  BY <1>3, <1>6, <1>7, <1>8, <1>9, <1>10

\* A caller that covers the cell as long as its callee has not written covers what
\* the callee returns.
LEMMA ReturnCovers ==
  ASSUME NEW out \in States, NEW summary \in States, NEW caller \in States,
         StateBelow(EffectSummary(out), summary), NEW v, NEW c,
         Covers(out.reg, v), Covers(out.cell, c), ~out.wrote => Covers(caller.cell, c)
  PROVE  /\ Covers(ReturnState(summary, caller).reg, v)
         /\ Covers(ReturnState(summary, caller).cell, c)
         /\ ~ReturnState(summary, caller).wrote => ~out.wrote /\ ~caller.wrote
<1> DEFINE effect == EffectSummary(out)
           after == ReturnState(summary, caller)
<1>1. /\ effect.reg = out.reg /\ effect.wrote = out.wrote
      /\ effect.cell = IF out.wrote THEN out.cell ELSE InitialCell
  BY DEF EffectSummary, States
<1>2. summary.reg \in Values /\ summary.cell \in Values /\ caller.cell \in Values
      /\ summary.wrote \in BOOLEAN /\ out.wrote \in BOOLEAN /\ caller.wrote \in BOOLEAN
  BY DEF States
<1>3. Below(out.reg, summary.reg) /\ Below(effect.cell, summary.cell)
      /\ (out.wrote => summary.wrote)
  BY <1>1 DEF StateBelow
<1>4. /\ after.reg = summary.reg /\ after.wrote = (caller.wrote \/ summary.wrote)
      /\ ~summary.wrote => after.cell = caller.cell
      /\ summary.wrote /\ Explicit(caller) =>
           after.cell = JoinValues({caller.cell, summary.cell})
      /\ summary.wrote /\ ~Explicit(caller) => after.cell = summary.cell
  BY DEF ReturnState
<1> HIDE DEF effect, after
<1>5. Covers(after.reg, v)
  BY <1>2, <1>3, <1>4, CoversAbove
<1>6. Covers(after.cell, c)
  <2>1. CASE ~summary.wrote
    BY <1>3, <1>4, <2>1
  <2>2. CASE summary.wrote /\ out.wrote
    <3>1. Covers(summary.cell, c)
      BY <1>1, <1>2, <1>3, <2>2, CoversAbove
    <3>2. Below(summary.cell, JoinValues({caller.cell, summary.cell}))
          /\ JoinValues({caller.cell, summary.cell}) \in Values
      BY <1>2, JoinedAbove, JoinedValue
    <3>. QED
      BY <1>4, <2>2, <3>1, <3>2, CoversAbove
  <2>3. CASE summary.wrote /\ ~out.wrote /\ Explicit(caller)
    <3>2. Below(caller.cell, JoinValues({caller.cell, summary.cell}))
          /\ JoinValues({caller.cell, summary.cell}) \in Values
      BY <1>2, JoinedAbove, JoinedValue
    <3>. QED
      BY <1>4, <2>3, <3>2, CoversAbove
  <2>4. CASE summary.wrote /\ ~out.wrote /\ ~Explicit(caller)
    <3>1. caller.cell = InitialCell /\ effect.cell = InitialCell
      BY <1>1, <2>4 DEF Explicit
    <3>. QED
      BY <1>2, <1>3, <1>4, <2>4, <3>1, CoversAbove
  <2>. QED
    BY <2>1, <2>2, <2>3, <2>4
<1>. QED
  BY <1>3, <1>4, <1>5, <1>6 DEF after

-----------------------------------------------------------------------------
\* Where the guest is tracked it is within reach.
LEMMA SimulationReaches == ASSUME EInv, Simulation PROVE MayReach
<1>1. DOMAIN stack = 1..Len(stack)
  BY LenProperties DEF EInv, GuestType
<1>2. \A i \in 1..Len(stack) : At(stack[i]) \in DOMAIN states /\ At(stack[i])[1] = stack[i].unit
  BY DEF Simulation, Tracks, At
<1>. QED
  BY <1>1, <1>2 DEF MayReach, Simulation, Reached

\* What a tracked guest runs.
LEMMA TopFacts ==
  ASSUME EInv, Constructed, Simulation, Running
  PROVE  /\ verdict = "complete" /\ first = <<>>
         /\ stack \in Seq(Frames) /\ Len(stack) \in Nat \ {0} /\ Top = stack[Len(stack)]
         /\ Top \in Frames /\ At(Top) \in DOMAIN states /\ Top.unwound = 0
         /\ At(Top)[1] = Top.unit /\ At(Top)[2] = Top.context
         /\ Top.unit \in Units /\ T = program[Top.unit] /\ T \in Transfers
         /\ Covers(Here(Top).reg, reg) /\ Covers(Here(Top).cell, cell)
         /\ Top.called => ~Waiting(At(Top))
         /\ Flows(Top.context, Here(Top))
<1>1. verdict = "complete" /\ first = <<>> /\ stack # <<>>
  BY DEF EInv, Running
<1>2. stack \in Seq(Frames) /\ Len(stack) \in Nat \ {0} /\ Top \in Frames /\ Top.unit \in Units
      /\ T \in Transfers
  BY SimulationReaches, RunningFacts
<1>3. Top = stack[Len(stack)] /\ Len(stack) \in 1..Len(stack)
  BY <1>2 DEF Top
<1>. QED
  BY <1>1, <1>2, <1>3 DEF Simulation, Tracks, At, T

\* The activations of a tracked guest, and which of them the host has entered.
LEMMA StackFacts ==
  ASSUME EInv, Constructed, Simulation, NEW i \in 1..Len(stack)
  PROVE  /\ stack[i] \in Frames /\ At(stack[i]) \in DOMAIN states
         /\ At(stack[i])[1] = stack[i].unit /\ At(stack[i])[2] = stack[i].context
         /\ stack[i].back = "host" <=> i = 1
<1>1. stack \in Seq(Frames) /\ Len(stack) \in Nat
  BY LenProperties DEF EInv, GuestType
<1>2. stack[i] \in Frames
  BY <1>1, ElementOfSeq
<1>3. At(stack[i]) \in DOMAIN states
  BY DEF Simulation, Tracks
<1>4. ASSUME i = 1 PROVE stack[i].back = "host"
  <2>1. stack # <<>>
    BY <1>4
  <2>. QED
    BY <1>4, <2>1 DEF Simulation, Tracks
<1>5. ASSUME i # 1 PROVE stack[i].back # "host"
  <2>1. i - 1 \in 1..Len(stack) - 1 /\ (i - 1) + 1 = i
    BY <1>1, <1>5
  <2>2. Linked(stack[i - 1], stack[i])
    BY <2>1 DEF Simulation, Tracks
  <2>. QED
    BY <2>2 DEF Linked
<1>. QED
  BY <1>2, <1>3, <1>4, <1>5 DEF At

\* The effect of a transfer, on the guest and on the state of its key.
LEMMA Effect ==
  ASSUME EInv, Constructed, Simulation, Running, ~Top.called
  PROVE  /\ Covers(Start(At(Top)).reg, RegNow) /\ Covers(Start(At(Top)).cell, CellNow)
         /\ ~Start(At(Top)).wrote => ~states[At(Top)].wrote /\ CellNow = cell
<1> DEFINE s == states[At(Top)]
<1>1. /\ At(Top) \in DOMAIN states /\ At(Top)[1] = Top.unit /\ T = program[Top.unit]
      /\ T \in Transfers /\ verdict = "complete"
      /\ Covers(s.reg, reg) /\ Covers(s.cell, cell)
  BY TopFacts DEF Here
<1>2. s \in States
  BY <1>1, CompleteKey
<1>3. Start(At(Top)) = Before(T, s)
  BY <1>1 DEF Start
<1>4. s = [reg |-> s.reg, cell |-> s.cell, wrote |-> s.wrote, bindings |-> s.bindings]
  BY <1>2 DEF States
<1> HIDE DEF s
<1>5. T.effect \in {"none", "load", "set", "store"}
  BY <1>1 DEF Transfers
<1>6. CASE T.effect = "none"
  <2>1. Before(T, s) = s /\ RegNow = reg /\ CellNow = cell
    BY <1>6 DEF Before, RegNow, CellNow
  <2>. QED
    BY <1>1, <1>3, <2>1 DEF s
<1>7. CASE T.effect = "load"
  <2>1. Before(T, s) = [s EXCEPT !.reg = s.cell] /\ RegNow = cell /\ CellNow = cell
    BY <1>7 DEF Before, RegNow, CellNow
  <2>. QED
    BY <1>1, <1>3, <1>4, <2>1 DEF s
<1>8. CASE T.effect = "set"
  <2>1. Before(T, s) = [s EXCEPT !.reg = {T.value}] /\ RegNow = T.value /\ CellNow = cell
    BY <1>8 DEF Before, RegNow, CellNow
  <2>. QED
    BY <1>1, <1>3, <1>4, <2>1 DEF s, Covers
<1>9. CASE T.effect = "store"
  <2>1. Before(T, s) = [s EXCEPT !.cell = {T.value}, !.wrote = TRUE] /\ RegNow = reg
        /\ CellNow = T.value
    BY <1>9 DEF Before, RegNow, CellNow
  <2>. QED
    BY <1>1, <1>3, <1>4, <2>1 DEF s, Covers
<1>. QED
  BY <1>5, <1>6, <1>7, <1>8, <1>9

\* An atom is not the unknown value, so that only Unknown holds Other.
LEMMA KnownCovers ==
  ASSUME NEW v, v \subseteq Atoms, NEW a, Covers(v, a) PROVE a \in v
BY ClosureAssumption DEF ClosureAssumption, Covers, Unknown

\* Where the guest is at its terminator the closure has what the calls return.
LEMMA Terminator ==
  ASSUME EInv, Constructed, Simulation, Running, AtTerminator
  PROVE  /\ ~Waiting(At(Top))
         /\ Covers(Out(At(Top)).reg, RegNow) /\ Covers(Out(At(Top)).cell, CellNow)
         /\ ~Out(At(Top)).wrote => ~Here(Top).wrote /\ CellNow = cell
         /\ ~Top.called => Out(At(Top)) = Start(At(Top))
         /\ ~Top.called /\ T.call \in {"returns", "callback", "indirect"}
              => Targets(At(Top)).external
<1> DEFINE key == At(Top)
<1>1. /\ key \in DOMAIN states /\ key[1] = Top.unit /\ T = program[Top.unit]
      /\ T \in Transfers /\ verdict = "complete"
      /\ Covers(Here(Top).reg, reg) /\ Covers(Here(Top).cell, cell)
      /\ Top.called => ~Waiting(key)
  BY TopFacts
<1>2. CASE Top.called
  <2>1. Here(Top) = Out(key) /\ RegNow = reg /\ CellNow = cell
    BY <1>2 DEF Here, RegNow, CellNow
  <2>. QED
    BY <1>1, <1>2, <2>1
<1>3. CASE ~Top.called
  <2>1. ~CallsGuest
    BY <1>3 DEF AtTerminator
  <2>2. T.call # "direct" /\ (T.call = "indirect" => RegNow \notin Units)
    BY <1>3, <2>1 DEF CallsGuest
  <2>3. Covers(Start(key).reg, RegNow) /\ Covers(Start(key).cell, CellNow)
        /\ (~Start(key).wrote => ~states[key].wrote /\ CellNow = cell)
    BY <1>3, Effect
  <2>4. T.call = "indirect" => Targets(key).known
    BY <1>1, CompleteKey
  <2>5. Targets(key) = CallTargets(T, Start(key))
    BY <1>1 DEF Targets
  <2>6. T.call \in {"none", "direct", "indirect", "returns", "terminates", "callback"}
    BY <1>1 DEF Transfers
  <2> HIDE DEF key
  <2>7. Targets(key).known /\ Targets(key).guest = {}
        /\ (T.call \in {"returns", "callback", "indirect"} => Targets(key).external)
    <3>1. CASE T.call = "indirect"
      <4>1. Start(key).reg \subseteq Units \/ Start(key).reg = {External}
        BY <2>4, <2>5, <3>1 DEF CallTargets, Unresolved, Resolution
      <4>2. ~(Start(key).reg \subseteq Units)
        BY <2>2, <2>3, <3>1, KnownCovers DEF Atoms
      <4>. QED
        BY <2>5, <3>1, <4>1, <4>2 DEF CallTargets, Resolution
    <3>2. CASE T.call # "indirect"
      BY <2>2, <2>5, <2>6, <3>2 DEF CallTargets, Resolution
    <3>. QED
      BY <3>1, <3>2
  <2>8. Callees(key) = {}
    BY <2>7 DEF Callees
  <2>9. ~Waiting(key) /\ Out(key) = Start(key)
    BY <2>7, <2>8 DEF Waiting, Out
  <2>. QED
    BY <1>3, <2>3, <2>7, <2>9 DEF Here, key
<1>. QED
  BY <1>2, <1>3

-----------------------------------------------------------------------------
(* What a step does to the activations, and that they stay tracked.        *)

\* One activation that the host has entered.
LEMMA TracksOne ==
  ASSUME NEW fr, fr.back = "host", ~fr.called, fr.unwound = 0, At(fr) \in DOMAIN states,
         Flows(fr.context, states[At(fr)]),
         NEW v, NEW c, Covers(states[At(fr)].reg, v), Covers(states[At(fr)].cell, c)
  PROVE  Tracks(<<fr>>, v, c)
<1>1. Len(<<fr>>) = 1 /\ <<fr>>[1] = fr /\ <<fr>> # <<>>
  OBVIOUS
<1>2. Here(fr) = states[At(fr)]
  BY DEF Here
<1>. QED
  BY <1>1, <1>2 DEF Tracks

\* An activation that the host has entered, and what it waits for.
LEMMA TracksTwo ==
  ASSUME NEW fr, NEW next, fr.back = "host", At(fr) \in DOMAIN states,
         ~next.called, next.unwound = 0, At(next) \in DOMAIN states,
         Linked(fr, next),
         NEW v, NEW c, Covers(states[At(next)].reg, v), Covers(states[At(next)].cell, c),
         ~states[At(next)].wrote => Covers(Held(fr).cell, c),
         Flows(fr.context, Held(fr)), Flows(next.context, states[At(next)])
  PROVE  Tracks(<<fr, next>>, v, c)
<1> DEFINE s == <<fr, next>>
<1>1. Len(s) = 2 /\ s[1] = fr /\ s[2] = next /\ s # <<>>
  OBVIOUS
<1>2. Here(next) = states[At(next)]
  BY DEF Here
<1> HIDE DEF s
<1>3. \A i \in 1 .. Len(s) : i = 1 \/ i = 2
  BY <1>1
<1>4. \A i \in 1 .. Len(s) - 1 : i = 1
  BY <1>1
<1>5. Silent(s, 1) => ~states[At(next)].wrote
  BY <1>1, <1>2 DEF Silent
<1>6. \A i \in 1 .. Len(s) : At(s[i]) \in DOMAIN states
  BY <1>1, <1>3
<1>7. \A i \in 1 .. Len(s) - 1 : s[i] = fr /\ s[i + 1] = next /\ (Silent(s, i) => Covers(Held(s[i]).cell, c))
  BY <1>1, <1>4, <1>5
<1>8. Flows(s[Len(s)].context, Here(s[Len(s)]))
      /\ \A i \in 1 .. Len(s) - 1 : Flows(s[i].context, Held(s[i]))
  BY <1>1, <1>2, <1>7
<1>. QED
  BY <1>1, <1>2, <1>6, <1>7, <1>8 DEF Tracks, s

\* An activation goes on elsewhere in its function, and all above it end.
LEMMA TracksLanded ==
  ASSUME NEW s \in Seq(Frames), NEW n \in 1 .. Len(s), NEW v, NEW c, Tracks(s, v, c),
         NEW fr \in Frames, fr.back = s[n].back, fr.context = s[n].context,
         ~fr.called, fr.unwound = 0, At(fr) \in DOMAIN states,
         NEW w, NEW d, Covers(states[At(fr)].reg, w), Covers(states[At(fr)].cell, d),
         \A i \in 1 .. n - 1 :
           ~states[At(fr)].wrote /\ (\A j \in i + 1 .. n - 1 : ~Held(s[j]).wrote)
             => Covers(Held(s[i]).cell, d),
         Flows(fr.context, states[At(fr)])
  PROVE  Tracks(Append(SubSeq(s, 1, n - 1), fr), w, d)
<1> DEFINE p == SubSeq(s, 1, n - 1)
           t == Append(p, fr)
<1>1. n \in Nat \ {0} /\ Len(s) \in Nat /\ s # <<>>
  BY LenProperties, EmptySeq
<1>2. p \in Seq(Frames) /\ Len(p) = n - 1 /\ \A i \in 1 .. n - 1 : p[i] = s[i]
  <2>1. n - 1 \in 0 .. Len(s)
    BY <1>1
  <2>. QED
    BY <2>1, PrefixFacts
<1>3. fr.back = s[n].back /\ fr.context = s[n].context
  OBVIOUS
<1>4. /\ \A i \in 1 .. n : At(s[i]) \in DOMAIN states
      /\ \A i \in 1 .. n - 1 : Linked(s[i], s[i + 1])
      /\ \A i \in 1 .. n - 1 : Flows(s[i].context, Held(s[i]))
      /\ s[1].back = "host"
  <2>1. \A i \in 1 .. n : i \in 1 .. Len(s)
    BY <1>1
  <2>2. \A i \in 1 .. n - 1 : i \in 1 .. Len(s) - 1
    BY <1>1
  <2>. QED
    BY <1>1, <2>1, <2>2 DEF Tracks
<1> HIDE DEF p
<1>5. t \in Seq(Frames) /\ t # <<>> /\ Len(t) = n /\ t[n] = fr
      /\ \A i \in 1 .. n - 1 : t[i] = s[i]
  BY <1>1, <1>2, AppendProperties
<1> HIDE DEF t
<1>6. Here(t[Len(t)]) = states[At(fr)]
  BY <1>5 DEF Here
<1>7. \A i \in 1 .. Len(t) : At(t[i]) \in DOMAIN states
  BY <1>1, <1>4, <1>5
<1>8. \A i \in 1 .. Len(t) - 1 : Linked(t[i], t[i + 1])
  <2> TAKE i \in 1 .. Len(t) - 1
  <2>1. i \in 1 .. n - 1 /\ t[i] = s[i] /\ Linked(s[i], s[i + 1])
    BY <1>1, <1>4, <1>5
  <2>2. CASE i + 1 = n
    BY <1>3, <1>5, <2>1, <2>2 DEF Linked, Unwinds
  <2>3. CASE i + 1 # n
    <3>1. i + 1 \in 1 .. n - 1
      BY <1>1, <2>1, <2>3
    <3>. QED
      BY <1>5, <2>1, <3>1
  <2>. QED
    BY <2>2, <2>3
<1>9. \A i \in 1 .. Len(t) - 1 : Silent(t, i) => Covers(Held(t[i]).cell, d)
  <2> SUFFICES ASSUME NEW i \in 1 .. Len(t) - 1, Silent(t, i)
               PROVE  Covers(Held(t[i]).cell, d)
    OBVIOUS
  <2>1. i \in 1 .. n - 1
    BY <1>1, <1>5
  <2>2. ~states[At(fr)].wrote /\ \A j \in i + 1 .. n - 1 : ~Held(t[j]).wrote
    BY <1>5, <1>6 DEF Silent
  <2>3. \A j \in i + 1 .. n - 1 : ~Held(s[j]).wrote
    <3> TAKE j \in i + 1 .. n - 1
    <3>1. j \in 1 .. n - 1
      BY <1>1, <2>1
    <3>. QED
      BY <1>5, <2>2, <3>1
  <2>4. Covers(Held(s[i]).cell, d)
    BY <2>1, <2>2, <2>3
  <2>. QED
    BY <1>5, <2>1, <2>4
<1>11. t[1].back = "host"
  <2>1. CASE n = 1
    BY <1>3, <1>4, <1>5, <2>1
  <2>2. CASE n # 1
    <3>1. 1 \in 1 .. n - 1
      BY <1>1, <2>2
    <3>. QED
      BY <1>4, <1>5, <3>1
  <2>. QED
    BY <2>1, <2>2
<1>12. \A i \in 1 .. Len(t) - 1 : Flows(t[i].context, Held(t[i]))
  BY <1>4, <1>5
<1>13. Flows(t[Len(t)].context, Here(t[Len(t)]))
  BY <1>5, <1>6
<1>14. Tracks(t, w, d)
  BY <1>5, <1>6, <1>7, <1>8, <1>9, <1>11, <1>12, <1>13 DEF Tracks
<1>. QED
  BY <1>14 DEF t, p

\* The running activation goes on elsewhere in its function.
LEMMA TracksReplaced ==
  ASSUME NEW s \in Seq(Frames), s # <<>>, NEW v, NEW c, Tracks(s, v, c), NEW fr \in Frames,
         fr.back = s[Len(s)].back, fr.context = s[Len(s)].context,
         ~fr.called, fr.unwound = 0, At(fr) \in DOMAIN states,
         NEW w, NEW d, Covers(states[At(fr)].reg, w), Covers(states[At(fr)].cell, d),
         ~states[At(fr)].wrote => ~Here(s[Len(s)]).wrote /\ d = c,
         Flows(fr.context, states[At(fr)])
  PROVE  Tracks(Append(SubSeq(s, 1, Len(s) - 1), fr), w, d)
<1> DEFINE n == Len(s)
<1>1. n \in 1 .. Len(s)
  BY EmptySeq
<1>2. ASSUME NEW i \in 1 .. n - 1, ~states[At(fr)].wrote,
             \A j \in i + 1 .. n - 1 : ~Held(s[j]).wrote
      PROVE  Covers(Held(s[i]).cell, d)
  <2>1. Silent(s, i)
    BY <1>2 DEF Silent
  <2>. QED
    BY <1>2, <2>1 DEF Tracks
<1>3. fr.back = s[n].back /\ fr.context = s[n].context
  OBVIOUS
<1> HIDE DEF n
<1>4. Tracks(Append(SubSeq(s, 1, n - 1), fr), w, d)
  BY <1>1, <1>2, <1>3, TracksLanded
<1>. QED
  BY <1>4 DEF n

\* The running activation waits for a new one.
LEMMA TracksPushed ==
  ASSUME NEW s \in Seq(Frames), s # <<>>, NEW v, NEW c, Tracks(s, v, c), NEW fr \in Frames,
         fr.back = s[Len(s)].back, fr.context = s[Len(s)].context, fr.unit = s[Len(s)].unit,
         NEW next \in Frames, Linked(fr, next),
         ~next.called, next.unwound = 0, At(next) \in DOMAIN states,
         NEW w, NEW d, Covers(states[At(next)].reg, w), Covers(states[At(next)].cell, d),
         Covers(Held(fr).cell, d), ~Held(fr).wrote => ~Here(s[Len(s)]).wrote /\ d = c,
         Flows(fr.context, Held(fr)), Flows(next.context, states[At(next)])
  PROVE  Tracks(Append(Append(SubSeq(s, 1, Len(s) - 1), fr), next), w, d)
<1> DEFINE n == Len(s)
           p == SubSeq(s, 1, n - 1)
           q == Append(p, fr)
           t == Append(q, next)
<1>1. n \in Nat \ {0}
  BY EmptySeq
<1>2. p \in Seq(Frames) /\ Len(p) = n - 1 /\ \A i \in 1 .. n - 1 : p[i] = s[i]
  <2>1. n - 1 \in 0 .. Len(s)
    BY <1>1
  <2> HIDE DEF n
  <2>. QED
    BY <2>1, PrefixFacts
<1>3. fr.back = s[n].back /\ fr.context = s[n].context /\ fr.unit = s[n].unit
      /\ (~Held(fr).wrote => ~Here(s[n]).wrote /\ d = c)
  OBVIOUS
<1>4. /\ \A i \in 1 .. n : At(s[i]) \in DOMAIN states
      /\ \A i \in 1 .. n - 1 : Linked(s[i], s[i + 1])
      /\ \A i \in 1 .. n - 1 : Silent(s, i) => Covers(Held(s[i]).cell, c)
      /\ \A i \in 1 .. n - 1 : Flows(s[i].context, Held(s[i]))
      /\ s[1].back = "host"
  BY DEF Tracks
<1>5. \A i : Silent(s, i) <=>
          ~Here(s[n]).wrote /\ \A j \in i + 1 .. n - 1 : ~Held(s[j]).wrote
  BY DEF Silent
<1> HIDE DEF n, p
<1>6. q \in Seq(Frames) /\ Len(q) = n /\ q[n] = fr /\ \A i \in 1 .. n - 1 : q[i] = s[i]
  BY <1>1, <1>2, AppendProperties
<1> HIDE DEF q
<1>7. t \in Seq(Frames) /\ t # <<>> /\ Len(t) = n + 1 /\ t[n + 1] = next /\ t[n] = fr
      /\ \A i \in 1 .. n - 1 : t[i] = s[i]
  BY <1>1, <1>6, AppendProperties
<1> HIDE DEF t
<1>8. Here(t[Len(t)]) = states[At(next)]
  BY <1>7 DEF Here
<1>9. \A i \in 1 .. Len(t) : At(t[i]) \in DOMAIN states
  <2>1. At(fr) = At(s[n])
    BY <1>3 DEF At
  <2>2. \A i \in 1 .. n + 1 : i = n + 1 \/ i = n \/ i \in 1 .. n - 1
    BY <1>1
  <2>3. n \in 1 .. n /\ 1 .. n - 1 \subseteq 1 .. n
    BY <1>1
  <2>. QED
    BY <1>4, <1>7, <2>1, <2>2, <2>3
<1>10. \A i \in 1 .. Len(t) - 1 : Linked(t[i], t[i + 1])
  <2> TAKE i \in 1 .. Len(t) - 1
  <2>1. i \in 1 .. n
    BY <1>1, <1>7
  <2>2. CASE i = n
    BY <1>7, <2>2
  <2>3. CASE i # n
    <3>1. i \in 1 .. n - 1 /\ t[i] = s[i] /\ Linked(s[i], s[i + 1])
      BY <1>1, <1>4, <1>7, <2>1, <2>3
    <3>2. CASE i + 1 = n
      BY <1>3, <1>7, <3>1, <3>2 DEF Linked, Unwinds
    <3>3. CASE i + 1 # n
      <4>1. i + 1 \in 1 .. n - 1
        BY <1>1, <3>1, <3>3
      <4>. QED
        BY <1>7, <3>1, <4>1
    <3>. QED
      BY <3>2, <3>3
  <2>. QED
    BY <2>2, <2>3
<1>11. \A i \in 1 .. Len(t) - 1 : Silent(t, i) => Covers(Held(t[i]).cell, d)
  <2> SUFFICES ASSUME NEW i \in 1 .. Len(t) - 1, Silent(t, i)
               PROVE  Covers(Held(t[i]).cell, d)
    OBVIOUS
  <2>1. CASE i = n
    BY <1>7, <2>1
  <2>2. CASE i # n
    <3>1. i \in 1 .. n - 1
      BY <1>1, <1>7, <2>2
    <3>2. \A j \in i + 1 .. n : ~Held(t[j]).wrote
      BY <1>1, <1>7 DEF Silent
    <3>3. ~Held(fr).wrote
      <4>1. n \in i + 1 .. n
        BY <1>1, <3>1
      <4>. QED
        BY <1>7, <3>2, <4>1
    <3>4. \A j \in i + 1 .. n - 1 : ~Held(s[j]).wrote
      <4> TAKE j \in i + 1 .. n - 1
      <4>1. j \in 1 .. n - 1 /\ j \in i + 1 .. n
        BY <1>1, <3>1
      <4>. QED
        BY <1>7, <3>2, <4>1
    <3>5. Silent(s, i) /\ d = c
      BY <1>3, <1>5, <3>3, <3>4
    <3>. QED
      BY <1>4, <1>7, <3>1, <3>5
  <2>. QED
    BY <2>1, <2>2
<1>12. t[1].back = "host"
  <2>1. CASE n = 1
    BY <1>3, <1>4, <1>7, <2>1
  <2>2. CASE n # 1
    <3>1. 1 \in 1 .. n - 1
      BY <1>1, <2>2
    <3>. QED
      BY <1>4, <1>7, <3>1
  <2>. QED
    BY <2>1, <2>2
<1>13. \A i \in 1 .. Len(t) - 1 : Flows(t[i].context, Held(t[i]))
  <2> TAKE i \in 1 .. Len(t) - 1
  <2>1. i = n \/ i \in 1 .. n - 1
    BY <1>1, <1>7
  <2>. QED
    BY <1>4, <1>7, <2>1
<1>14. Flows(t[Len(t)].context, Here(t[Len(t)]))
  BY <1>7, <1>8
<1>15. Tracks(t, w, d)
  BY <1>7, <1>8, <1>9, <1>10, <1>11, <1>12, <1>13, <1>14 DEF Tracks
<1>. QED
  BY <1>15 DEF t, q, p, n

\* The running activation returns to the one that called it.
LEMMA TracksPopped ==
  ASSUME NEW s \in Seq(Frames), Len(s) > 1, NEW v, NEW c, Tracks(s, v, c),
         s[Len(s) - 1].called, ~Waiting(At(s[Len(s) - 1])), s[Len(s) - 1].unwound = 0,
         NEW w, NEW d, Covers(Out(At(s[Len(s) - 1])).reg, w),
         Covers(Out(At(s[Len(s) - 1])).cell, d),
         ~Out(At(s[Len(s) - 1])).wrote =>
            ~Held(s[Len(s) - 1]).wrote /\ ~Here(s[Len(s)]).wrote /\ d = c,
         Flows(s[Len(s) - 1].context, Out(At(s[Len(s) - 1])))
  PROVE  Tracks(SubSeq(s, 1, Len(s) - 1), w, d)
<1> DEFINE n == Len(s)
           m == n - 1
           t == SubSeq(s, 1, m)
<1>1. n \in Nat \ {0} /\ m \in Nat \ {0} /\ n = m + 1
  <2>1. n \in Nat /\ n > 1
    BY LenProperties
  <2> HIDE DEF n
  <2>. QED
    BY <2>1
<1>2. t \in Seq(Frames) /\ Len(t) = m /\ \A i \in 1 .. m : t[i] = s[i]
  <2>1. m \in 0 .. Len(s)
    BY <1>1
  <2> HIDE DEF m
  <2>. QED
    BY <2>1, PrefixFacts
<1>3. /\ s[m].called /\ ~Waiting(At(s[m])) /\ s[m].unwound = 0
      /\ Covers(Out(At(s[m])).reg, w) /\ Covers(Out(At(s[m])).cell, d)
      /\ ~Out(At(s[m])).wrote => ~Held(s[m]).wrote /\ ~Here(s[n]).wrote /\ d = c
      /\ Flows(s[m].context, Out(At(s[m])))
  OBVIOUS
<1>4. /\ \A i \in 1 .. n : At(s[i]) \in DOMAIN states
      /\ \A i \in 1 .. m : Linked(s[i], s[i + 1])
      /\ \A i \in 1 .. m : Silent(s, i) => Covers(Held(s[i]).cell, c)
      /\ \A i \in 1 .. m : Flows(s[i].context, Held(s[i]))
      /\ s[1].back = "host"
  <2>1. s # <<>>
    BY <1>1, EmptySeq
  <2>. QED
    BY <2>1 DEF Tracks
<1>5. \A i : Silent(s, i) <=>
          ~Here(s[n]).wrote /\ \A j \in i + 1 .. m : ~Held(s[j]).wrote
  BY DEF Silent
<1> HIDE DEF n, m, t
<1>6. t # <<>> /\ t[m] = s[m] /\ t[1] = s[1] /\ Here(t[Len(t)]) = Out(At(s[m]))
  <2>1. m \in 1 .. m /\ 1 \in 1 .. m
    BY <1>1
  <2>. QED
    BY <1>1, <1>2, <1>3, <2>1, EmptySeq DEF Here
<1>7. \A i \in 1 .. Len(t) : At(t[i]) \in DOMAIN states
  <2> TAKE i \in 1 .. Len(t)
  <2>1. i \in 1 .. m /\ i \in 1 .. n
    BY <1>1, <1>2
  <2>. QED
    BY <1>2, <1>4, <2>1
<1>8. \A i \in 1 .. Len(t) - 1 : Linked(t[i], t[i + 1])
  <2> TAKE i \in 1 .. Len(t) - 1
  <2>1. i \in 1 .. m /\ i + 1 \in 1 .. m
    BY <1>1, <1>2
  <2>. QED
    BY <1>2, <1>4, <2>1
<1>9. \A i \in 1 .. Len(t) - 1 : Silent(t, i) => Covers(Held(t[i]).cell, d)
  <2> SUFFICES ASSUME NEW i \in 1 .. Len(t) - 1, Silent(t, i)
               PROVE  Covers(Held(t[i]).cell, d)
    OBVIOUS
  <2>1. i \in 1 .. m
    BY <1>1, <1>2
  <2>2. ~Out(At(s[m])).wrote /\ \A j \in i + 1 .. m - 1 : ~Held(t[j]).wrote
    BY <1>2, <1>6 DEF Silent
  <2>3. \A j \in i + 1 .. m : ~Held(s[j]).wrote
    <3> TAKE j \in i + 1 .. m
    <3>1. CASE j = m
      BY <1>3, <2>2, <3>1
    <3>2. CASE j # m
      <4>1. j \in i + 1 .. m - 1 /\ j \in 1 .. m
        BY <1>1, <2>1, <3>2
      <4>. QED
        BY <1>2, <2>2, <4>1
    <3>. QED
      BY <3>1, <3>2
  <2>4. Silent(s, i) /\ d = c
    BY <1>3, <1>5, <2>2, <2>3
  <2>. QED
    BY <1>2, <1>4, <2>1, <2>4
<1>10. t[Len(t)] = s[m]
  BY <1>2, <1>6
<1>11. \A i \in 1 .. Len(t) - 1 : Flows(t[i].context, Held(t[i]))
  <2> TAKE i \in 1 .. Len(t) - 1
  <2>1. i \in 1 .. m
    BY <1>1, <1>2
  <2>. QED
    BY <1>2, <1>4, <2>1
<1>12. Flows(t[Len(t)].context, Here(t[Len(t)]))
  BY <1>3, <1>6, <1>10
<1>13. Tracks(t, w, d)
  BY <1>3, <1>4, <1>6, <1>7, <1>8, <1>9, <1>10, <1>11, <1>12 DEF Tracks
<1>. QED
  BY <1>13 DEF t, n, m

-----------------------------------------------------------------------------
(* The steps of the guest, over the edges of the keys it is at.            *)

\* Where an edge of a complete closure leads, the state covers what goes over it.
LEMMA EdgeCovers ==
  ASSUME Constructed, verdict = "complete", NEW key \in DOMAIN states,
         NEW e \in LocalEdges(key), NEW v, NEW c,
         Covers(e.state.reg, v), Covers(e.state.cell, c)
  PROVE  /\ e.target \in Units /\ Key(e) \in DOMAIN states
         /\ Covers(states[Key(e)].reg, v) /\ Covers(states[Key(e)].cell, c)
         /\ ~states[Key(e)].wrote => ~e.state.wrote
         /\ Move(e.source, e.target, e.kind) \in edges
<1>1. /\ e.target \in Units /\ Key(e) \in DOMAIN states
      /\ states[Key(e)] \in States /\ StateBelow(e.state, states[Key(e)])
      /\ [source |-> e.source, target |-> e.target, kind |-> e.kind] \in edges
  BY CompleteKey
<1>. QED
  BY <1>1, CoversStateAbove DEF Move

\* The fields of an edge.
LEMMA EdgeParts ==
  ASSUME NEW so, NEW ta, NEW ki, NEW st, NEW co
  PROVE  LET e == Edge(so, ta, ki, st, co) IN
         /\ e.source = so /\ e.target = ta /\ e.kind = ki /\ e.state = st /\ e.context = co
         /\ Key(e) = <<ta, co>>
BY DEF Edge, Key

\* What is joined above a state that holds what the entry holds, holds it too.
LEMMA FlowsOn ==
  ASSUME NEW context, NEW s, NEW t \in States, Flows(context, s), StateBelow(s, t)
  PROVE  Flows(context, t)
<1>1. t.cell \in Values /\ Below(s.cell, t.cell) /\ (~t.wrote => ~s.wrote)
  BY DEF States, StateBelow
<1>. QED
  BY <1>1, BelowTransitive DEF Flows

\* A callee that has not written leaves the cell as its caller had it.
LEMMA ReturnFlows ==
  ASSUME NEW context, NEW summary, NEW caller, Flows(context, caller)
  PROVE  Flows(context, ReturnState(summary, caller))
<1> DEFINE after == ReturnState(summary, caller)
<1>1. /\ after.wrote <=> caller.wrote \/ summary.wrote
      /\ ~summary.wrote => after.cell = caller.cell
  BY DEF ReturnState
<1> HIDE DEF after
<1>. QED
  BY <1>1 DEF Flows, after

\* A transfer that has not stored leaves the cell as it was.
LEMMA StartFlows ==
  ASSUME Constructed, verdict = "complete", NEW key \in DOMAIN states,
         NEW context, Flows(context, states[key])
  PROVE  Flows(context, Start(key))
<1> DEFINE t == program[key[1]]
           s == states[key]
<1>1. t \in Transfers /\ s \in States /\ Start(key) = Before(t, s)
  BY CompleteKey DEF Start
<1>2. t.effect \in {"none", "load", "set", "store"}
  BY <1>1 DEF Transfers
<1>3. s = [reg |-> s.reg, cell |-> s.cell, wrote |-> s.wrote, bindings |-> s.bindings]
  BY <1>1 DEF States
<1> HIDE DEF t, s
<1>4. ~Before(t, s).wrote => ~s.wrote /\ Before(t, s).cell = s.cell
  BY <1>2, <1>3 DEF Before
<1>. QED
  BY <1>1, <1>4 DEF Flows, s

\* Calls that return without writing leave the cell as it was.
LEMMA OutFlows ==
  ASSUME Constructed, verdict = "complete", NEW key \in DOMAIN states, ~Waiting(key),
         NEW context, Flows(context, Start(key))
  PROVE  Flows(context, Out(key))
<1>1. CASE Callees(key) = {}
  BY <1>1 DEF Out
<1>2. CASE Callees(key) # {}
  <2> DEFINE S == {ReturnState(summaries[c], Start(key)) : c \in Callees(key)}
  <2>1. PICK s \in S : Flows(context, s)
    BY <1>2, ReturnFlows
  <2>2. Out(key) = JoinStates(S) /\ Out(key) \in States
    BY <1>2, CompleteKey DEF Out
  <2> HIDE DEF S
  <2>3. StateBelow(s, Out(key))
    BY <2>2, JoinedStateAbove
  <2>. QED
    BY <2>1, <2>2, <2>3, FlowsOn
<1>. QED
  BY <1>1, <1>2

\* What goes over an edge of a complete closure flows on at its target.
LEMMA EdgeFlows ==
  ASSUME Constructed, verdict = "complete", NEW key \in DOMAIN states,
         NEW e \in LocalEdges(key), NEW context, Flows(context, e.state)
  PROVE  Flows(context, states[Key(e)])
<1>1. states[Key(e)] \in States /\ StateBelow(e.state, states[Key(e)])
  BY CompleteKey
<1>. QED
  BY <1>1, FlowsOn

\* At its entry an activation holds what its entry holds.
LEMMA EntryFlows ==
  ASSUME NEW context, NEW unit, unit = context.entry, <<unit, context>> \in DOMAIN states
  PROVE  Flows(context, states[<<unit, context>>])
BY DEF Flows, Entry, Below

\* A call goes to a callee of its key.
LEMMA CalleeKnown ==
  ASSUME EInv, Constructed, Simulation, Running, CallsGuest,
         NEW callee, callee = IF T.call = "direct" THEN T.target ELSE RegNow
  PROVE  callee \in Targets(At(Top)).guest
<1> DEFINE key == At(Top)
<1>1. /\ key \in DOMAIN states /\ key[1] = Top.unit /\ T = program[Top.unit]
      /\ verdict = "complete"
  BY TopFacts
<1>2. Covers(Start(key).reg, RegNow)
  BY Effect DEF CallsGuest
<1>3. Targets(key) = CallTargets(T, Start(key))
  BY <1>1 DEF Targets
<1>4. T.call = "indirect" => Targets(key).known
  BY <1>1, CompleteKey
<1> HIDE DEF key
<1>5. CASE T.call = "direct"
  BY <1>3, <1>5 DEF CallTargets, Resolution, key
<1>6. CASE T.call = "indirect"
  <2>1. Start(key).reg \subseteq Units \/ Start(key).reg = {External}
    BY <1>3, <1>4, <1>6 DEF CallTargets, Unresolved, Resolution
  <2>2. RegNow \in Units /\ RegNow \in Start(key).reg
    BY <1>2, <1>6, <2>1, KnownCovers DEF Atoms, CallsGuest
  <2>3. Start(key).reg \subseteq Units
    BY <2>1, <2>2, ClosureAssumption DEF ClosureAssumption
  <2>. QED
    BY <1>3, <1>6, <2>2, <2>3 DEF CallTargets, Resolution, key
<1>. QED
  BY <1>5, <1>6 DEF CallsGuest, key

\* A call starts its callee in a state of the closure.
LEMMA CallTracks ==
  ASSUME EInv, Constructed, Simulation, Call
  PROVE  Tracks(stack', reg', cell') /\ move' \in edges
<1> DEFINE key == At(Top)
           callee == IF T.call = "direct" THEN T.target ELSE RegNow
           fr == [Top EXCEPT !.called = TRUE]
           context == Child(Top.context, callee, Top.unit)
           next == Frame(callee, context, "caller")
           e == Edge(key[1], context.entry, "internal_call",
                     CalleeState(Start(key), context, key[2]), context)
<1>1. Running /\ CallsGuest /\ ~Top.called
  BY DEF Call, CallsGuest
<1>2. /\ key \in DOMAIN states /\ key[1] = Top.unit /\ key[2] = Top.context
      /\ verdict = "complete" /\ Top \in Frames /\ Top = stack[Len(stack)]
      /\ stack \in Seq(Frames) /\ stack # <<>> /\ T \in Transfers /\ Top.unwound = 0
  BY <1>1, TopFacts DEF Running
<1>3. /\ Covers(Start(key).reg, RegNow) /\ Covers(Start(key).cell, CellNow)
      /\ ~Start(key).wrote => ~states[key].wrote /\ CellNow = cell
  BY <1>1, Effect
<1>4. context \in Callees(key) /\ context.entry = callee
  <2>1. callee \in Targets(key).guest
    BY <1>1, CalleeKnown
  <2>. QED
    BY <1>2, <2>1 DEF Callees, Child
<1>5. e \in LocalEdges(key)
  BY <1>4 DEF LocalEdges, CallEdges
<1>6. /\ e.state = CalleeState(Start(key), context, key[2])
      /\ e.source = Top.unit /\ e.target = callee /\ e.kind = "internal_call"
      /\ Key(e) = <<callee, context>>
  BY <1>2, <1>4, EdgeParts
<1>7. Start(key) \in States
  BY <1>2, CompleteKey
<1>8. e.state.reg = Start(key).reg /\ e.state.cell = Start(key).cell
  BY <1>6, <1>7 DEF CalleeState, States
<1>9. /\ callee \in Units /\ <<callee, context>> \in DOMAIN states
      /\ Covers(states[<<callee, context>>].reg, RegNow)
      /\ Covers(states[<<callee, context>>].cell, CellNow)
      /\ Move(Top.unit, callee, "internal_call") \in edges
  <2> HIDE DEF key, callee, fr, context, next, e
  <2>1. Covers(e.state.reg, RegNow) /\ Covers(e.state.cell, CellNow)
    BY <1>3, <1>8
  <2>2. /\ e.target \in Units /\ Key(e) \in DOMAIN states
        /\ Covers(states[Key(e)].reg, RegNow) /\ Covers(states[Key(e)].cell, CellNow)
        /\ Move(e.source, e.target, e.kind) \in edges
    BY <1>2, <1>5, <2>1, EdgeCovers
  <2>. QED
    BY <1>6, <2>2
<1>10. fr \in Frames /\ fr.back = Top.back /\ fr.context = Top.context /\ fr.unit = Top.unit
       /\ fr.called /\ fr.unwound = 0 /\ At(fr) = key
  BY <1>2 DEF Frames, At
<1>11. next \in Frames /\ next.back = "caller" /\ next.context = context
       /\ ~next.called /\ next.unwound = 0 /\ At(next) = <<callee, context>>
  <2>1. callee \in Names /\ Top.context \in FrameContexts /\ Top.unit \in Names
    BY <1>2, <1>9 DEF Frames, Names, Addresses
  <2>2. context \in FrameContexts
    BY <2>1, GuestChildContext
  <2> HIDE DEF callee, context
  <2>. QED
    BY <2>1, <2>2, FrameType DEF Frame, At
<1>12. Linked(fr, next)
  BY <1>4, <1>10, <1>11 DEF Linked
<1>13. Held(fr) = Start(key)
  BY <1>10 DEF Held
<1>14. ~Held(fr).wrote => ~Here(Top).wrote /\ CellNow = cell
  BY <1>1, <1>3, <1>13 DEF Here
<1>18. Flows(fr.context, Held(fr))
  <2>1. Flows(Top.context, states[key])
    BY <1>1, TopFacts DEF Here
  <2>2. Flows(Top.context, Start(key))
    BY <1>2, <2>1, StartFlows
  <2>. QED
    BY <1>10, <1>13, <2>2
<1>19. Flows(next.context, states[At(next)])
  <2>1. Flows(context, states[<<callee, context>>])
    BY <1>4, <1>9, EntryFlows
  <2>. QED
    BY <1>11, <2>1
<1>15. stack' = Append(Append(SubSeq(stack, 1, Len(stack) - 1), fr), next)
       /\ reg' = RegNow /\ cell' = CellNow /\ move' = Move(Top.unit, callee, "internal_call")
  BY DEF Call, Rest
<1>16. Tracks(stack, reg, cell)
  BY DEF Simulation
<1> HIDE DEF key, callee, fr, context, next, e
<1>17. Tracks(Append(Append(SubSeq(stack, 1, Len(stack) - 1), fr), next), RegNow, CellNow)
  BY <1>2, <1>3, <1>9, <1>10, <1>11, <1>12, <1>13, <1>14, <1>16, <1>18, <1>19, TracksPushed
<1>. QED
  BY <1>9, <1>15, <1>17

\* A guest that goes on in its function follows an edge of its key.
LEMMA GotoTracks ==
  ASSUME EInv, Constructed, Simulation, Running, AtTerminator, NEW u, NEW ki,
         Edge(At(Top)[1], u, ki, Out(At(Top)), At(Top)[2]) \in LocalEdges(At(Top)),
         Goto(u, ki)
  PROVE  Tracks(stack', RegNow, CellNow) /\ move' \in edges
<1> DEFINE key == At(Top)
           e == Edge(key[1], u, ki, Out(key), key[2])
           fr == [Top EXCEPT !.unit = u, !.called = FALSE]
<1>1. /\ key \in DOMAIN states /\ key[1] = Top.unit /\ key[2] = Top.context
      /\ verdict = "complete" /\ Top \in Frames /\ Top = stack[Len(stack)]
      /\ stack \in Seq(Frames) /\ stack # <<>> /\ Top.unwound = 0
  BY TopFacts DEF Running
<1>2. /\ Covers(Out(key).reg, RegNow) /\ Covers(Out(key).cell, CellNow)
      /\ ~Out(key).wrote => ~Here(Top).wrote /\ CellNow = cell
  BY Terminator
<1>3. e \in LocalEdges(key)
  OBVIOUS
<1>4. /\ e.state = Out(key) /\ e.source = Top.unit /\ e.target = u /\ e.kind = ki
      /\ Key(e) = <<u, Top.context>>
  BY <1>1, EdgeParts
<1>5. stack' = Append(SubSeq(stack, 1, Len(stack) - 1), fr) /\ move' = Move(Top.unit, u, ki)
  BY DEF Goto, Rest
<1>6. Tracks(stack, reg, cell)
  BY DEF Simulation
<1>7. /\ e.target \in Units /\ Key(e) \in DOMAIN states
      /\ Covers(states[Key(e)].reg, RegNow) /\ Covers(states[Key(e)].cell, CellNow)
      /\ ~states[Key(e)].wrote => ~e.state.wrote
      /\ Move(e.source, e.target, e.kind) \in edges
  <2> HIDE DEF key, e
  <2>. QED
    BY <1>1, <1>2, <1>3, <1>4, EdgeCovers
<1>8. /\ fr \in Frames /\ fr.back = Top.back /\ fr.context = Top.context /\ ~fr.called
      /\ fr.unwound = 0 /\ At(fr) = <<u, Top.context>>
  BY <1>1, <1>4, <1>7 DEF Frames, At, Names, Addresses
<1> HIDE DEF key, e, fr
<1>9. At(fr) = Key(e) /\ (~states[At(fr)].wrote => ~Here(Top).wrote /\ CellNow = cell)
  BY <1>2, <1>4, <1>7, <1>8
<1>11. Flows(Top.context, Out(key))
  <2>1. Flows(Top.context, Here(Top))
    BY TopFacts
  <2>2. CASE Top.called
    BY <2>1, <2>2 DEF Here, key
  <2>3. CASE ~Top.called
    <3>1. Flows(Top.context, states[key]) /\ Out(key) = Start(key)
      BY <2>1, <2>3, Terminator DEF Here, key
    <3>. QED
      BY <1>1, <3>1, StartFlows
  <2>. QED
    BY <2>2, <2>3
<1>12. Flows(fr.context, states[At(fr)])
  <2>1. Flows(Top.context, states[Key(e)])
    BY <1>1, <1>3, <1>4, <1>11, EdgeFlows
  <2>. QED
    BY <1>8, <1>9, <2>1
<1>10. Tracks(Append(SubSeq(stack, 1, Len(stack) - 1), fr), RegNow, CellNow)
  BY <1>1, <1>6, <1>7, <1>8, <1>9, <1>12, TracksReplaced
<1>. QED
  BY <1>4, <1>5, <1>7, <1>10

\* An indirect jump goes to a target that the closure has resolved.
LEMMA JumpKnown ==
  ASSUME EInv, Constructed, Simulation, Running, AtTerminator, T.op = "indirect",
         RegNow \in Units, T.authority # {} => RegNow \in T.authority
  PROVE  JumpResolved(At(Top)) /\ RegNow \in JumpResolution(At(Top)).guest
<1> DEFINE key == At(Top)
<1>1. /\ key \in DOMAIN states /\ key[1] = Top.unit /\ T = program[Top.unit]
      /\ verdict = "complete"
  BY TopFacts
<1>2. ~Waiting(key) /\ Covers(Out(key).reg, RegNow)
  BY Terminator
<1>3. JumpResolved(key)
  BY <1>1, <1>2 DEF JumpResolved
<1>4. JumpResolution(key).known
  BY <1>1, <1>3, CompleteKey
<1> HIDE DEF key
<1>5. Inferred(key) = IF Out(key).reg \subseteq Units \cup {External}
                      THEN Resolution(TRUE, Out(key).reg \ {External}, External \in Out(key).reg)
                      ELSE Unresolved
  BY DEF Inferred, JumpTargets
<1>6. Inferred(key).known => RegNow \in Inferred(key).guest
  <2> SUFFICES ASSUME Inferred(key).known PROVE RegNow \in Inferred(key).guest
    OBVIOUS
  <2>1. Out(key).reg \subseteq Units \cup {External}
    BY <1>5 DEF Unresolved, Resolution
  <2>2. RegNow \in Out(key).reg
    BY <1>2, <2>1, KnownCovers DEF Atoms
  <2>3. RegNow # External
    BY ClosureAssumption DEF ClosureAssumption
  <2>. QED
    BY <1>5, <2>1, <2>2, <2>3 DEF Resolution
<1>7. JumpResolution(key) =
        IF T.authority = {} THEN Inferred(key)
        ELSE IF ~Inferred(key).known THEN Resolution(TRUE, T.authority, FALSE)
        ELSE IF Conflicts(key) THEN Unresolved
        ELSE Inferred(key)
  BY <1>1 DEF JumpResolution
<1>8. RegNow \in JumpResolution(key).guest
  <2>1. CASE T.authority = {}
    BY <1>4, <1>6, <1>7, <2>1
  <2>2. CASE T.authority # {} /\ ~Inferred(key).known
    BY <1>7, <2>2 DEF Resolution
  <2>3. CASE T.authority # {} /\ Inferred(key).known
    <3>1. ~Conflicts(key)
      BY <1>4, <1>7, <2>3 DEF Unresolved, Resolution
    <3>. QED
      BY <1>6, <1>7, <2>3, <3>1
  <2>. QED
    BY <2>1, <2>2, <2>3
<1>. QED
  BY <1>3, <1>8 DEF key

\* A jump or a branch leads to a state of the closure.
LEMMA AdvanceTracks ==
  ASSUME EInv, Constructed, Simulation, Advance
  PROVE  Tracks(stack', reg', cell') /\ move' \in edges
<1> DEFINE key == At(Top)
<1>1. Running /\ AtTerminator /\ T.call # "terminates" /\ Top.unit \notin BoundaryExits
      /\ reg' = RegNow /\ cell' = CellNow
  BY DEF Advance
<1>2. key[1] = Top.unit /\ T = program[Top.unit] /\ ~Waiting(key)
  BY <1>1, TopFacts, Terminator
<1>3. ASSUME NEW i \in DOMAIN T.to, T.op \in {"jump", "branch"}, Goto(T.to[i], "direct_control")
      PROVE  Tracks(stack', RegNow, CellNow) /\ move' \in edges
  <2> DEFINE e == Edge(key[1], T.to[i], "direct_control", Out(key), key[2])
  <2>1. e \in LocalEdges(key)
    BY <1>1, <1>2, <1>3 DEF LocalEdges, Successors, Continues
  <2>. QED
    BY <1>1, <1>3, <2>1, GotoTracks
<1>4. ASSUME T.op = "indirect", RegNow \in Units, T.authority # {} => RegNow \in T.authority,
             Goto(RegNow, "indirect_control")
      PROVE  Tracks(stack', RegNow, CellNow) /\ move' \in edges
  <2> DEFINE e == Edge(key[1], RegNow, "indirect_control", Out(key), key[2])
  <2>1. JumpResolved(key) /\ RegNow \in JumpResolution(key).guest
    BY <1>1, <1>4, JumpKnown
  <2>2. e \in LocalEdges(key)
    BY <1>1, <1>2, <2>1 DEF LocalEdges, IndirectEdges
  <2>. QED
    BY <1>1, <1>4, <2>2, GotoTracks
<1>. QED
  BY <1>1, <1>3, <1>4 DEF Advance

\* What the guest gives away is a root of the closure.
LEMMA RegisteredAwait ==
  ASSUME EInv, Constructed, Simulation, Running, AtTerminator
  PROVE  \A given \in Registered : Awaits(given)
<1> DEFINE key == At(Top)
           e == Edge(key[1], RegNow, "callback_escape",
                     RootState(Out(key).cell, Out(key).bindings), RootContext(RegNow, RegNow))
           new == Entrance(RegNow, CellNow, Move(Top.unit, RegNow, "callback_escape"))
<1>1. \A given \in registered : Awaits(given)
  BY DEF Simulation
<1>2. ASSUME ~Top.called, T.call = "callback", RegNow \in Units PROVE Awaits(new)
  <2>1. /\ key \in DOMAIN states /\ key[1] = Top.unit /\ T = program[Top.unit]
        /\ verdict = "complete"
    BY TopFacts
  <2>2. Covers(Out(key).cell, CellNow) /\ Covers(Start(key).reg, RegNow)
    BY <1>2, Terminator, Effect
  <2>3. Escapes(key)
    BY <1>2, <2>1 DEF Escapes
  <2>4. EscapeFound(key).known
    BY <2>1, <2>3, CompleteKey
  <2>5. CallbackKnown(Start(key).reg)
    BY <2>4 DEF EscapeFound, Unresolved, Resolution
  <2>6. RegNow \in Start(key).reg \cap Units
    BY <1>2, <2>2, <2>5, KnownCovers DEF CallbackKnown, Atoms
  <2>7. e \in LocalEdges(key)
    BY <2>3, <2>5, <2>6 DEF LocalEdges, CallbackEdges
  <2>8. /\ e.state = RootState(Out(key).cell, Out(key).bindings)
        /\ e.source = Top.unit /\ e.target = RegNow /\ e.kind = "callback_escape"
        /\ Key(e) = <<RegNow, RootContext(RegNow, RegNow)>>
    BY <2>1, EdgeParts
  <2>9. e.state.reg = Unknown /\ e.state.cell = Out(key).cell
    BY <2>8 DEF RootState
  <2>10. /\ Key(e) \in DOMAIN states /\ states[Key(e)] \in States
         /\ StateBelow(e.state, states[Key(e)])
         /\ Covers(states[Key(e)].cell, CellNow)
         /\ Move(e.source, e.target, e.kind) \in edges
    <3> HIDE DEF key, e
    <3>1. Covers(e.state.reg, RegNow) /\ Covers(e.state.cell, CellNow)
      BY <2>2, <2>9 DEF Covers
    <3>. QED
      BY <2>1, <2>7, <3>1, EdgeCovers, CompleteKey
  <2> HIDE DEF key, e
  <2>11. states[Key(e)].reg = Unknown
    <3>1. Below(Unknown, states[Key(e)].reg) /\ states[Key(e)].reg \in Values
      BY <2>9, <2>10 DEF StateBelow, States
    <3>2. Other \notin Atoms
      BY ClosureAssumption DEF ClosureAssumption
    <3>. QED
      BY <3>1, <3>2 DEF Below, Unknown, Values
  <2>12. new.unit = RegNow /\ new.cell = CellNow
         /\ new.edge = Move(Top.unit, RegNow, "callback_escape")
    BY DEF Entrance
  <2> HIDE DEF new
  <2>. QED
    BY <2>8, <2>10, <2>11, <2>12 DEF Awaits
<1>. QED
  BY <1>1, <1>2 DEF Registered

\* The calls of a key of a complete closure are resolved.
LEMMA CallsKnown ==
  ASSUME Constructed, verdict = "complete", NEW key \in DOMAIN states
  PROVE  Targets(key).known
<1>1. program[key[1]] \in Transfers /\ (program[key[1]].call = "indirect" => Targets(key).known)
  BY CompleteKey
<1>2. program[key[1]].call \in {"none", "direct", "indirect", "returns", "terminates", "callback"}
  BY <1>1 DEF Transfers
<1>. QED
  BY <1>1, <1>2 DEF Targets, CallTargets, Resolution

\* Where the guest returns, the function has a summary that covers it.
LEMMA ReturningSummary ==
  ASSUME EInv, Constructed, Simulation, Running, Returning
  PROVE  /\ Top.context \in DOMAIN summaries /\ summaries[Top.context] \in States
         /\ StateBelow(EffectSummary(Out(At(Top))), summaries[Top.context])
<1> DEFINE key == At(Top)
<1>1. /\ key \in DOMAIN states /\ key[1] = Top.unit /\ key[2] = Top.context
      /\ T = program[Top.unit] /\ verdict = "complete"
  BY TopFacts
<1>2. AtTerminator
  BY DEF Returning
<1>3. /\ ~Waiting(key) /\ Covers(Out(key).reg, RegNow)
      /\ ~Top.called /\ T.call \in {"returns", "callback", "indirect"} => Targets(key).external
  BY <1>2, Terminator
<1> HIDE DEF key
<1>4. ASSUME T.op = "indirect", RegNow = External, T.authority = {}
      PROVE  JumpResolved(key) /\ JumpResolution(key).external
  <2>1. JumpResolved(key) /\ JumpResolution(key) = Inferred(key)
    BY <1>1, <1>3, <1>4 DEF JumpResolved, JumpResolution
  <2>2. Inferred(key).known
    BY <1>1, <2>1, CompleteKey
  <2>3. Out(key).reg \subseteq Units \cup {External}
    BY <2>2 DEF Inferred, JumpTargets, Unresolved, Resolution
  <2>4. External \in Out(key).reg
    BY <1>3, <1>4, <2>3, KnownCovers DEF Atoms
  <2>5. (External \in Out(key).reg) = TRUE
    BY <2>4
  <2>6. Inferred(key) = [known |-> TRUE, guest |-> Out(key).reg \ {External}, external |-> TRUE]
    BY <2>3, <2>5 DEF Inferred, JumpTargets, Resolution
  <2>. QED
    BY <2>1, <2>6
<1>5. Returns(key)
  BY <1>1, <1>3, <1>4 DEF Returns, Returning
<1>6. \A context \in DOMAIN summaries : summaries[context] \in States
  BY DEF Constructed, Typed, TypeOK, PartialFunction
<1>. QED
  BY <1>1, <1>5, <1>6, CompleteKey DEF key

\* A return goes on behind the call in a state of the closure.
LEMMA ReturnToCaller ==
  ASSUME EInv, Constructed, Simulation, CallsReturn, Running, Returning, Top.back = "caller"
  PROVE  Tracks(Rest, RegNow, CellNow)
<1> DEFINE n == Len(stack)
           prev == stack[n - 1]
           caller == At(prev)
           back == ReturnState(summaries[Top.context], Start(caller))
<1>1. /\ verdict = "complete" /\ stack \in Seq(Frames) /\ n \in Nat \ {0} /\ Top = stack[n]
      /\ At(Top) \in DOMAIN states
  BY TopFacts
<1>2. n # 1 /\ n - 1 \in 1 .. n /\ n - 1 \in 1 .. n - 1
  <2>1. n \in 1 .. n
    BY <1>1
  <2>2. n # 1
    BY <1>1, <2>1, StackFacts
  <2> HIDE DEF n
  <2>. QED
    BY <1>1, <2>2
<1>3. prev \in Frames /\ caller \in DOMAIN states
  BY <1>2, StackFacts
<1>4. Linked(prev, Top) /\ Tracks(stack, reg, cell) /\ Flows(prev.context, Held(prev))
      /\ (Silent(stack, n - 1) => Covers(Held(prev).cell, cell))
  <2>1. (n - 1) + 1 = n
    BY <1>1
  <2>. QED
    BY <1>1, <1>2, <2>1 DEF Simulation, Tracks
<1>5. prev.called /\ prev.unwound = 0 /\ Top.context \in Callees(caller)
  BY <1>4 DEF Linked
<1>6. /\ Top.context \in DOMAIN summaries /\ summaries[Top.context] \in States
      /\ StateBelow(EffectSummary(Out(At(Top))), summaries[Top.context])
  BY ReturningSummary
<1>7. /\ Covers(Out(At(Top)).reg, RegNow) /\ Covers(Out(At(Top)).cell, CellNow)
      /\ ~Out(At(Top)).wrote => ~Here(Top).wrote /\ CellNow = cell
  BY Terminator DEF Returning
<1>8. Start(caller) \in States /\ Out(caller) \in States /\ Out(At(Top)) \in States
  BY <1>1, <1>3, CompleteKey
<1>9. Held(prev) = Start(caller)
  BY <1>5 DEF Held
<1>10. ~Here(Top).wrote => Silent(stack, n - 1)
  BY <1>1 DEF Silent
<1> HIDE DEF n, prev, caller
<1>11. ~Waiting(caller)
  <2>1. Callees(caller) \subseteq DOMAIN summaries
    BY <1>1, <1>3, <1>5, <1>6 DEF CallsReturn
  <2>. QED
    BY <1>1, <1>3, <2>1, CallsKnown DEF Waiting
<1>12. /\ Covers(back.reg, RegNow) /\ Covers(back.cell, CellNow)
       /\ ~back.wrote => ~Out(At(Top)).wrote /\ ~Start(caller).wrote
  <2>1. ~Out(At(Top)).wrote => Covers(Start(caller).cell, CellNow)
    BY <1>4, <1>7, <1>9, <1>10
  <2>. QED
    BY <1>6, <1>7, <1>8, <2>1, ReturnCovers
<1>13. StateBelow(back, Out(caller))
  <2> DEFINE S == {ReturnState(summaries[context], Start(caller)) : context \in Callees(caller)}
  <2>1. Out(caller) = JoinStates(S)
    BY <1>5, <1>11 DEF Out
  <2>2. back \in S
    BY <1>5
  <2> HIDE DEF S, back
  <2>. QED
    BY <2>1, <2>2, JoinedStateAbove
<1> HIDE DEF back
<1>14. /\ Covers(Out(caller).reg, RegNow) /\ Covers(Out(caller).cell, CellNow)
       /\ ~Out(caller).wrote => ~Held(prev).wrote /\ ~Here(Top).wrote /\ CellNow = cell
  BY <1>7, <1>8, <1>9, <1>12, <1>13, CoversStateAbove
<1>15. n > 1
  BY <1>1, <1>2
<1>16. Flows(prev.context, Out(caller))
  BY <1>1, <1>3, <1>4, <1>9, <1>11, OutFlows
<1>. QED
  BY <1>1, <1>4, <1>5, <1>11, <1>14, <1>15, <1>16, TracksPopped DEF Rest, n, prev, caller

\* The states of a fault's functions, as far as their summaries are known.
LEMMA ContinuationSteps ==
  ASSUME Typed, NEW key \in DOMAIN states
  PROVE  /\ Len(Unwinders(key)) \in Nat
         /\ Continuation(key)[0] = Start(key)
         /\ \A i \in 1 .. Len(Unwinders(key)) :
              Continuation(key)[i] = ReturnState(summaries[UnwindContext(key[2], key[1], i)],
                                                 Continuation(key)[i - 1])
<1> DEFINE n == Len(Unwinders(key))
           c == Compose(n, Start(key), Unwound(key))
<1>1. n \in Nat
  BY TransferType
<1>2. Continuation(key) = c
  BY ContinuationComposes
<1>3. \A i \in 1 .. n : Unwound(key)[i] = summaries[UnwindContext(key[2], key[1], i)]
  BY DEF Unwound
<1>4. c = [i \in 0 .. n |-> IF i = 0 THEN Start(key) ELSE ReturnState(Unwound(key)[i], c[i - 1])]
  BY <1>1, ComposeUnfolds
<1> HIDE DEF c, n
<1>5. Continuation(key)[0] = Start(key)
  BY <1>1, <1>2, <1>4
<1>6. ASSUME NEW i \in 1 .. n
      PROVE  Continuation(key)[i] = ReturnState(summaries[UnwindContext(key[2], key[1], i)],
                                                Continuation(key)[i - 1])
  <2>1. i \in 0 .. n /\ i # 0
    BY <1>1
  <2>. QED
    BY <1>2, <1>3, <1>4, <2>1
<1>. QED
  BY <1>1, <1>5, <1>6 DEF n

\* The state that a fault goes on with, after so many of its functions have returned.
FaultState(fr) ==
  IF fr.unwound <= Len(Unwinders(At(fr))) THEN Continuation(At(fr))[fr.unwound]
  ELSE ReturnState(summaries[HandlerContext(At(fr))],
                   Continuation(At(fr))[Len(Unwinders(At(fr)))])

\* A fault that may go on is at one of its functions, or at what it resumes.
GoesOn(fr) ==
  /\ Handled(At(fr))
  /\ \/ /\ fr.unwound \in 0 .. Len(Unwinders(At(fr)))
        /\ Composed(At(fr), fr.unwound)
     \/ /\ fr.unwound = Len(Unwinders(At(fr))) + 1
        /\ Resumes(At(fr))

\* Stacks of one and of two activations.
LEMMA SmallStacks ==
  ASSUME NEW fr \in Frames, NEW next
  PROVE  /\ Len(<<fr>>) = 1 /\ <<fr>>[1] = fr /\ SubSeq(<<fr>>, 1, Len(<<fr>>) - 1) = <<>>
         /\ Append(<<>>, next) = <<next>>
         /\ Append(Append(<<>>, fr), next) = <<fr, next>>
<1>1. Len(<<fr>>) = 1 /\ <<fr>>[1] = fr /\ <<fr>> \in Seq(Frames)
  OBVIOUS
<1>2. 1 - 1 = 0 /\ 0 \in 0 .. Len(<<fr>>)
  BY <1>1
<1>3. SubSeq(<<fr>>, 1, 0) \in Seq(Frames) /\ Len(SubSeq(<<fr>>, 1, 0)) = 0
  BY <1>2, PrefixFacts
<1>4. SubSeq(<<fr>>, 1, 0) = <<>>
  BY <1>3, EmptySeq
<1>5. Append(<<>>, next) = <<next>>
  OBVIOUS
<1>6. Append(<<fr>>, next) = <<fr, next>>
  <2> DEFINE S == {fr, next}
             s == <<fr>>
             t == <<fr, next>>
  <2>1. s \in Seq(S) /\ next \in S /\ t \in Seq(S)
    OBVIOUS
  <2>2. Len(s) = 1 /\ s[1] = fr /\ Len(t) = 2 /\ t[1] = fr /\ t[2] = next
    OBVIOUS
  <2> HIDE DEF S, s, t
  <2>3. /\ Append(s, next) \in Seq(S) /\ Len(Append(s, next)) = Len(s) + 1
        /\ Append(s, next)[Len(s) + 1] = next
        /\ \A j \in 1 .. Len(s) : Append(s, next)[j] = s[j]
    BY <2>1, AppendProperties
  <2>4. Len(Append(s, next)) = 2 /\ \A j \in 1 .. 2 : Append(s, next)[j] = t[j]
    BY <2>2, <2>3
  <2>5. Append(s, next) = t
    BY <2>1, <2>2, <2>3, <2>4, SeqEqual
  <2>. QED
    BY <2>5 DEF s, t
<1>7. Append(<<>>, fr) = <<fr>>
  OBVIOUS
<1>. QED
  BY <1>1, <1>2, <1>4, <1>5, <1>6, <1>7

\* The next step of a fault is tracked: an unwind function, the handler, what it resumes.
LEMMA FaultGoesOn ==
  ASSUME Constructed, verdict = "complete",
         NEW fr \in Frames, fr.back = "host", ~fr.called, At(fr) \in DOMAIN states, GoesOn(fr),
         Flows(fr.context, FaultState(fr)),
         NEW v, NEW c, Covers(FaultState(fr).reg, v), Covers(FaultState(fr).cell, c)
  PROVE  Tracks(AfterFault(<<fr>>), v, c) /\ FaultMove(<<fr>>) \in edges
<1> DEFINE key == At(fr)
           fault == program[fr.unit].fault
           n == Len(Unwinders(key))
           i == fr.unwound
           root == fr.context.root
           source(j) == IF j = 0 THEN key[1] ELSE fault.unwind[j]
           again == [fr EXCEPT !.unwound = i + 1]
           handling == Frame(fault.handler, RootContext(root, fault.handler), "fault")
<1>1. key[1] = fr.unit /\ key[2] = fr.context /\ key \in DOMAIN states
  BY DEF At
<1>2. /\ Unwinders(key) = fault.unwind /\ n = Len(fault.unwind)
      /\ HandlerContext(key) = RootContext(root, fault.handler)
  BY <1>1 DEF Unwinders, HandlerContext
<1>3. Typed
  BY DEF Constructed
<1>4. n \in Nat /\ i \in Nat
  BY <1>1, <1>3, ContinuationSteps DEF Frames
<1>5. /\ again.back = "host" /\ ~again.called /\ again.unwound = i + 1
      /\ At(again) = key /\ again.unit = fr.unit /\ again.context = fr.context
  BY DEF Frames, At
<1>6. /\ handling.back = "fault" /\ ~handling.called /\ handling.unwound = 0
      /\ At(handling) = <<fault.handler, RootContext(root, fault.handler)>>
      /\ handling.context = RootContext(root, fault.handler)
  BY DEF Frame, At
<1>7. \/ i \in 0 .. n /\ Composed(key, i)
      \/ i = n + 1 /\ Resumes(key)
  BY DEF GoesOn
<1>8. Handled(key)
  BY DEF GoesOn
<1>9. /\ Len(<<fr>>) = 1 /\ <<fr>>[1] = fr /\ SubSeq(<<fr>>, 1, Len(<<fr>>) - 1) = <<>>
      /\ <<fr>>[Len(<<fr>>)] = fr
      /\ \A other : Append(<<>>, other) = <<other>>
      /\ \A other : Append(Append(<<>>, again), other) = <<again, other>>
  <2>1. again \in Frames
    BY <1>4 DEF Frames
  <2>2. \A other : Append(Append(<<>>, again), other) = <<again, other>>
    <3> HIDE DEF again
    <3>. QED
      BY <2>1, SmallStacks
  <2>. QED
    BY <2>2, SmallStacks
<1>10. AfterFault(<<fr>>) =
         IF i + 1 <= n
         THEN <<again, Frame(fault.unwind[i + 1], UnwindContext(fr.context, fr.unit, i + 1), "fault")>>
         ELSE IF i + 1 = n + 1
         THEN IF fault.resume = Outside THEN <<[handling EXCEPT !.back = fr.back]>>
              ELSE <<again, handling>>
         ELSE <<Frame(fault.resume, RootContext(root, fault.resume), fr.back)>>
  <2> DEFINE one == <<fr>>
             old == program[one[Len(one)].unit].fault
  <2>1. one[Len(one)] = fr /\ SubSeq(one, 1, Len(one) - 1) = <<>> /\ old = fault
    BY <1>9
  <2> HIDE DEF one, old
  <2>2. \A other : Append(SubSeq(one, 1, Len(one) - 1), other) = <<other>>
    BY <1>9, <2>1
  <2>3. \A other : Append(Append(SubSeq(one, 1, Len(one) - 1), again), other) = <<again, other>>
    BY <1>9, <2>1
  <2>4. AfterFault(one) =
          LET faulted == one[Len(one)]
              below == SubSeq(one, 1, Len(one) - 1)
              next == Frame(old.handler, RootContext(faulted.context.root, old.handler), "fault")
          IN  IF faulted.unwound + 1 <= Len(old.unwind)
              THEN Append(Append(below, [faulted EXCEPT !.unwound = faulted.unwound + 1]),
                          Frame(old.unwind[faulted.unwound + 1],
                                UnwindContext(faulted.context, faulted.unit, faulted.unwound + 1),
                                "fault"))
              ELSE IF faulted.unwound + 1 = Len(old.unwind) + 1
              THEN IF old.resume = Outside THEN Append(below, [next EXCEPT !.back = faulted.back])
                   ELSE Append(Append(below, [faulted EXCEPT !.unwound = faulted.unwound + 1]), next)
              ELSE Append(below, Frame(old.resume, RootContext(faulted.context.root, old.resume),
                                       faulted.back))
    BY DEF AfterFault, old
  <2>. QED
    BY <1>2, <2>1, <2>2, <2>3, <2>4, Zenon DEF one
<1>11. FaultMove(<<fr>>) =
         IF i < n THEN Move(IF i = 0 THEN fr.unit ELSE IF i <= n THEN fault.unwind[i] ELSE fault.handler,
                            fault.unwind[i + 1], "exception_unwind")
         ELSE IF i = n
         THEN Move(IF i = 0 THEN fr.unit ELSE IF i <= n THEN fault.unwind[i] ELSE fault.handler,
                   fault.handler, "exception_handler")
         ELSE Move(IF i = 0 THEN fr.unit ELSE IF i <= n THEN fault.unwind[i] ELSE fault.handler,
                   fault.resume, "exception_resumption")
  BY <1>2, <1>9 DEF FaultMove
<1>12. FaultEdges(key) =
         {Edge(source(j - 1), fault.unwind[j], "exception_unwind",
               Continuation(key)[j - 1], UnwindContext(key[2], key[1], j)) : j \in Unwinding(key)}
         \cup (IF AtHandler(key)
               THEN {Edge(source(n), fault.handler, "exception_handler",
                          Continuation(key)[n], HandlerContext(key))} ELSE {})
         \cup (IF Resumes(key)
               THEN {Edge(fault.handler, fault.resume, "exception_resumption",
                          ReturnState(summaries[HandlerContext(key)], Continuation(key)[n]),
                          RootContext(key[2].root, fault.resume))} ELSE {})
  BY <1>1, <1>2 DEF FaultEdges
<1>13. FaultState(fr) = IF i <= n THEN Continuation(key)[i]
                        ELSE ReturnState(summaries[HandlerContext(key)], Continuation(key)[n])
  BY DEF FaultState
<1>14. ASSUME NEW e \in FaultEdges(key), e.state = FaultState(fr)
       PROVE  /\ Key(e) \in DOMAIN states
              /\ Covers(states[Key(e)].reg, v) /\ Covers(states[Key(e)].cell, c)
              /\ Move(e.source, e.target, e.kind) \in edges
  <2> HIDE DEF key
  <2>1. e \in LocalEdges(key)
    BY DEF LocalEdges
  <2>. QED
    BY <1>1, <1>14, <2>1, EdgeCovers
<1>15. Unwinding(key) = {j \in 1 .. n : Composed(key, j - 1)}
  BY <1>8 DEF Unwinding
<1>16. /\ AtHandler(key) <=> Composed(key, n)
       /\ WantsResumption(key) <=> Composed(key, n) /\ fault.resume # Outside
  BY <1>1, <1>8 DEF AtHandler, WantsResumption
<1> HIDE DEF key, fault, n, i, root, again, handling
<1>18. CASE i < n
  <2> DEFINE context == UnwindContext(fr.context, fr.unit, i + 1)
             next == Frame(fault.unwind[i + 1], context, "fault")
             e == Edge(source(i), fault.unwind[i + 1], "exception_unwind",
                       Continuation(key)[i], UnwindContext(key[2], key[1], i + 1))
  <2>1. Composed(key, i) /\ i + 1 \in 1 .. n /\ (i + 1) - 1 = i
    BY <1>4, <1>7, <1>18
  <2>2. i + 1 \in Unwinding(key)
    BY <1>15, <2>1
  <2>3. e \in FaultEdges(key)
    BY <1>12, <2>1, <2>2
  <2>4. /\ e.state = Continuation(key)[i] /\ Key(e) = <<fault.unwind[i + 1], context>>
        /\ e.source = source(i) /\ e.target = fault.unwind[i + 1] /\ e.kind = "exception_unwind"
    BY <1>1, EdgeParts
  <2>5. /\ next.back = "fault" /\ ~next.called /\ next.unwound = 0 /\ next.context = context
        /\ At(next) = <<fault.unwind[i + 1], context>>
    BY DEF Frame, At
  <2>6. AfterFault(<<fr>>) = <<again, next>> /\ FaultMove(<<fr>>) = Move(e.source, e.target, e.kind)
    <3>1. i + 1 <= n /\ i <= n
      BY <1>4, <1>18
    <3>. QED
      BY <1>1, <1>10, <1>11, <1>18, <2>4, <3>1
  <2>7. FaultState(fr) = Continuation(key)[i] /\ Held(again) = Continuation(key)[i]
    BY <1>4, <1>5, <1>13, <1>18, <2>1 DEF Held
  <2>8. Linked(again, next)
    BY <1>2, <1>5, <1>8, <2>1, <2>5 DEF Linked, Unwinds, n
  <2> HIDE DEF e, next, context
  <2>9. /\ Key(e) \in DOMAIN states
        /\ Covers(states[Key(e)].reg, v) /\ Covers(states[Key(e)].cell, c)
        /\ Move(e.source, e.target, e.kind) \in edges
    BY <1>14, <2>3, <2>4, <2>7
  <2>11. Flows(again.context, Held(again)) /\ Flows(next.context, states[At(next)])
    <3>1. context.entry = fault.unwind[i + 1]
      BY DEF context, UnwindContext, fault
    <3>. QED
      BY <1>5, <2>4, <2>5, <2>7, <2>9, <3>1, EntryFlows
  <2>10. Tracks(<<again, next>>, v, c)
    BY <1>1, <1>5, <2>4, <2>5, <2>7, <2>8, <2>9, <2>11, TracksTwo
  <2>. QED
    BY <2>6, <2>9, <2>10
<1>19. CASE i = n
  <2> DEFINE e == Edge(source(n), fault.handler, "exception_handler",
                       Continuation(key)[n], HandlerContext(key))
  <2>1. Composed(key, n) /\ i + 1 = n + 1 /\ ~(i + 1 <= n) /\ i <= n /\ ~(i < n)
    BY <1>4, <1>7, <1>19
  <2>2. e \in FaultEdges(key)
    BY <1>12, <1>16, <2>1
  <2>3. /\ e.state = Continuation(key)[n] /\ Key(e) = At(handling)
        /\ e.source = source(n) /\ e.target = fault.handler /\ e.kind = "exception_handler"
    BY <1>2, <1>6, EdgeParts
  <2>4. FaultMove(<<fr>>) = Move(e.source, e.target, e.kind)
    BY <1>1, <1>11, <1>19, <2>1, <2>3
  <2>5. FaultState(fr) = Continuation(key)[n]
    BY <1>13, <1>19, <2>1
  <2> HIDE DEF e
  <2>6. /\ At(handling) \in DOMAIN states
        /\ Covers(states[At(handling)].reg, v) /\ Covers(states[At(handling)].cell, c)
        /\ Move(e.source, e.target, e.kind) \in edges
    BY <1>14, <2>2, <2>3, <2>5
  <2>9. Flows(handling.context, states[At(handling)])
    <3>1. handling.context.entry = fault.handler
      BY <1>6 DEF RootContext
    <3>. QED
      BY <1>6, <2>6, <3>1, EntryFlows
  <2>7. CASE fault.resume = Outside
    <3> DEFINE last == [handling EXCEPT !.back = fr.back]
    <3>1. last.back = "host" /\ ~last.called /\ last.unwound = 0 /\ At(last) = At(handling)
      BY <1>6 DEF handling, Frame, At
    <3>4. last.context = handling.context
      BY DEF handling, Frame
    <3> HIDE DEF last
    <3>3. Flows(last.context, states[At(last)])
      BY <2>6, <2>9, <3>1, <3>4
    <3>2. Tracks(<<last>>, v, c)
      BY <2>6, <3>1, <3>3, TracksOne
    <3>. QED
      BY <1>10, <2>1, <2>4, <2>6, <2>7, <3>2 DEF last
  <2>8. CASE fault.resume # Outside
    <3>1. AfterFault(<<fr>>) = <<again, handling>>
      BY <1>10, <2>1, <2>8
    <3>2. WantsResumption(key)
      BY <1>16, <2>1, <2>8
    <3>3. Linked(again, handling)
      BY <1>2, <1>5, <1>6, <1>8, <2>1, <3>2 DEF Linked, Unwinds, n
    <3>4. Held(again) = Continuation(key)[n]
      <4>1. (i + 1) - 1 = n
        BY <1>4, <1>19
      <4>. QED
        BY <1>5, <4>1 DEF Held
    <3>6. Flows(again.context, Held(again))
      BY <1>5, <2>5, <3>4
    <3>5. Tracks(<<again, handling>>, v, c)
      BY <1>1, <1>5, <1>6, <2>5, <2>6, <2>9, <3>3, <3>4, <3>6, TracksTwo
    <3>. QED
      BY <2>4, <2>6, <3>1, <3>5
  <2>. QED
    BY <2>7, <2>8
<1>20. CASE i = n + 1
  <2> DEFINE context == RootContext(root, fault.resume)
             last == Frame(fault.resume, context, fr.back)
             e == Edge(fault.handler, fault.resume, "exception_resumption",
                       ReturnState(summaries[HandlerContext(key)], Continuation(key)[n]),
                       RootContext(key[2].root, fault.resume))
  <2>1. ~(i <= n) /\ ~(i < n) /\ i # n /\ i # 0 /\ ~(i + 1 <= n) /\ i + 1 # n + 1
    BY <1>4, <1>20
  <2>2. Resumes(key)
    BY <1>4, <1>7, <2>1
  <2>3. e \in FaultEdges(key)
    BY <1>12, <2>2
  <2>4. /\ e.state = ReturnState(summaries[HandlerContext(key)], Continuation(key)[n])
        /\ Key(e) = <<fault.resume, context>>
        /\ e.source = fault.handler /\ e.target = fault.resume /\ e.kind = "exception_resumption"
    BY <1>1, EdgeParts DEF root
  <2>5. last.back = "host" /\ ~last.called /\ last.unwound = 0 /\ At(last) = <<fault.resume, context>>
    BY DEF Frame, At
  <2>6. AfterFault(<<fr>>) = <<last>> /\ FaultMove(<<fr>>) = Move(e.source, e.target, e.kind)
    BY <1>10, <1>11, <2>1, <2>4
  <2>7. FaultState(fr) = e.state
    BY <1>13, <2>1, <2>4
  <2> HIDE DEF e, last, context
  <2>8. /\ Key(e) \in DOMAIN states
        /\ Covers(states[Key(e)].reg, v) /\ Covers(states[Key(e)].cell, c)
        /\ Move(e.source, e.target, e.kind) \in edges
    BY <1>14, <2>3, <2>7
  <2>10. Flows(last.context, states[At(last)])
    <3>1. context.entry = fault.resume
      BY DEF context, RootContext
    <3>2. last.context = context
      BY DEF last, Frame
    <3>. QED
      BY <2>4, <2>5, <2>8, <3>1, <3>2, EntryFlows
  <2>9. Tracks(<<last>>, v, c)
    BY <2>4, <2>5, <2>8, <2>10, TracksOne
  <2>. QED
    BY <2>6, <2>8, <2>9
<1>. QED
  BY <1>4, <1>7, <1>18, <1>19, <1>20

\* A fault goes on behind its unwind function, or behind its handler.
LEMMA ReturnToFault ==
  ASSUME EInv, Constructed, Simulation, Running, Returning, Top.back = "fault"
  PROVE  Tracks(AfterFault(Rest), RegNow, CellNow) /\ FaultMove(Rest) \in edges
<1> DEFINE n == Len(stack)
           fr == stack[1]
           key == At(fr)
           out == Out(At(Top))
           summary == summaries[Top.context]
           m == Len(Unwinders(key))
<1>1. /\ verdict = "complete" /\ stack \in Seq(Frames) /\ n \in Nat \ {0} /\ Top = stack[n]
      /\ At(Top) \in DOMAIN states
  BY TopFacts
<1>2. n = 2 /\ fr \in Frames /\ key \in DOMAIN states /\ Linked(fr, Top) /\ fr.back = "host"
      /\ Flows(fr.context, Held(fr))
      /\ (Silent(stack, 1) => Covers(Held(fr).cell, cell))
  <2>1. n \in 1 .. n
    BY <1>1
  <2>2. n # 1
    BY <1>1, <2>1, StackFacts
  <2>3. n - 1 \in 1 .. n /\ n - 1 \in 1 .. n - 1 /\ (n - 1) + 1 = n
    <3> HIDE DEF n
    <3>. QED
      BY <1>1, <2>2
  <2>0. \A i \in 1 .. n - 1 : Linked(stack[i], stack[i + 1])
    BY DEF Simulation, Tracks
  <2>4. Linked(stack[n - 1], Top)
    <3> HIDE DEF n
    <3>. QED
      BY <1>1, <2>0, <2>3
  <2>5. stack[n - 1].back = "host"
    BY <2>4 DEF Linked
  <2>6. n - 1 = 1
    BY <2>3, <2>5, StackFacts
  <2>7. 1 \in 1 .. n
    BY <2>3, <2>6
  <2>8. n = 2
    BY <1>1, <2>6
  <2>9. fr \in Frames /\ key \in DOMAIN states
    BY <2>7, StackFacts
  <2>. QED
    BY <2>3, <2>4, <2>5, <2>6, <2>8, <2>9 DEF Simulation, Tracks
<1>3. ~fr.called /\ Unwinds(fr, Top)
  BY <1>2 DEF Linked
<1>4. Rest = <<fr>>
  <2>1. Len(Rest) = 1 /\ Rest[1] = fr /\ Rest \in Seq(Frames)
    <3>1. n - 1 = 1 /\ n - 1 \in 0 .. Len(stack)
      BY <1>1, <1>2
    <3>2. Rest = SubSeq(stack, 1, 1) /\ 1 \in 0 .. Len(stack)
      BY <3>1 DEF Rest
    <3> HIDE DEF fr
    <3>3. 1 \in 1 .. 1
      OBVIOUS
    <3>. QED
      BY <1>1, <3>2, <3>3, PrefixFacts DEF fr
  <2>2. <<fr>> \in Seq(Frames) /\ Len(<<fr>>) = 1 /\ <<fr>>[1] = fr
    BY <1>2
  <2> HIDE DEF fr
  <2>3. \A j \in 1 .. Len(Rest) : Rest[j] = <<fr>>[j]
    BY <2>1, <2>2
  <2>. QED
    BY <2>1, <2>2, <2>3, SeqEqual
<1>5. Typed
  BY DEF Constructed
<1>6. /\ m \in Nat /\ Continuation(key)[0] = Start(key)
      /\ \A i \in 1 .. m :
           Continuation(key)[i] = ReturnState(summaries[UnwindContext(key[2], key[1], i)],
                                              Continuation(key)[i - 1])
  BY <1>2, <1>5, ContinuationSteps
<1>7. /\ Top.context \in DOMAIN summaries /\ summary \in States
      /\ StateBelow(EffectSummary(out), summary)
  BY ReturningSummary
<1>8. /\ Covers(out.reg, RegNow) /\ Covers(out.cell, CellNow)
      /\ ~out.wrote => ~Here(Top).wrote /\ CellNow = cell
  BY Terminator DEF Returning
<1>9. out \in States
  BY <1>1, CompleteKey
<1>10. Held(fr) = Continuation(key)[fr.unwound - 1]
  BY <1>3 DEF Held
<1>11. ~out.wrote => Covers(Held(fr).cell, CellNow)
  <2>1. ~Here(Top).wrote => Silent(stack, 1)
    <3>1. \A j \in 1 + 1 .. n - 1 : FALSE
      BY <1>2
    <3>. QED
      BY <1>1, <3>1 DEF Silent
  <2>. QED
    BY <1>2, <1>8, <2>1
<1>12. key[1] = fr.unit /\ key[2] = fr.context
  BY DEF At
<1>13. Handled(key) /\ (\/ /\ fr.unwound \in 1 .. m /\ Composed(key, fr.unwound - 1)
                           /\ Top.context = UnwindContext(fr.context, fr.unit, fr.unwound)
                        \/ /\ fr.unwound = m + 1 /\ WantsResumption(key)
                           /\ Top.context = HandlerContext(key))
  BY <1>3 DEF Unwinds
<1>14. fr.unwound \in Nat
  BY <1>2 DEF Frames
<1>15. FaultState(fr) = IF fr.unwound <= m THEN Continuation(key)[fr.unwound]
                        ELSE ReturnState(summaries[HandlerContext(key)], Continuation(key)[m])
  BY DEF FaultState
<1>16. /\ GoesOn(fr) <=> /\ Handled(key)
                         /\ \/ fr.unwound \in 0 .. m /\ Composed(key, fr.unwound)
                            \/ fr.unwound = m + 1 /\ Resumes(key)
  BY DEF GoesOn
<1>17. ASSUME NEW i \in 0 .. m, Composed(key, i) PROVE Continuation(key)[i] \in States
  BY <1>2, <1>5, <1>17, ContinuationType
<1> HIDE DEF key, fr, m, out, summary, n
<1>18. CASE /\ fr.unwound \in 1 .. m /\ Composed(key, fr.unwound - 1)
            /\ Top.context = UnwindContext(fr.context, fr.unit, fr.unwound)
  <2> DEFINE i == fr.unwound
  <2>1. i \in 1 .. m /\ i - 1 \in 0 .. m /\ i \in 0 .. m /\ i <= m
    BY <1>6, <1>18
  <2> HIDE DEF i
  <2>2. Continuation(key)[i] = ReturnState(summary, Continuation(key)[i - 1])
    BY <1>6, <1>12, <1>18, <2>1 DEF summary, i
  <2>3. Composed(key, i)
    <3>1. \A j \in 1 .. i : j = i \/ j \in 1 .. i - 1
      BY <2>1
    <3>. QED
      BY <1>7, <1>12, <1>18, <3>1 DEF Composed, i
  <2>4. Continuation(key)[i - 1] \in States
    BY <1>17, <1>18, <2>1 DEF i
  <2>5. /\ FaultState(fr) = ReturnState(summary, Continuation(key)[i - 1]) /\ GoesOn(fr)
        /\ Held(fr) = Continuation(key)[i - 1]
    BY <1>10, <1>13, <1>15, <1>16, <2>1, <2>2, <2>3 DEF i
  <2>6. Covers(FaultState(fr).reg, RegNow) /\ Covers(FaultState(fr).cell, CellNow)
    BY <1>7, <1>8, <1>9, <1>11, <2>4, <2>5, ReturnCovers
  <2>7. Flows(fr.context, FaultState(fr))
    BY <1>2, <2>5, ReturnFlows
  <2>. QED
    BY <1>1, <1>2, <1>3, <1>4, <2>5, <2>6, <2>7, FaultGoesOn DEF key
<1>19. CASE /\ fr.unwound = m + 1 /\ WantsResumption(key)
            /\ Top.context = HandlerContext(key)
  <2>1. ~(fr.unwound <= m) /\ fr.unwound - 1 = m /\ m \in 0 .. m
    BY <1>6, <1>19
  <2>2. Composed(key, m)
    BY <1>19 DEF WantsResumption, AtHandler, m
  <2>3. Continuation(key)[m] \in States
    BY <1>17, <2>1, <2>2
  <2>4. Resumes(key) /\ GoesOn(fr)
    BY <1>7, <1>13, <1>16, <1>19 DEF Resumes
  <2>5. FaultState(fr) = ReturnState(summary, Continuation(key)[m])
        /\ Held(fr) = Continuation(key)[m]
    BY <1>10, <1>15, <1>19, <2>1 DEF summary
  <2>6. Covers(FaultState(fr).reg, RegNow) /\ Covers(FaultState(fr).cell, CellNow)
    BY <1>7, <1>8, <1>9, <1>11, <2>3, <2>5, ReturnCovers
  <2>7. Flows(fr.context, FaultState(fr))
    BY <1>2, <2>5, ReturnFlows
  <2>. QED
    BY <1>1, <1>2, <1>3, <1>4, <2>4, <2>6, <2>7, FaultGoesOn DEF key
<1>. QED
  BY <1>13, <1>18, <1>19

\* A return goes on in the caller, in the fault, or not at all.
LEMMA ReturnTracks ==
  ASSUME EInv, Constructed, Simulation, CallsReturn, Return
  PROVE  Tracks(stack', reg', cell') /\ (move' # NoMove => move' \in edges)
<1>1. Running /\ Returning /\ reg' = RegNow /\ cell' = CellNow
  BY DEF Return
<1>2. Top \in Frames /\ Top = stack[Len(stack)] /\ Len(stack) \in Nat \ {0}
      /\ stack \in Seq(Frames)
  BY <1>1, TopFacts
<1>3. CASE Top.back = "fault"
  BY <1>1, <1>3, ReturnToFault DEF Return
<1>4. CASE Top.back = "caller"
  BY <1>1, <1>4, ReturnToCaller DEF Return
<1>5. CASE Top.back = "host"
  <2>1. Len(stack) \in 1 .. Len(stack)
    BY <1>2
  <2>2. Len(stack) = 1
    BY <1>2, <1>5, <2>1, StackFacts
  <2>3. Rest = SubSeq(stack, 1, 0) /\ 0 \in 0 .. Len(stack)
    BY <2>2 DEF Rest
  <2>4. Len(Rest) = 0 /\ Rest \in Seq(Frames)
    BY <1>2, <2>3, PrefixFacts
  <2>5. Rest = <<>>
    BY <2>4, EmptySeq
  <2>6. stack' = Rest /\ move' = NoMove
    BY <1>5 DEF Return
  <2>7. Tracks(<<>>, RegNow, CellNow)
    BY DEF Tracks
  <2>. QED
    BY <1>1, <2>5, <2>6, <2>7
<1>. QED
  BY <1>2, <1>3, <1>4, <1>5 DEF Frames

\* A fault in a function that the host has entered goes to an unwind function or the handler.
LEMMA FaultTracks ==
  ASSUME EInv, Constructed, Simulation, ~FaultInCallee, Fault
  PROVE  Tracks(stack', reg', cell') /\ move' \in edges
<1> DEFINE key == At(Top)
<1>1. Running /\ ~Top.called /\ T.fault.kind = "handled" /\ Top.back = "host"
      /\ stack' = AfterFault(stack) /\ move' = FaultMove(stack)
      /\ reg' = RegNow /\ cell' = CellNow
  BY DEF Fault
<1>2. /\ verdict = "complete" /\ stack \in Seq(Frames) /\ Len(stack) \in Nat \ {0}
      /\ Top = stack[Len(stack)] /\ Top \in Frames /\ key \in DOMAIN states
      /\ key[1] = Top.unit /\ T = program[Top.unit] /\ Top.unwound = 0
  BY <1>1, TopFacts
<1>3. Len(stack) = 1
  <2>1. Len(stack) \in 1 .. Len(stack)
    BY <1>2
  <2>. QED
    BY <1>1, <1>2, <2>1, StackFacts
<1>4. stack = <<Top>>
  <2> DEFINE one == <<Top>>
  <2>1. one \in Seq(Frames) /\ Len(one) = 1 /\ one[1] = Top
    BY <1>2
  <2> HIDE DEF one
  <2>2. \A j \in 1 .. Len(stack) : stack[j] = one[j]
    BY <1>2, <1>3, <2>1
  <2>3. stack = one
    BY <1>2, <1>3, <2>1, <2>2, SeqEqual
  <2>. QED
    BY <2>3 DEF one
<1>5. Covers(Start(key).reg, RegNow) /\ Covers(Start(key).cell, CellNow)
  BY <1>1, Effect
<1>6. Len(Unwinders(key)) \in Nat /\ Continuation(key)[0] = Start(key)
  BY <1>2, ContinuationSteps DEF Constructed
<1>7. Composed(key, 0)
  BY DEF Composed
<1>8. GoesOn(Top) /\ FaultState(Top) = Start(key)
  BY <1>1, <1>2, <1>6, <1>7 DEF GoesOn, FaultState, Handled
<1>11. Flows(Top.context, FaultState(Top))
  <2>1. Flows(Top.context, states[key])
    BY <1>1, TopFacts DEF Here
  <2>. QED
    BY <1>2, <1>8, <2>1, StartFlows
<1>9. Tracks(AfterFault(<<Top>>), RegNow, CellNow) /\ FaultMove(<<Top>>) \in edges
  <2> DEFINE fr == Top
             v == RegNow
             c == CellNow
  <2>1. /\ fr \in Frames /\ fr.back = "host" /\ ~fr.called /\ At(fr) \in DOMAIN states
        /\ GoesOn(fr) /\ Covers(FaultState(fr).reg, v) /\ Covers(FaultState(fr).cell, c)
        /\ verdict = "complete" /\ Constructed /\ Flows(fr.context, FaultState(fr))
    BY <1>1, <1>2, <1>5, <1>8, <1>11
  <2> HIDE DEF fr, v, c
  <2>2. Tracks(AfterFault(<<fr>>), v, c) /\ FaultMove(<<fr>>) \in edges
    BY <2>1, FaultGoesOn
  <2>. QED
    BY <2>2 DEF fr, v, c
<1>10. AfterFault(stack) = AfterFault(<<Top>>) /\ FaultMove(stack) = FaultMove(<<Top>>)
  BY <1>4
<1>. QED
  BY <1>1, <1>9, <1>10

\* When the guest leaves the component nothing runs.
LEMMA LeaveTracks ==
  ASSUME Leave PROVE Tracks(stack', reg', cell') /\ move' = NoMove
BY DEF Leave, Tracks

\* The host enters in a state of the closure.
LEMMA EnterTracks ==
  ASSUME EInv, Constructed, Simulation, ~EnterAfterStore, NEW x \in Entrances, Enter(x)
  PROVE  Tracks(stack', reg', cell') /\ (move' # NoMove => move' \in edges)
<1> DEFINE context == RootContext(x.unit, x.unit)
           key == <<x.unit, context>>
           fr == Frame(x.unit, context, "host")
<1>1. /\ verdict = "complete" /\ x.cell = cell
      /\ stack' = <<fr>> /\ reg' = Other /\ cell' = cell /\ move' = x.edge
  BY DEF Enter
<1>2. /\ key \in DOMAIN states /\ states[key].reg = Unknown /\ Covers(states[key].cell, cell)
      /\ x.edge # NoMove => x.edge \in edges
  <2>1. CASE x \in registered
    BY <1>1, <2>1 DEF Simulation, Awaits
  <2>2. ASSUME NEW r \in Roots, NEW c \in InitialCell, x = Entrance(r, c, NoMove)
        PROVE  /\ key \in DOMAIN states /\ states[key].reg = Unknown
               /\ Covers(states[key].cell, cell) /\ x.edge = NoMove
    <3>1. x.unit = r /\ x.cell = c /\ x.edge = NoMove
      BY <2>2 DEF Entrance
    <3>2. key \in RootKeys
      BY <3>1 DEF RootKeys
    <3>3. key \in DOMAIN states /\ StateBelow(RootState(InitialCell, {}), states[key])
      BY <3>2 DEF Constructed, Typed, IInv, Settling, RootsJoined
    <3>4. states[key] \in States
      BY <3>3 DEF Constructed, Typed, TypeOK, PartialFunction
    <3> HIDE DEF key
    <3>5. /\ Below(Unknown, states[key].reg) /\ Below(InitialCell, states[key].cell)
          /\ states[key].reg \in Values /\ states[key].cell \in Values
      BY <3>3, <3>4 DEF StateBelow, RootState, States
    <3>6. states[key].reg = Unknown
      <4>1. Other \notin Atoms
        BY ClosureAssumption DEF ClosureAssumption
      <4>. QED
        BY <3>5, <4>1 DEF Below, Unknown, Values
    <3>7. Covers(InitialCell, cell)
      BY <1>1, <3>1 DEF Covers
    <3>8. Covers(states[key].cell, cell)
      BY <3>5, <3>7, CoversAbove
    <3>. QED
      BY <3>1, <3>3, <3>6, <3>8
  <2>. QED
    BY <2>1, <2>2 DEF Entrances
<1>3. fr.back = "host" /\ ~fr.called /\ fr.unwound = 0 /\ At(fr) = key /\ fr.context = context
  BY DEF Frame, At
<1>5. Flows(fr.context, states[key])
  <2>1. context.entry = x.unit
    BY DEF RootContext
  <2> HIDE DEF context, fr
  <2>. QED
    BY <1>2, <1>3, <2>1, EntryFlows
<1> HIDE DEF fr, key
<1>4. Tracks(<<fr>>, Other, cell)
  BY <1>2, <1>3, <1>5, TracksOne DEF Covers
<1>. QED
  BY <1>1, <1>2, <1>4

-----------------------------------------------------------------------------
(* Nonlocal transfers.  The closure looks for the chain of call frames to  *)
(* the landing, and visits no context twice; the guest may have passed one *)
(* context several times.  The chain then leaves out activations of the    *)
(* guest, and what those have written, unless the state shows it.  Where   *)
(* the image holds one known value in the cell, it does: a state that says *)
(* nothing of the cell stands for that value, and so do all entries above. *)
(* Where it holds a conflict, a state that says nothing of the cell may be *)
(* a join with that conflict, and stands for anything.                     *)

\* The image holds one known value in the cell.
KnownImage == \E v \in Atoms : InitialCell = {v}

\* A way from activation n down to its caller i, over contexts f of the activations:
\* each activation it passes runs in the context of the next one.
Walk(f, i, n, h, l) ==
  /\ h \in [1 .. l -> i .. n - 1]
  /\ f[h[1] + 1] = f[n] /\ h[l] = i
  /\ \A j \in 1 .. l - 1 : f[h[j + 1] + 1] = f[h[j]] /\ h[j] # i

\* A shortest way passes no context twice.
LEMMA SimpleWalk ==
  ASSUME NEW f, NEW n \in Nat, NEW i \in 1 .. n - 1
  PROVE  \E l \in Nat \ {0} : \E h :
           Walk(f, i, n, h, l) /\ \A j, k \in 1 .. l : j # k => f[h[j] + 1] # f[h[k] + 1]
<1> DEFINE L == {l \in Nat \ {0} : \E h : Walk(f, i, n, h, l)}
<1>1. n - i \in L
  <2> DEFINE l == n - i
             h == [j \in 1 .. l |-> n - j]
  <2>1. l \in Nat \ {0}
    OBVIOUS
  <2>2. h \in [1 .. l -> i .. n - 1] /\ h[1] = n - 1 /\ h[l] = i
    <3>1. \A j \in 1 .. l : n - j \in i .. n - 1
      OBVIOUS
    <3>2. 1 \in 1 .. l /\ l \in 1 .. l /\ n - l = i
      OBVIOUS
    <3>. QED
      BY <3>1, <3>2
  <2>3. \A j \in 1 .. l - 1 : f[h[j + 1] + 1] = f[h[j]] /\ h[j] # i
    <3> TAKE j \in 1 .. l - 1
    <3>1. j \in 1 .. l /\ j + 1 \in 1 .. l
      OBVIOUS
    <3>2. h[j] = n - j /\ h[j + 1] = n - (j + 1)
      BY <3>1
    <3>3. (n - (j + 1)) + 1 = n - j /\ n - j # i
      OBVIOUS
    <3>. QED
      BY <3>2, <3>3
  <2>4. h[1] + 1 = n
    BY <2>2
  <2> HIDE DEF h, l
  <2>5. Walk(f, i, n, h, l)
    BY <2>2, <2>3, <2>4 DEF Walk
  <2>6. l \in L
    BY <2>1, <2>5
  <2>. QED
    BY <2>6 DEF l
<1>2. PICK l \in L : \A k \in L : l <= k
  <2>1. L \in SUBSET Nat /\ L # {}
    BY <1>1
  <2> HIDE DEF L
  <2>. QED
    BY <2>1, LeastNumber
<1>3. l \in Nat \ {0} /\ \E h : Walk(f, i, n, h, l)
  OBVIOUS
<1>4. PICK h : Walk(f, i, n, h, l)
  BY <1>3
<1>5. ASSUME NEW a \in 1 .. l, NEW b \in 1 .. l, a < b, f[h[a] + 1] = f[h[b] + 1]
      PROVE  FALSE
  <2> DEFINE d == b - a
             m == l - d
             g == [t \in 1 .. m |-> IF t < a THEN h[t] ELSE h[t + d]]
  <2>0. a \in Nat /\ b \in Nat /\ l \in Nat /\ 1 <= a /\ a < b /\ b <= l
    BY <1>3, <1>5
  <2>1. d \in Nat \ {0} /\ m \in Nat \ {0} /\ m < l /\ a + d = b /\ m + d = l /\ a <= m
    BY <2>0
  <2>2. /\ h \in [1 .. l -> i .. n - 1] /\ f[h[1] + 1] = f[n] /\ h[l] = i
        /\ \A j \in 1 .. l - 1 : f[h[j + 1] + 1] = f[h[j]] /\ h[j] # i
    BY <1>4 DEF Walk
  <2> HIDE DEF d, m
  <2>3. \A t \in 1 .. m : t \in 1 .. l /\ t + d \in 1 .. l
    BY <1>3, <2>1
  <2>4. \A t \in 1 .. m : g[t] = IF t < a THEN h[t] ELSE h[t + d]
    OBVIOUS
  <2>5. g \in [1 .. m -> i .. n - 1]
    BY <2>2, <2>3
  <2> HIDE DEF g
  <2>6. f[g[1] + 1] = f[n]
    <3>1. 1 \in 1 .. m
      BY <2>1
    <3>2. CASE 1 < a
      BY <2>2, <2>4, <3>1, <3>2
    <3>3. CASE ~(1 < a)
      <4>1. a = 1 /\ 1 + d = b
        BY <2>1, <3>3
      <4>. QED
        BY <1>5, <2>2, <2>4, <3>1, <3>3, <4>1
    <3>. QED
      BY <3>2, <3>3
  <2>7. g[m] = i
    <3>1. m \in 1 .. m /\ ~(m < a)
      BY <2>1
    <3>. QED
      BY <2>1, <2>2, <2>4, <3>1
  <2>8. ASSUME NEW j \in 1 .. m - 1
        PROVE  f[g[j + 1] + 1] = f[g[j]] /\ g[j] # i
    <3>1. j \in 1 .. m /\ j + 1 \in 1 .. m /\ j \in 1 .. l - 1 /\ j + d \in 1 .. l - 1
          /\ (j + d) + 1 = (j + 1) + d
      BY <1>3, <2>1
    <3>2. CASE j + 1 < a
      <4>1. j < a
        BY <3>1, <3>2
      <4>. QED
        BY <2>2, <2>4, <3>1, <3>2, <4>1
    <3>3. CASE j + 1 = a
      <4>1. j < a /\ ~(j + 1 < a) /\ (j + 1) + d = b
        BY <2>1, <3>1, <3>3
      <4>2. g[j] = h[j] /\ g[j + 1] = h[b]
        BY <2>4, <3>1, <4>1
      <4>3. f[h[j + 1] + 1] = f[h[j]] /\ h[j] # i
        BY <2>2, <3>1
      <4>. QED
        BY <1>5, <3>3, <4>2, <4>3
    <3>4. CASE j + 1 > a
      <4>1. ~(j < a) /\ ~(j + 1 < a)
        BY <3>1, <3>4
      <4>2. g[j] = h[j + d] /\ g[j + 1] = h[(j + d) + 1]
        BY <2>4, <3>1, <4>1
      <4>. QED
        BY <2>2, <3>1, <4>2
    <3>. QED
      BY <3>1, <3>2, <3>3, <3>4
  <2>9. Walk(f, i, n, g, m)
    BY <2>5, <2>6, <2>7, <2>8 DEF Walk
  <2>10. m \in L
    BY <2>1, <2>9
  <2> HIDE DEF L
  <2>. QED
    BY <1>2, <1>3, <2>1, <2>10
<1>6. ASSUME NEW j \in 1 .. l, NEW k \in 1 .. l, j # k PROVE f[h[j] + 1] # f[h[k] + 1]
  <2>1. j < k \/ k < j
    BY <1>6
  <2>. QED
    BY <1>5, <2>1
<1>. QED
  BY <1>3, <1>4, <1>6

\* A nonlocal transfer passes calls, and the closure has a frame of each.
LEMMA PassedFrames ==
  ASSUME EInv, Constructed, Simulation, Running, HasNonlocal, Settled,
         NEW i \in Landings, NEW q \in i .. Len(stack) - 1
  PROVE  /\ q \in 1 .. Len(stack) - 1 /\ stack[q] \in Frames /\ At(stack[q]) \in DOMAIN states
         /\ stack[q].called /\ stack[q].unwound = 0
         /\ stack[q + 1].context \in Callees(At(stack[q]))
         /\ <<stack[q + 1].context, At(stack[q])>> \in DOMAIN frames
         /\ frames[<<stack[q + 1].context, At(stack[q])>>] = Start(At(stack[q]))
         /\ Flows(stack[q].context, Start(At(stack[q])))
<1> DEFINE n == Len(stack)
           key == At(stack[q])
           c == stack[q + 1].context
           new == {<<d, key>> : d \in Callees(key)}
<1>1. n \in Nat /\ verdict = "complete"
  BY TopFacts
<1>2. i \in 1 .. n - 1 /\ \A j \in i + 1 .. n : stack[j].back = "caller"
  BY DEF Landings
<1>3. q \in 1 .. n - 1 /\ q \in 1 .. n /\ q + 1 \in i + 1 .. n
  BY <1>1, <1>2
<1>4. stack[q] \in Frames /\ key \in DOMAIN states
  BY <1>3, StackFacts
<1>5. Linked(stack[q], stack[q + 1]) /\ Flows(stack[q].context, Held(stack[q]))
  BY <1>3 DEF Simulation, Tracks
<1>6. stack[q + 1].back = "caller"
  BY <1>2, <1>3
<1>7. stack[q].called /\ stack[q].unwound = 0 /\ c \in Callees(key)
  BY <1>5, <1>6 DEF Linked
<1>8. FramesAfter(key) = frames
  BY <1>1, <1>4 DEF Settled
<1> HIDE DEF key, c, n
<1>9. <<c, key>> \in DOMAIN frames /\ frames[<<c, key>>] = Start(key)
  <2>1. <<c, key>> \in new
    BY <1>7
  <2>2. FramesAfter(key) = [f \in DOMAIN frames \cup new |-> IF f \in new THEN Start(key) ELSE frames[f]]
    BY DEF FramesAfter
  <2> HIDE DEF new
  <2>. QED
    BY <1>8, <2>1, <2>2
<1>. QED
  BY <1>3, <1>4, <1>5, <1>7, <1>9 DEF key, c, n, Held

\* The frames of the calls h[1], ..., h[l] of the guest.
Passed(h, l) == [j \in 1 .. l |-> <<stack[h[j] + 1].context, At(stack[h[j]])>>]

\* A chain of frames leads from the running activation to the one it lands in.
LEMMA LandingChain ==
  ASSUME EInv, Constructed, Simulation, Running, HasNonlocal, Settled,
         NEW i \in Landings, \A j \in Landings : j <= i
  PROVE  \E l \in Nat \ {0} : \E h \in [1 .. l -> i .. Len(stack) - 1] :
           /\ h[l] = i /\ stack[h[1] + 1].context = Top.context
           /\ \A j \in 1 .. l - 1 : stack[h[j + 1] + 1].context = stack[h[j]].context
           /\ Passed(h, l) \in Chains(Top.context, RegNow)
<1> DEFINE n == Len(stack)
           f == [q \in 1 .. n |-> stack[q].context]
           D == {x[1] : x \in DOMAIN frames}
<1>1. n \in Nat \ {0} /\ Top = stack[n]
  BY TopFacts
<1>2. /\ i \in 1 .. n - 1 /\ ReturnAddress(stack[i].unit) = RegNow
      /\ \A j \in i + 1 .. n : stack[j].back = "caller"
  BY DEF Landings
<1>3. \A q \in i .. n - 1 : /\ q \in 1 .. n - 1
                            /\ <<stack[q + 1].context, At(stack[q])>> \in DOMAIN frames
  BY PassedFrames
<1>4. ASSUME NEW q \in i .. n - 1, q # i PROVE ReturnAddress(stack[q].unit) # RegNow
  <2>1. q \in 1 .. n - 1 /\ ~(q <= i)
    BY <1>2, <1>4
  <2>2. \A j \in q + 1 .. n : stack[j].back = "caller"
    BY <1>2, <2>1
  <2>. QED
    BY <2>1, <2>2 DEF Landings
<1>5. PICK l \in Nat \ {0} : \E h :
        Walk(f, i, n, h, l) /\ \A j, k \in 1 .. l : j # k => f[h[j] + 1] # f[h[k] + 1]
  <2> HIDE DEF f, n
  <2>. QED
    BY <1>1, <1>2, SimpleWalk
<1>6. PICK h : Walk(f, i, n, h, l) /\ \A j, k \in 1 .. l : j # k => f[h[j] + 1] # f[h[k] + 1]
  BY <1>5
<1>7. /\ h \in [1 .. l -> i .. n - 1] /\ f[h[1] + 1] = f[n] /\ h[l] = i
      /\ \A j \in 1 .. l - 1 : f[h[j + 1] + 1] = f[h[j]] /\ h[j] # i
  BY <1>6 DEF Walk
<1>8. \A j \in 1 .. l : /\ h[j] \in i .. n - 1 /\ h[j] \in 1 .. n /\ h[j] + 1 \in 1 .. n
                        /\ f[h[j]] = stack[h[j]].context /\ f[h[j] + 1] = stack[h[j] + 1].context
  <2> TAKE j \in 1 .. l
  <2>1. h[j] \in i .. n - 1
    BY <1>7
  <2>2. h[j] \in 1 .. n /\ h[j] + 1 \in 1 .. n
    BY <1>1, <1>2, <2>1
  <2>. QED
    BY <2>1, <2>2
<1>9. f[n] = Top.context
  BY <1>1
<1>0. /\ 1 \in 1 .. l /\ l \in 1 .. l
      /\ \A j \in 1 .. l - 1 : j \in 1 .. l /\ j + 1 \in 1 .. l
  BY <1>5
<1> HIDE DEF f, n
<1> DEFINE p == Passed(h, l)
<1>10. \A j \in 1 .. l : p[j] = <<stack[h[j] + 1].context, At(stack[h[j]])>> /\ p[j] \in DOMAIN frames
  BY <1>3, <1>8 DEF Passed
<1>11. /\ p \in [1 .. l -> DOMAIN frames] /\ Len(p) = l
  BY <1>5, <1>10 DEF Passed
<1> HIDE DEF p
<1>12. \A j \in 1 .. l : p[j][1] = f[h[j] + 1] /\ p[j][2][1] = stack[h[j]].unit
                         /\ p[j][2][2] = f[h[j]]
  BY <1>8, <1>10 DEF At
<1>13. l \in 1 .. Cardinality(D)
  <2> DEFINE g == [j \in 1 .. l |-> p[j][1]]
             e == [x \in DOMAIN frames |-> x[1]]
  <2>1. IsFiniteSet(D)
    <3>1. e \in Surjection(DOMAIN frames, D)
      BY DEF Surjection
    <3>2. IsFiniteSet(DOMAIN frames)
      BY DEF Constructed
    <3> HIDE DEF e, D
    <3>. QED
      BY <3>1, <3>2, FS_Surjection
  <2>2. \A j \in 1 .. l : p[j][1] \in D
    BY <1>10
  <2>3. \A j, k \in 1 .. l : p[j][1] = p[k][1] => j = k
    BY <1>6, <1>12
  <2> HIDE DEF D
  <2>4. g \in Injection(1 .. l, D)
    BY <2>2, <2>3 DEF Injection, IsInjective
  <2> HIDE DEF g
  <2>5. Cardinality(1 .. l) <= Cardinality(D)
    BY <2>1, <2>4, FS_Injection
  <2>6. Cardinality(1 .. l) = l /\ Cardinality(D) \in Nat
    BY <1>5, <2>1, FS_Interval, FS_CardinalityType
  <2>. QED
    BY <1>5, <2>5, <2>6
<1>14. p \in Chains(Top.context, RegNow)
  <2>1. p \in UNION {[1 .. m -> DOMAIN frames] : m \in 1 .. Cardinality(D)}
    BY <1>11, <1>13
  <2>2. p[1][1] = Top.context
    BY <1>0, <1>7, <1>9, <1>12
  <2>3. \A j \in 1 .. l - 1 : p[j + 1][1] = p[j][2][2] /\ ReturnAddress(p[j][2][1]) # RegNow
    <3> TAKE j \in 1 .. l - 1
    <3>1. j \in 1 .. l /\ j + 1 \in 1 .. l /\ f[h[j + 1] + 1] = f[h[j]] /\ h[j] # i
      BY <1>0, <1>7
    <3>2. p[j + 1][1] = f[h[j + 1] + 1] /\ p[j][2][2] = f[h[j]] /\ p[j][2][1] = stack[h[j]].unit
      BY <1>12, <3>1
    <3>3. ReturnAddress(stack[h[j]].unit) # RegNow
      BY <1>4, <1>8, <3>1
    <3>. QED
      BY <3>1, <3>2, <3>3
  <2>4. \A j, k \in 1 .. l : j # k => p[j][1] # p[k][1]
    BY <1>6, <1>12
  <2>5. ReturnAddress(p[l][2][1]) = RegNow
    BY <1>0, <1>2, <1>7, <1>12
  <2> HIDE DEF D
  <2>. QED
    BY <1>11, <2>1, <2>2, <2>3, <2>4, <2>5 DEF Chains, D
<1>15. /\ stack[h[1] + 1].context = Top.context
       /\ \A j \in 1 .. l - 1 : stack[h[j + 1] + 1].context = stack[h[j]].context
  BY <1>0, <1>7, <1>8, <1>9
<1>. QED
  BY <1>7, <1>14, <1>15 DEF p, n

\* What is below one known value is that value.
LEMMA BelowKnown ==
  ASSUME NEW v \in Atoms, NEW w \in Values, Below(w, {v}) PROVE w = {v}
<1>1. Other \notin Atoms
  BY ClosureAssumption DEF ClosureAssumption
<1>2. w \subseteq {v}
  BY <1>1 DEF Below, Unknown
<1>3. w # {} /\ (w = {Other} \/ w \subseteq Atoms)
  BY DEF Values, Unknown
<1>. QED
  BY <1>1, <1>2, <1>3

\* The entry of a context holds one known value.
Known(context, v) == Entry(context) \in DOMAIN states /\ states[Entry(context)].cell = {v}

\* A state that has not written and holds a known value has it from its entry.
LEMMA KnownFlows ==
  ASSUME Constructed, NEW v \in Atoms, NEW context, NEW s, Flows(context, s),
         ~s.wrote, s.cell = {v}
  PROVE  Known(context, v)
<1> DEFINE w == states[Entry(context)].cell
<1>1. Entry(context) \in DOMAIN states /\ Below(w, {v})
  BY DEF Flows
<1>2. w \in Values
  BY <1>1 DEF Constructed, Typed, TypeOK, PartialFunction, States
<1> HIDE DEF w
<1>3. w = {v}
  BY <1>1, <1>2, BelowKnown
<1>. QED
  BY <1>1, <1>3 DEF Known, w

\* The entry of a callee is above the cell of the call.
LEMMA CalleeEntry ==
  ASSUME Constructed, verdict = "complete", NEW key \in DOMAIN states, NEW c \in Callees(key)
  PROVE  /\ Entry(c) \in DOMAIN states
         /\ Below(Start(key).cell, states[Entry(c)].cell)
<1> DEFINE e == Edge(key[1], c.entry, "internal_call", CalleeState(Start(key), c, key[2]), c)
<1>1. e \in LocalEdges(key)
  BY DEF LocalEdges, CallEdges
<1>2. e.state = CalleeState(Start(key), c, key[2]) /\ Key(e) = Entry(c)
  BY EdgeParts DEF Entry
<1>3. e.state.cell = Start(key).cell
  BY <1>2, CompleteKey DEF CalleeState, States
<1> HIDE DEF e
<1>4. Key(e) \in DOMAIN states /\ StateBelow(e.state, states[Key(e)])
  BY <1>1, CompleteKey
<1>. QED
  BY <1>2, <1>3, <1>4 DEF StateBelow

\* So is the entry of the next function of a fault.
LEMMA UnwindEntry ==
  ASSUME Constructed, verdict = "complete", NEW fr, NEW next,
         At(fr) \in DOMAIN states, Unwinds(fr, next)
  PROVE  LET held == Continuation(At(fr))[fr.unwound - 1] IN
         /\ held \in States /\ Entry(next.context) \in DOMAIN states
         /\ Below(held.cell, states[Entry(next.context)].cell)
<1> DEFINE key == At(fr)
           fault == program[key[1]].fault
           n == Len(Unwinders(key))
           u == fr.unwound
           held == Continuation(key)[u - 1]
           source(i) == IF i = 0 THEN key[1] ELSE fault.unwind[i]
           unwind == Edge(source(u - 1), fault.unwind[u], "exception_unwind", held,
                          UnwindContext(key[2], key[1], u))
           handle == Edge(source(n), fault.handler, "exception_handler", held,
                          HandlerContext(key))
<1>1. Typed /\ key \in DOMAIN states /\ Handled(key) /\ n \in Nat /\ n = Len(fault.unwind)
      /\ key[1] = fr.unit /\ key[2] = fr.context
  BY TransferType DEF Unwinds, Constructed, At, Unwinders
<1>2. FaultEdges(key) =
         {Edge(source(i - 1), fault.unwind[i], "exception_unwind",
               Continuation(key)[i - 1], UnwindContext(key[2], key[1], i)) : i \in Unwinding(key)}
         \cup (IF AtHandler(key)
               THEN {Edge(source(n), fault.handler, "exception_handler",
                          Continuation(key)[n], HandlerContext(key))} ELSE {})
         \cup (IF Resumes(key)
               THEN {Edge(fault.handler, fault.resume, "exception_resumption",
                          ReturnState(summaries[HandlerContext(key)], Continuation(key)[n]),
                          RootContext(key[2].root, fault.resume))} ELSE {})
  BY <1>1 DEF FaultEdges
<1>3. ASSUME NEW e \in FaultEdges(key), e.state = held, Key(e) = Entry(next.context),
             u - 1 \in 0 .. n, Composed(key, u - 1)
      PROVE  /\ held \in States /\ Entry(next.context) \in DOMAIN states
             /\ Below(held.cell, states[Entry(next.context)].cell)
  <2>1. held \in States
    BY <1>1, <1>3, ContinuationType
  <2>2. e \in LocalEdges(key)
    BY DEF LocalEdges
  <2> HIDE DEF key, held
  <2>3. Key(e) \in DOMAIN states /\ StateBelow(e.state, states[Key(e)])
    BY <1>1, <2>2, CompleteKey
  <2>. QED
    BY <1>3, <2>1, <2>3 DEF StateBelow
<1>4. CASE /\ u \in 1 .. n /\ Composed(key, u - 1)
           /\ next.context = UnwindContext(fr.context, fr.unit, u)
  <2>1. u - 1 \in 0 .. n /\ u \in Unwinding(key)
    BY <1>1, <1>4 DEF Unwinding
  <2>2. unwind \in FaultEdges(key)
    BY <1>2, <2>1
  <2>3. next.context.entry = fault.unwind[u]
    BY <1>1, <1>4 DEF UnwindContext
  <2>4. unwind.state = held /\ Key(unwind) = Entry(next.context)
    BY <1>1, <1>4, <2>3, EdgeParts DEF Entry
  <2> HIDE DEF unwind, key, u, n, held
  <2>. QED
    BY <1>3, <1>4, <2>1, <2>2, <2>4 DEF held, key, u
<1>5. CASE u = n + 1 /\ WantsResumption(key) /\ next.context = HandlerContext(key)
  <2>1. u - 1 = n /\ n \in 0 .. n /\ AtHandler(key) /\ Composed(key, n)
    BY <1>1, <1>5 DEF WantsResumption, AtHandler
  <2>2. handle \in FaultEdges(key)
    BY <1>2, <2>1
  <2>3. next.context.entry = fault.handler
    BY <1>5 DEF HandlerContext, RootContext
  <2>4. handle.state = held /\ Key(handle) = Entry(next.context)
    BY <1>5, <2>3, EdgeParts DEF Entry
  <2> HIDE DEF handle, key, u, n, held
  <2>. QED
    BY <1>3, <2>1, <2>2, <2>4 DEF held, key, u
<1>. QED
  BY <1>4, <1>5 DEF Unwinds

\* Where the next activation has a known value at its entry, its caller waits with it.
LEMMA HeldKnown ==
  ASSUME Constructed, verdict = "complete", NEW fr, NEW next,
         At(fr) \in DOMAIN states, Linked(fr, next), NEW v \in Atoms, Known(next.context, v)
  PROVE  Held(fr).cell = {v}
<1>1. CASE fr.called
  <2>1. next.context \in Callees(At(fr)) /\ Held(fr) = Start(At(fr))
    BY <1>1 DEF Linked, Held
  <2>2. Below(Held(fr).cell, {v})
    BY <2>1, CalleeEntry DEF Known
  <2>3. Held(fr).cell \in Values
    BY <2>1, CompleteKey DEF States
  <2>. QED
    BY <2>2, <2>3, BelowKnown
<1>2. CASE ~fr.called
  <2>1. Unwinds(fr, next) /\ Held(fr) = Continuation(At(fr))[fr.unwound - 1]
    BY <1>2 DEF Linked, Held
  <2>2. Held(fr) \in States /\ Below(Held(fr).cell, {v})
    BY <2>1, UnwindEntry DEF Known
  <2>3. Held(fr).cell \in Values
    BY <2>2 DEF States
  <2>. QED
    BY <2>2, <2>3, BelowKnown
<1>. QED
  BY <1>1, <1>2

\* Below an activation with a known value at its entry, all that wait wait with it,
\* up to one that something between them has written for.
LEMMA LowerKnown ==
  ASSUME EInv, Constructed, Simulation, Running, NEW v \in Atoms,
         NEW i \in 1 .. Len(stack), Known(stack[i].context, v), NEW j \in 1 .. i - 1,
         \A k \in j + 1 .. i - 1 : ~Held(stack[k]).wrote
  PROVE  Held(stack[j]).cell = {v}
<1> DEFINE n == Len(stack)
           K == {k \in j + 1 .. i : Known(stack[k].context, v)}
<1>1. n \in Nat /\ verdict = "complete"
  BY TopFacts
<1>2. \A k \in 1 .. n - 1 : Linked(stack[k], stack[k + 1]) /\ Flows(stack[k].context, Held(stack[k]))
  BY DEF Simulation, Tracks
<1>3. \A k \in 1 .. n : At(stack[k]) \in DOMAIN states
  BY StackFacts
<1>0. i \in 1 .. n /\ j \in 1 .. i - 1
  OBVIOUS
<1> HIDE DEF n
<1>4. K \in SUBSET Nat /\ i \in K
  BY <1>0, <1>1
<1>5. PICK m \in K : \A k \in K : m <= k
  <2> HIDE DEF K
  <2>. QED
    BY <1>4, LeastNumber
<1>6. m \in j + 1 .. i /\ Known(stack[m].context, v)
  BY <1>5
<1>7. m - 1 \in 1 .. n - 1 /\ m - 1 \in 1 .. n /\ (m - 1) + 1 = m
  BY <1>0, <1>1, <1>6
<1>8. Held(stack[m - 1]).cell = {v} /\ Flows(stack[m - 1].context, Held(stack[m - 1]))
  <2>1. Linked(stack[m - 1], stack[m]) /\ Flows(stack[m - 1].context, Held(stack[m - 1]))
    BY <1>2, <1>7
  <2>2. At(stack[m - 1]) \in DOMAIN states
    BY <1>3, <1>7
  <2>. QED
    BY <1>1, <1>6, <2>1, <2>2, HeldKnown
<1>9. CASE m = j + 1
  <2>1. m - 1 = j
    BY <1>0, <1>1, <1>9
  <2>. QED
    BY <1>8, <2>1
<1>10. CASE m # j + 1
  <2>1. m - 1 \in j + 1 .. i - 1 /\ m - 1 \in j + 1 .. i /\ ~(m <= m - 1)
    BY <1>0, <1>1, <1>6, <1>10
  <2>2. ~Held(stack[m - 1]).wrote
    BY <2>1
  <2>3. Known(stack[m - 1].context, v)
    BY <1>8, <2>2, KnownFlows
  <2>. QED
    BY <1>5, <2>1, <2>3
<1>. QED
  BY <1>9, <1>10

\* A state that says what the cell holds restores it, written or not.
Marked(s) == [s EXCEPT !.wrote = Explicit(s)]

\* The states that a chain of frames restores, one frame after the other.
LEMMA RestoredSteps ==
  ASSUME NEW state, NEW chain, NEW l \in Nat \ {0}, Len(chain) = l
  PROVE  /\ RestoredAfter(state, chain)[0] = state
         /\ Restored(state, chain) = RestoredAfter(state, chain)[l]
         /\ \A j \in 1 .. l : RestoredAfter(state, chain)[j] =
              ReturnState(Marked(RestoredAfter(state, chain)[j - 1]), frames[chain[j]])
<1> DEFINE f == RestoredAfter(state, chain)
           next(j) == ReturnState(Marked(f[j - 1]), frames[chain[j]])
<1>1. /\ Restored(state, chain) = f[l]
      /\ f = [j \in 0 .. l |-> IF j = 0 THEN state ELSE next(j)]
  BY RestoredUnfolds DEF Marked
<1> HIDE DEF f, next
<1>2. f[0] = state /\ \A j \in 1 .. l : f[j] = next(j)
  BY <1>1
<1>. QED
  BY <1>1, <1>2 DEF f, next

\* What one frame of a chain adds to the state that is restored: what the frame holds,
\* unless the state says what the cell holds.
LEMMA RestoreStep ==
  ASSUME NEW s \in States, NEW caller \in States,
         NEW c, Covers(s.cell, c), ~Explicit(s) => caller.cell = InitialCell
  PROVE  LET after == ReturnState(Marked(s), caller) IN
         /\ after \in States /\ after.reg = s.reg /\ Covers(after.cell, c)
         /\ ~after.wrote => ~caller.wrote /\ caller.cell = InitialCell /\ after.cell = InitialCell
<1> DEFINE summary == Marked(s)
           after == ReturnState(summary, caller)
<1>1. /\ summary \in States /\ summary.reg = s.reg /\ summary.cell = s.cell
      /\ summary.wrote = Explicit(s)
  BY DEF Marked, States, Explicit
<1> HIDE DEF summary
<1>2. after \in States
  BY <1>1, ReturnedState
<1>3. /\ after.reg = summary.reg
      /\ after.wrote <=> caller.wrote \/ summary.wrote
      /\ ~summary.wrote => after.cell = caller.cell
      /\ summary.wrote /\ Explicit(caller) =>
           after.cell = JoinValues({caller.cell, summary.cell})
      /\ summary.wrote /\ ~Explicit(caller) => after.cell = summary.cell
  BY DEF ReturnState
<1> HIDE DEF after
<1>4. CASE ~Explicit(s)
  <2>1. s.cell = InitialCell /\ after.cell = InitialCell /\ caller.cell = InitialCell
    BY <1>1, <1>3, <1>4 DEF Explicit
  <2>. QED
    BY <1>1, <1>2, <1>3, <1>4, <2>1 DEF after, summary
<1>5. CASE Explicit(s)
  <2>1. summary.wrote /\ after.wrote
    BY <1>1, <1>3, <1>5
  <2>2. Covers(after.cell, c)
    <3>1. CASE Explicit(caller)
      <4>1. Below(summary.cell, JoinValues({caller.cell, summary.cell}))
            /\ JoinValues({caller.cell, summary.cell}) \in Values
        BY <1>1, JoinedAbove, JoinedValue DEF States
      <4>. QED
        BY <1>1, <1>3, <2>1, <3>1, <4>1, CoversAbove
    <3>2. CASE ~Explicit(caller)
      BY <1>1, <1>3, <2>1, <3>2
    <3>. QED
      BY <3>1, <3>2
  <2>. QED
    BY <1>1, <1>2, <1>3, <2>1, <2>2 DEF after, summary
<1>. QED
  BY <1>4, <1>5

\* At its terminator an activation that has not written holds what its entry holds.
LEMMA TerminatorFlows ==
  ASSUME EInv, Constructed, Simulation, Running, AtTerminator
  PROVE  Flows(Top.context, Out(At(Top)))
<1> DEFINE key == At(Top)
<1>1. /\ key \in DOMAIN states /\ verdict = "complete" /\ Flows(Top.context, Here(Top))
  BY TopFacts
<1>2. CASE Top.called
  BY <1>1, <1>2 DEF Here
<1>3. CASE ~Top.called
  <2>1. Flows(Top.context, states[key]) /\ Out(key) = Start(key)
    BY <1>1, <1>3, Terminator DEF Here
  <2>. QED
    BY <1>1, <2>1, StartFlows
<1>. QED
  BY <1>2, <1>3

\* A state with which the guest may land in activation i, where the image holds v.
Lands(r, i, v) ==
  /\ r \in States /\ r.reg = Out(At(Top)).reg /\ Covers(r.cell, CellNow)
  /\ Flows(stack[i].context, r)
  /\ ~r.wrote => r.cell = {v} /\ Known(stack[i].context, v)

\* The state that a chain of frames restores covers the guest, also where the chain has
\* left activations out.  If it says nothing of the cell, nor does the entry of the landing.
LEMMA RestoredCovers ==
  ASSUME EInv, Constructed, Simulation, Running, AtTerminator, HasNonlocal, Settled,
         NEW v \in Atoms, InitialCell = {v}, NEW i \in Landings,
         NEW l \in Nat \ {0}, NEW h \in [1 .. l -> i .. Len(stack) - 1],
         h[l] = i, stack[h[1] + 1].context = Top.context,
         \A j \in 1 .. l - 1 : stack[h[j + 1] + 1].context = stack[h[j]].context
  PROVE  Lands(Restored(Out(At(Top)), Passed(h, l)), i, v)
<1> DEFINE key == At(Top)
           out == Out(key)
           p == Passed(h, l)
           after == RestoredAfter(out, p)
           caller(j) == Start(At(stack[h[j]]))
           At0(j) == IF j = 0 THEN Top.context ELSE stack[h[j]].context
           Good(j) ==
             /\ after[j] \in States /\ after[j].reg = out.reg /\ Covers(after[j].cell, CellNow)
             /\ ~Explicit(after[j]) => Known(At0(j), v)
             /\ j # 0 /\ ~after[j].wrote => after[j].cell = {v}
           A == {j \in 0 .. l : Good(j)}
<1>1. key \in DOMAIN states /\ verdict = "complete"
  BY TopFacts
<1>2. \A j \in 1 .. l :
        /\ h[j] \in i .. Len(stack) - 1 /\ At(stack[h[j]]) \in DOMAIN states
        /\ stack[h[j] + 1].context \in Callees(At(stack[h[j]]))
        /\ p[j] = <<stack[h[j] + 1].context, At(stack[h[j]])>> /\ frames[p[j]] = caller(j)
        /\ Flows(stack[h[j]].context, caller(j))
  <2> TAKE j \in 1 .. l
  <2>1. h[j] \in i .. Len(stack) - 1
    OBVIOUS
  <2>2. p[j] = <<stack[h[j] + 1].context, At(stack[h[j]])>>
    BY DEF Passed
  <2>. QED
    BY <2>1, <2>2, PassedFrames
<1>3. Len(p) = l
  BY DEF Passed
<1>4. /\ after[0] = out /\ Restored(out, p) = after[l]
      /\ \A j \in 1 .. l : after[j] =
           ReturnState(Marked(after[j - 1]), caller(j))
  <2> HIDE DEF key, out, p, caller
  <2>1. /\ after[0] = out /\ Restored(out, p) = after[l]
        /\ \A j \in 1 .. l : after[j] =
             ReturnState(Marked(after[j - 1]), frames[p[j]])
    BY <1>3, RestoredSteps
  <2> HIDE DEF after
  <2>. QED
    BY <1>2, <2>1
<1>5. out \in States /\ Covers(out.cell, CellNow) /\ Flows(Top.context, out)
  BY <1>1, CompleteKey, Terminator, TerminatorFlows
<1>6. \A j \in 1 .. l : caller(j) \in States
  BY <1>1, <1>2, CompleteKey
<1>7. \A j \in 1 .. l : At0(j) = stack[h[j]].context /\ At0(j - 1) = stack[h[j] + 1].context
  <2> TAKE j \in 1 .. l
  <2>1. CASE j = 1
    BY <2>1
  <2>2. CASE j # 1
    <3>1. j - 1 \in 1 .. l - 1 /\ (j - 1) + 1 = j /\ j - 1 # 0 /\ j # 0
      BY <2>2
    <3>. QED
      BY <3>1
  <2>. QED
    BY <2>1, <2>2
<1>8. At0(0) = Top.context
  OBVIOUS
<1> HIDE DEF key, out, p, after, caller, At0
<1>9. 0 \in A
  <2>1. ~Explicit(out) => Known(At0(0), v)
    BY <1>5, <1>8, KnownFlows DEF Explicit
  <2>. QED
    BY <1>4, <1>5, <2>1
<1>10. ASSUME NEW j \in 1 .. l, j - 1 \in A PROVE j \in A
  <2> DEFINE s == after[j - 1]
             fr == stack[h[j]]
  <2>1. s \in States /\ s.reg = out.reg /\ Covers(s.cell, CellNow)
        /\ (~Explicit(s) => Known(At0(j - 1), v))
    BY <1>10
  <2>2. /\ caller(j) \in States /\ Flows(fr.context, caller(j))
        /\ after[j] = ReturnState(Marked(s), caller(j))
        /\ At0(j) = fr.context /\ j # 0 /\ j \in 0 .. l
    BY <1>2, <1>4, <1>6, <1>7
  <2>3. ASSUME ~Explicit(s) PROVE caller(j).cell = {v}
    <3>1. At(fr) \in DOMAIN states /\ At0(j - 1) \in Callees(At(fr)) /\ Known(At0(j - 1), v)
      BY <1>2, <1>7, <2>1, <2>3
    <3>2. Below(Start(At(fr)).cell, {v})
      BY <1>1, <3>1, CalleeEntry DEF Known
    <3>3. caller(j).cell \in Values
      BY <2>2 DEF States
    <3>. QED
      BY <3>2, <3>3, BelowKnown DEF caller
  <2> DEFINE k == caller(j)
             t == ReturnState(Marked(s), k)
  <2>7. k \in States /\ (~Explicit(s) => k.cell = {v})
    BY <2>2, <2>3
  <2> HIDE DEF s, fr, k
  <2>8. /\ t \in States /\ t.reg = s.reg /\ Covers(t.cell, CellNow)
        /\ ~t.wrote => ~k.wrote /\ k.cell = {v} /\ t.cell = {v}
    <3>1. s \in States /\ k \in States /\ Covers(s.cell, CellNow)
          /\ (~Explicit(s) => k.cell = InitialCell)
      BY <2>1, <2>7
    <3>2. t \in States /\ t.reg = s.reg /\ Covers(t.cell, CellNow)
      BY <3>1, RestoreStep
    <3>3. ~t.wrote => ~k.wrote
      BY <3>1, RestoreStep
    <3>4. ~t.wrote => k.cell = InitialCell
      BY <3>1, RestoreStep
    <3>5. ~t.wrote => t.cell = k.cell
      <4> DEFINE m == Marked(s)
      <4> HIDE DEF m
      <4>1. ~ReturnState(m, k).wrote => ReturnState(m, k).cell = k.cell
        BY DEF ReturnState
      <4>. QED
        BY <4>1 DEF m
    <3> HIDE DEF t
    <3>. QED
      BY <3>2, <3>3, <3>4, <3>5
  <2>4. /\ after[j] \in States /\ after[j].reg = out.reg /\ Covers(after[j].cell, CellNow)
        /\ ~after[j].wrote => ~caller(j).wrote /\ caller(j).cell = {v} /\ after[j].cell = {v}
    <3>1. after[j] = t
      BY <2>2 DEF k
    <3> HIDE DEF t
    <3>2. /\ t \in States /\ t.reg = out.reg /\ Covers(t.cell, CellNow)
          /\ ~t.wrote => ~k.wrote /\ k.cell = {v} /\ t.cell = {v}
      BY <2>1, <2>8
    <3>. QED
      BY <3>1, <3>2 DEF k
  <2>5. ASSUME ~Explicit(after[j]) PROVE Known(At0(j), v)
    <3>1. ~caller(j).wrote /\ caller(j).cell = {v}
      BY <2>4, <2>5 DEF Explicit
    <3>. QED
      BY <2>2, <3>1, KnownFlows
  <2>. QED
    BY <2>2, <2>4, <2>5
<1>11. Good(l)
  <2>1. A \in SUBSET Nat
    OBVIOUS
  <2> HIDE DEF A
  <2>2. 0 .. l \subseteq A
    BY <1>9, <1>10, <2>1, Climb
  <2>3. l \in 0 .. l
    OBVIOUS
  <2>4. l \in A
    BY <2>2, <2>3
  <2>. QED
    BY <2>4 DEF A
<1>12. l # 0 /\ l \in 1 .. l /\ At0(l) = stack[i].context
  BY <1>7
<1>13. Flows(stack[i].context, after[l])
  <2>1. Flows(stack[i].context, caller(l))
    BY <1>2, <1>12
  <2>. QED
    BY <1>4, <1>12, <2>1, ReturnFlows
<1>14. ~after[l].wrote => after[l].cell = {v} /\ Known(stack[i].context, v)
  BY <1>11, <1>12 DEF Explicit
<1>. QED
  <2>1. Lands(after[l], i, v)
    BY <1>11, <1>13, <1>14 DEF Lands, out, key
  <2>. QED
    BY <1>4, <2>1 DEF out, key, p

\* In a settled closure the edges of every visit are joined into their targets.
LEMMA SettledEdge ==
  ASSUME Constructed, Settled, verdict = "complete", NEW key \in DOMAIN states,
         NEW e \in VisitEdges(key), e.target \in Units
  PROVE  /\ Key(e) \in DOMAIN states /\ states[Key(e)] \in States
         /\ StateBelow(e.state, states[Key(e)])
         /\ Move(e.source, e.target, e.kind) \in edges
<1> DEFINE E == VisitEdges(key)
           S == {f.state : f \in {f \in Inside(E) : Key(f) = Key(e)}}
                \cup (IF Key(e) \in DOMAIN states THEN {states[Key(e)]} ELSE {})
<1>1. StatesAfter(E) = states /\ EdgesOf(E) \subseteq edges
  BY DEF Settled
<1>2. e \in Inside(E)
  BY DEF Inside
<1> HIDE DEF E
<1>3. Key(e) \in DOMAIN StatesAfter(E) /\ StatesAfter(E)[Key(e)] = JoinStates(S)
  BY <1>2 DEF StatesAfter
<1>4. e.state \in S
  BY <1>2
<1>5. Key(e) \in DOMAIN states /\ StateBelow(e.state, states[Key(e)])
  <2> HIDE DEF S
  <2>. QED
    BY <1>1, <1>3, <1>4, JoinedStateAbove
<1>6. states[Key(e)] \in States
  BY <1>5 DEF Constructed, Typed, TypeOK, PartialFunction
<1>7. Move(e.source, e.target, e.kind) \in EdgesOf(E)
  BY <1>2 DEF EdgesOf, Move
<1>. QED
  BY <1>1, <1>5, <1>6, <1>7

\* The register at a nonlocal transfer is known: its chains are those of the target.
LEMMA NonlocalKnown ==
  ASSUME EInv, Constructed, Simulation, Settled, Running, AtTerminator, T.op = "nonlocal"
  PROVE  /\ HasNonlocal /\ Nonlocal(At(Top)) /\ Cardinality(Ancestors(At(Top))) = 1
         /\ RegNow \in Units /\ (CHOOSE u \in Units : u \in Out(At(Top)).reg) = RegNow
         /\ Ancestors(At(Top)) = Chains(Top.context, RegNow)
<1> DEFINE key == At(Top)
           value == Out(key).reg
<1>1. /\ key \in DOMAIN states /\ key[1] = Top.unit /\ key[2] = Top.context
      /\ verdict = "complete" /\ T = program[Top.unit] /\ Top.unit \in Units
  BY TopFacts
<1>2. HasNonlocal /\ Nonlocal(key)
  BY <1>1 DEF HasNonlocal, Nonlocal
<1>3. FailuresAfter(key) = failures /\ failures = {}
  BY <1>1 DEF Settled, Constructed, Settling, Blocked
<1>4. Cardinality(Ancestors(key)) = 1
  <2> HIDE DEF key
  <2>. QED
    BY <1>2, <1>3 DEF FailuresAfter, NonlocalFails
<1>5. Ancestors(key) # {}
  <2>1. Cardinality({}) = 0
    BY FS_EmptySet
  <2>. QED
    BY <1>4, <2>1
<1>6. value \subseteq Units /\ Cardinality(value) = 1
      /\ Ancestors(key) = Chains(key[2], CHOOSE u \in Units : u \in value)
  BY <1>5 DEF Ancestors
<1>7. RegNow \in value
  <2>1. Covers(value, RegNow)
    BY Terminator
  <2>2. value \subseteq Atoms
    BY <1>6 DEF Atoms
  <2> HIDE DEF value
  <2>. QED
    BY <2>1, <2>2, KnownCovers
<1> HIDE DEF value
<1>8. PICK x : value = {x}
  <2>1. IsFiniteSet(value)
    BY <1>6, FS_Subset, ClosureAssumption DEF ClosureAssumption
  <2>. QED
    BY <1>6, <2>1, FS_Singleton
<1>9. RegNow \in Units /\ (CHOOSE u \in Units : u \in value) = RegNow
  BY <1>6, <1>7, <1>8
<1>. QED
  BY <1>1, <1>2, <1>4, <1>6, <1>9 DEF key, value

\* A nonlocal transfer is tracked, where the closure is settled and the image holds one
\* known value in the cell.
LEMMA NonlocallyTracks ==
  ASSUME EInv, Constructed, Simulation, KnownImage, Settled, Nonlocally
  PROVE  Tracks(stack', reg', cell') /\ move' \in edges
<1>1. Running /\ AtTerminator /\ T.op = "nonlocal" /\ reg' = RegNow /\ cell' = CellNow
      /\ move' = Move(Top.unit, RegNow, "nonlocal_control")
  BY DEF Nonlocally
<1>2. PICK i \in Landings :
        /\ \A j \in Landings : j <= i
        /\ stack' = Append(SubSeq(stack, 1, i - 1),
                           [stack[i] EXCEPT !.unit = RegNow, !.called = FALSE])
  BY DEF Nonlocally
<1>3. PICK v \in Atoms : InitialCell = {v}
  BY DEF KnownImage
<1> DEFINE key == At(Top)
           out == Out(key)
           fr == [stack[i] EXCEPT !.unit = RegNow, !.called = FALSE]
<1>4. /\ key \in DOMAIN states /\ key[1] = Top.unit /\ key[2] = Top.context
      /\ verdict = "complete" /\ stack \in Seq(Frames) /\ Len(stack) \in Nat \ {0}
  BY <1>1, TopFacts
<1>5. /\ HasNonlocal /\ Nonlocal(key) /\ Cardinality(Ancestors(key)) = 1
      /\ RegNow \in Units /\ (CHOOSE u \in Units : u \in out.reg) = RegNow
      /\ Ancestors(key) = Chains(Top.context, RegNow)
  BY <1>1, NonlocalKnown
<1>6. PICK l \in Nat \ {0} : \E h \in [1 .. l -> i .. Len(stack) - 1] :
        /\ h[l] = i /\ stack[h[1] + 1].context = Top.context
        /\ \A j \in 1 .. l - 1 : stack[h[j + 1] + 1].context = stack[h[j]].context
        /\ Passed(h, l) \in Chains(Top.context, RegNow)
  BY <1>1, <1>2, <1>5, LandingChain
<1>7. PICK h \in [1 .. l -> i .. Len(stack) - 1] :
        /\ h[l] = i /\ stack[h[1] + 1].context = Top.context
        /\ \A j \in 1 .. l - 1 : stack[h[j + 1] + 1].context = stack[h[j]].context
        /\ Passed(h, l) \in Chains(Top.context, RegNow)
  BY <1>6
<1> DEFINE p == Passed(h, l)
           r == Restored(out, p)
           e == Edge(key[1], RegNow, "nonlocal_control", r, stack[i].context)
<1>8. i \in 1 .. Len(stack) - 1 /\ i \in 1 .. Len(stack) /\ i \in i .. Len(stack) - 1
  BY <1>4 DEF Landings
<1>9. stack[i] \in Frames /\ stack[i].called /\ stack[i].unwound = 0
  BY <1>1, <1>5, <1>8, PassedFrames
<1>10. p[Len(p)][2][2] = stack[i].context
  <2>1. Len(p) = l /\ p[l] = <<stack[h[l] + 1].context, At(stack[h[l]])>>
    BY DEF Passed
  <2>2. p[l][2] = At(stack[i])
    BY <1>7, <2>1
  <2> HIDE DEF p
  <2>. QED
    BY <2>1, <2>2 DEF At
<1>11. /\ r \in States /\ r.reg = out.reg /\ Covers(r.cell, CellNow)
       /\ Flows(stack[i].context, r)
       /\ ~r.wrote => r.cell = {v} /\ Known(stack[i].context, v)
  <2>1. Lands(r, i, v)
    BY <1>1, <1>3, <1>5, <1>7, RestoredCovers
  <2> HIDE DEF r
  <2>. QED
    BY <2>1 DEF Lands
<1>12. e \in VisitEdges(key)
  <2>1. e = Edge(key[1], CHOOSE u \in Units : u \in out.reg, "nonlocal_control",
                 Restored(out, p), p[Len(p)][2][2])
    BY <1>5, <1>10
  <2>2. p \in Ancestors(key)
    BY <1>5, <1>7
  <2> HIDE DEF p, e, key
  <2>3. e \in NonlocalEdges(key)
    BY <1>5, <2>1, <2>2 DEF NonlocalEdges
  <2>. QED
    BY <2>3 DEF VisitEdges
<1>13. /\ e.state = r /\ e.source = Top.unit /\ e.target = RegNow
       /\ e.kind = "nonlocal_control" /\ Key(e) = <<RegNow, stack[i].context>>
  BY <1>4, EdgeParts
<1>14. /\ fr \in Frames /\ fr.back = stack[i].back /\ fr.context = stack[i].context
       /\ ~fr.called /\ fr.unwound = 0 /\ At(fr) = <<RegNow, stack[i].context>>
  BY <1>5, <1>9 DEF Frames, At, Names, Addresses
<1> HIDE DEF key, out, p, r, e, fr
<1>15. /\ At(fr) = Key(e) /\ At(fr) \in DOMAIN states /\ states[At(fr)] \in States
       /\ StateBelow(r, states[At(fr)]) /\ Move(Top.unit, RegNow, "nonlocal_control") \in edges
  BY <1>4, <1>5, <1>12, <1>13, <1>14, SettledEdge
<1>16. Covers(out.reg, RegNow)
  BY <1>1, Terminator DEF out, key
<1>17. /\ Covers(states[At(fr)].reg, RegNow) /\ Covers(states[At(fr)].cell, CellNow)
       /\ ~states[At(fr)].wrote => ~r.wrote
  BY <1>11, <1>15, <1>16, CoversStateAbove
<1>18. Flows(fr.context, states[At(fr)])
  BY <1>11, <1>14, <1>15, FlowsOn
<1>19. ASSUME NEW j \in 1 .. i - 1, ~states[At(fr)].wrote,
              \A k \in j + 1 .. i - 1 : ~Held(stack[k]).wrote
       PROVE  Covers(Held(stack[j]).cell, CellNow)
  <2>1. r.cell = {v} /\ Known(stack[i].context, v)
    BY <1>11, <1>17, <1>19
  <2>2. Held(stack[j]).cell = {v}
    BY <1>1, <1>8, <1>19, <2>1, LowerKnown
  <2>. QED
    BY <1>11, <2>1, <2>2
<1>20. Tracks(stack, reg, cell)
  BY DEF Simulation
<1>21. Tracks(Append(SubSeq(stack, 1, i - 1), fr), RegNow, CellNow)
  BY <1>4, <1>8, <1>14, <1>15, <1>17, <1>18, <1>19, <1>20, TracksLanded
<1>. QED
  BY <1>1, <1>2, <1>15, <1>21 DEF fr

\* Where the image has nonlocal transfers, the closure restores the cell by what the image
\* holds there: one known value and no conflict (finding 7), and a complete closure is a fixed
\* point, which the frames whose `wrote' changed after they were read may prevent.
NonlocalExact == HasNonlocal => KnownImage /\ Settled

\* The steps of the guest are tracked.
LEMMA MovesTrack ==
  ASSUME EInv, Constructed, Simulation, NonlocalExact, CallsReturn, ~FaultInCallee, Moves
  PROVE  /\ Tracks(stack', reg', cell') /\ (move' # NoMove => move' \in edges)
         /\ \A given \in registered' : Awaits(given)
<1>1. Running
  BY DEF Moves, Call, Advance, Return, Fault, Nonlocally, Leave
<1>2. ASSUME Nonlocally PROVE Tracks(stack', reg', cell') /\ move' \in edges
  <2>1. Top.unit \in Units /\ T = program[Top.unit]
    BY <1>1, TopFacts
  <2>2. HasNonlocal
    BY <1>2, <2>1 DEF Nonlocally, HasNonlocal
  <2>. QED
    BY <1>2, <2>2, NonlocallyTracks DEF NonlocalExact
<1>3. Tracks(stack', reg', cell') /\ (move' # NoMove => move' \in edges)
  BY <1>2, CallTracks, AdvanceTracks, ReturnTracks, FaultTracks, LeaveTracks DEF Moves
<1>4. \A given \in registered' : Awaits(given)
  <2>1. CASE registered' = registered
    BY <2>1 DEF Simulation
  <2>2. CASE AtTerminator /\ registered' = Registered
    BY <1>1, <2>2, RegisteredAwait
  <2>. QED
    BY <2>1, <2>2 DEF Moves, Call, Advance, Return, Returning, Fault, Nonlocally, Leave
<1>. QED
  BY <1>3, <1>4

-----------------------------------------------------------------------------
\* While the closure stays as it is, so does what tracks the guest.
LEMMA ClosureStays ==
  ASSUME UNCHANGED vars
  PROVE  /\ \A s, v, c : Tracks(s, v, c)' = Tracks(s, v, c)
         /\ \A given : Awaits(given)' = Awaits(given)
<1>1. UNCHANGED <<program, states, summaries, edges>>
  BY DEF vars, results
<1>2. \A key : Start(key)' = Start(key)
  BY <1>1 DEF Start
<1>3. \A key : Targets(key)' = Targets(key)
  BY <1>1, <1>2 DEF Targets
<1>4. \A key : Callees(key)' = Callees(key)
  BY <1>3 DEF Callees
<1>5. \A key : Waiting(key)' = Waiting(key)
  BY <1>1, <1>3, <1>4 DEF Waiting
<1>6. \A key : Out(key)' = Out(key)
  BY <1>1, <1>2, <1>4, <1>5 DEF Out
<1>7. \A key : Unwinders(key)' = Unwinders(key) /\ Handled(key)' = Handled(key)
  BY <1>1 DEF Unwinders, Handled
<1>8. \A context, u, i : UnwindContext(context, u, i)' = UnwindContext(context, u, i)
  BY <1>1 DEF UnwindContext
<1>9. \A key : Unwound(key)' = Unwound(key)
  BY <1>1, <1>7, <1>8 DEF Unwound
<1>10. \A key : Continuation(key)' = Continuation(key)
  BY <1>2, <1>7, <1>9, ContinuationComposes
<1>11. \A key, i : Composed(key, i)' = Composed(key, i)
  BY <1>1, <1>8 DEF Composed
<1>12. \A key : HandlerContext(key)' = HandlerContext(key)
  BY <1>1 DEF HandlerContext
<1>13. \A key : WantsResumption(key)' = WantsResumption(key)
  BY <1>1, <1>7, <1>11 DEF WantsResumption, AtHandler
<1>14. \A fr : Here(fr)' = Here(fr) /\ Held(fr)' = Held(fr)
  BY <1>1, <1>2, <1>6, <1>10 DEF Here, Held
<1>15. \A fr, next : Linked(fr, next)' = Linked(fr, next)
  BY <1>4, <1>7, <1>8, <1>11, <1>12, <1>13 DEF Linked, Unwinds
<1>16. \A s, i : Silent(s, i)' = Silent(s, i)
  BY <1>14 DEF Silent
<1>19. \A context, s : Flows(context, s)' = Flows(context, s)
  BY <1>1 DEF Flows, Entry, Below, Unknown
<1>20. \A fr : Flows(fr.context, Here(fr))' = Flows(fr.context, Here(fr))
              /\ Flows(fr.context, Held(fr))' = Flows(fr.context, Held(fr))
  BY <1>14, <1>19
<1>17. \A s, v, c : Tracks(s, v, c)' = Tracks(s, v, c)
  BY <1>1, <1>5, <1>14, <1>15, <1>16, <1>20 DEF Tracks
<1>18. \A given : Awaits(given)' = Awaits(given)
  BY <1>1 DEF Awaits
<1>. QED
  BY <1>17, <1>18

\* A guest that has not run is tracked.
LEMMA IdleTracks == ASSUME NEW v, NEW c PROVE Tracks(<<>>, v, c)
BY DEF Tracks

\* Nothing runs at first.
LEMMA InitSimulation == AllInit => Simulation
BY IdleTracks DEF AllInit, GuestInit, Simulation

\* Under a complete closure the guest stays tracked; before, nothing runs.
LEMMA NextKeepsSimulation ==
  ASSUME EInv, Constructed, Simulation, NonlocalExact, CallsReturn,
         ~EnterAfterStore, ~FaultInCallee, [AllNext]_allVars
  PROVE  Simulation'
<1>1. ASSUME UNCHANGED <<vars, first>>, Tracks(stack', reg', cell'),
             \A given \in registered' : Awaits(given),
             move' # NoMove => move' \in edges,
             entries' # 0, verdict = "complete", first = <<>>
      PROVE  Simulation'
  <2>1. UNCHANGED <<edges, verdict, first>>
    BY <1>1 DEF vars, results
  <2>2. Tracks(stack, reg, cell)' /\ \A given \in registered' : Awaits(given)'
    BY <1>1, ClosureStays
  <2>. QED
    BY <1>1, <2>1, <2>2 DEF Simulation
<1>2. CASE Moves
  <2>1. UNCHANGED <<vars, first, entries>> /\ Running
    BY <1>2 DEF Moves, Call, Advance, Return, Fault, Nonlocally, Leave
  <2>2. entries' # 0 /\ verdict = "complete" /\ first = <<>>
    BY <2>1 DEF EInv
  <2>. QED
    BY <1>1, <1>2, <2>1, <2>2, MovesTrack
<1>3. ASSUME NEW x \in Entrances, Enter(x) PROVE Simulation'
  <2>1. UNCHANGED <<vars, first, registered>> /\ verdict = "complete" /\ first = <<>>
        /\ entries' = entries + 1
    BY <1>3 DEF Enter
  <2>2. entries' # 0
    BY <2>1 DEF EInv
  <2>3. \A given \in registered' : Awaits(given)
    BY <2>1 DEF Simulation
  <2>. QED
    BY <1>1, <1>3, <2>1, <2>2, <2>3, EnterTracks
<1>4. CASE Analysis \/ UNCHANGED allVars
  <2>1. [Next]_vars /\ UNCHANGED <<stack, reg, cell, registered, move, entries, first>>
    BY <1>4 DEF Analysis, allVars, guest
  <2>2. CASE entries # 0
    <3>1. verdict = "complete" /\ first = <<>>
      BY <2>2 DEF Simulation
    <3>2. UNCHANGED vars
      BY <2>1, <3>1 DEF Next, Visit, Flush, Decide
    <3>3. Tracks(stack', reg', cell') /\ \A given \in registered' : Awaits(given)
      BY <2>1 DEF Simulation
    <3>4. move' # NoMove => move' \in edges
      BY <2>1 DEF Simulation
    <3>. QED
      BY <1>1, <2>1, <2>2, <3>1, <3>2, <3>3, <3>4
  <2>3. CASE entries = 0
    <3>1. stack = <<>> /\ registered = {} /\ move = NoMove
      BY <2>3 DEF EInv, Running, Simulation
    <3>2. Tracks(stack, reg, cell)'
      BY <2>1, <3>1 DEF Tracks
    <3>. QED
      BY <2>1, <2>3, <3>1, <3>2 DEF Simulation, NoMove
  <2>. QED
    BY <2>2, <2>3
<1>5. CASE Replay
  <2>1. entries = 0 /\ UNCHANGED <<stack, registered, move, entries>>
    BY <1>5 DEF Replay, guest
  <2>2. stack = <<>> /\ registered = {} /\ move = NoMove
    BY <2>1 DEF EInv, Running, Simulation
  <2>3. Tracks(stack, reg, cell)'
    BY <2>1, <2>2 DEF Tracks
  <2>. QED
    BY <2>1, <2>2, <2>3 DEF Simulation, NoMove
<1>. QED
  BY <1>2, <1>3, <1>4, <1>5 DEF AllNext, Execution, Moves

\* The invariant of a guest under its closure.
LEMMA AlwaysTracked ==
  ASSUME ~EnterAfterStore, ~FaultInCallee
  PROVE  AllSpec /\ [](NonlocalExact /\ CallsReturn) => [](EInv /\ Constructed /\ Simulation)
<1>1. AllInit => EInv /\ Simulation
  BY InitEInv, InitSimulation
<1>2. EInv /\ Simulation /\ Constructed /\ (NonlocalExact /\ CallsReturn) /\ [AllNext]_allVars
        => EInv' /\ Simulation'
  BY SimulationReaches, NextKeepsEInv, NextKeepsSimulation
<1>. QED
  BY <1>1, <1>2, AlwaysConstructed, PTL DEF AllSpec

(* The guest's register and cell are always covered, and every activation  *)
(* has its key: joins, call strings, summaries, the composition of a fault *)
(* and the chain of a nonlocal transfer lose no execution.  The hypotheses *)
(* are the places where the code does lose one: the host enters after a    *)
(* store, a callee faults, a callee of a site never returns, a nonlocal    *)
(* transfer restores a cell in which the image holds a conflict, or        *)
(* from frames that have changed since.                                    *)
THEOREM GuestIsSimulated ==
  ASSUME ~EnterAfterStore, ~FaultInCallee
  PROVE  AllSpec /\ [](NonlocalExact /\ CallsReturn) => []Simulated
<1>1. EInv /\ Constructed /\ Simulation => Simulated
  <2> SUFFICES ASSUME EInv, Constructed, Simulation, NEW i \in DOMAIN stack
               PROVE  LET key == <<stack[i].unit, stack[i].context>> IN
                      /\ key \in DOMAIN states
                      /\ i = Len(stack) /\ ~stack[i].called
                           => Covers(states[key].reg, reg) /\ Covers(states[key].cell, cell)
    BY DEF Simulated
  <2>1. i \in 1..Len(stack) /\ stack # <<>>
    BY LenProperties, EmptySeq DEF EInv, GuestType
  <2>2. At(stack[i]) \in DOMAIN states
    BY <2>1, StackFacts
  <2>3. Covers(Here(Top).reg, reg) /\ Covers(Here(Top).cell, cell) /\ Top = stack[Len(stack)]
    BY <2>1, TopFacts DEF Running
  <2>. QED
    BY <2>2, <2>3 DEF At, Here
<1>. QED
  BY <1>1, AlwaysTracked, PTL

(* The closure is a may-reach closure, under the same hypotheses.          *)
THEOREM GuestStaysWithinReach ==
  ASSUME ~EnterAfterStore, ~FaultInCallee
  PROVE  AllSpec /\ [](NonlocalExact /\ CallsReturn) => []MayReach
<1>1. EInv /\ Constructed /\ Simulation => MayReach
  BY SimulationReaches
<1>. QED
  BY <1>1, AlwaysTracked, PTL

(* The guest asks for no indirect target that the closure has not resolved,*)
(* under the same hypotheses.                                              *)
THEOREM GuestTargetsResolved ==
  ASSUME ~EnterAfterStore, ~FaultInCallee
  PROVE  AllSpec /\ [](NonlocalExact /\ CallsReturn) => []TargetsResolved
<1>1. EInv /\ Constructed /\ Simulation => TargetsResolved
  <2> SUFFICES ASSUME EInv, Constructed, Simulation, Running, ~Top.called
               PROVE  /\ T.call = "indirect" => RegNow \in Units \cup {External}
                      /\ T.call = "none" /\ T.op = "indirect" /\ T.authority = {}
                           => RegNow \in Units \cup {External}
    BY DEF TargetsResolved
  <2> DEFINE key == At(Top)
  <2>1. /\ key \in DOMAIN states /\ key[1] = Top.unit /\ T = program[Top.unit]
        /\ verdict = "complete"
    BY TopFacts
  <2>2. Covers(Start(key).reg, RegNow)
    BY Effect
  <2>3. ASSUME T.call = "indirect" PROVE RegNow \in Units \cup {External}
    <3>1. Targets(key).known /\ Targets(key) = CallTargets(T, Start(key))
      BY <2>1, CallsKnown DEF Targets
    <3> HIDE DEF key
    <3>2. Start(key).reg \subseteq Units \/ Start(key).reg = {External}
      BY <2>3, <3>1 DEF CallTargets, Unresolved, Resolution
    <3>. QED
      BY <2>2, <3>2, KnownCovers DEF Atoms
  <2>4. ASSUME T.call = "none", T.op = "indirect", T.authority = {}
        PROVE  RegNow \in Units \cup {External}
    <3>1. AtTerminator
      BY <2>4 DEF AtTerminator, CallsGuest
    <3>2. ~Waiting(key) /\ Covers(Out(key).reg, RegNow)
      BY <3>1, Terminator
    <3>3. JumpResolved(key) /\ JumpResolution(key) = Inferred(key)
      BY <2>1, <2>4, <3>2 DEF JumpResolved, JumpResolution
    <3>4. Inferred(key).known
      BY <2>1, <3>3, CompleteKey
    <3> HIDE DEF key
    <3>5. Out(key).reg \subseteq Units \cup {External}
      BY <3>4 DEF Inferred, JumpTargets, Unresolved, Resolution
    <3>. QED
      BY <3>2, <3>5, KnownCovers DEF Atoms
  <2>. QED
    BY <2>3, <2>4
<1>. QED
  BY <1>1, AlwaysTracked, PTL

(* The execution implements the abstract authority, under the same         *)
(* hypotheses: nothing about the guest itself is assumed.                  *)
THEOREM ExecutionIsAuthorized ==
  ASSUME ~EnterAfterStore, ~FaultInCallee
  PROVE  AllSpec /\ [](NonlocalExact /\ CallsReturn) => AuthorityHolds
BY GuestStaysWithinReach, ReachIsAuthority, PTL
=============================================================================
