-------------------------- MODULE ClosedExecution --------------------------
(***************************************************************************)
(* A guest that executes under the execution closure of its module.  A     *)
(* complete closure authorizes execution: the host may then enter a root,  *)
(* or a callback the guest has given away, and the guest runs transfer by  *)
(* transfer, with the data, the calls, the faults and the nonlocal         *)
(* transfers that TransferClosure abstracts.  Each frame carries the       *)
(* function context that the closure gives to its activation, so that the  *)
(* guest can be compared with the states of the closure.                   *)
(*                                                                         *)
(* The closure can also be built again from the same inputs: the checker   *)
(* of a closure replays it, and a second implementation has to agree.      *)
(***************************************************************************)
EXTENDS TransferClosure

CONSTANTS
  MaxStack,          \* activations at a time
  MaxEntries,        \* times the host enters the guest
  EnterAfterStore,   \* the host may enter when the cell is not as the closure starts from
  FaultInCallee      \* a called function may fault

VARIABLES
  stack,       \* activations, the running one last
  reg, cell,   \* the concrete register and the concrete global cell
  registered,  \* callbacks given away, as entrances
  move,        \* the edge the last step took, NoMove when it took none
  entries,
  first        \* what the first construction returned, <<>> before a replay

guest == <<stack, reg, cell, registered, move, entries>>
allVars == <<vars, guest, first>>

NoMove == [source |-> Outside, target |-> Outside, kind |-> "none"]
Move(source, target, kind) == [source |-> source, target |-> target, kind |-> kind]

\* `back' says what a return of this activation goes on with.
Frame(unit, context, back) ==
  [unit |-> unit, context |-> context, back |-> back, called |-> FALSE, unwound |-> 0]

Top == stack[Len(stack)]
Rest == SubSeq(stack, 1, Len(stack) - 1)
Running == stack # <<>>
T == program[Top.unit]

\* The register and the cell after the effect of the running transfer.
RegNow == CASE Top.called -> reg
            [] ~Top.called /\ T.effect = "load" -> cell
            [] ~Top.called /\ T.effect = "set" -> T.value
            [] OTHER -> reg
CellNow == IF ~Top.called /\ T.effect = "store" THEN T.value ELSE cell

CallsGuest == ~Top.called /\ (T.call = "direct" \/ (T.call = "indirect" /\ RegNow \in Units))
AtTerminator == Top.called \/ ~CallsGuest

-----------------------------------------------------------------------------
GuestInit ==
  /\ stack = <<>> /\ reg = Other /\ cell \in InitialCell
  /\ registered = {} /\ move = NoMove /\ entries = 0 /\ first = <<>>

AllInit == Init /\ GuestInit

\* An entrance: where, what the closure starts from there, and the edge to it.
Entrance(unit, c, edge) == [unit |-> unit, cell |-> c, edge |-> edge]
Entrances == {Entrance(r, c, NoMove) : r \in Roots, c \in InitialCell} \cup registered

Enter(x) ==
  /\ verdict = "complete" /\ first = <<>> /\ ~Running /\ entries < MaxEntries
  /\ EnterAfterStore \/ x.cell = cell
  /\ stack' = <<Frame(x.unit, RootContext(x.unit, x.unit), "host")>>
  /\ reg' = Other /\ move' = x.edge /\ entries' = entries + 1
  /\ UNCHANGED <<vars, cell, registered, first>>

Call ==
  /\ Running /\ CallsGuest /\ Len(stack) < MaxStack
  /\ LET callee == IF T.call = "direct" THEN T.target ELSE RegNow IN
     /\ stack' = Append(Append(Rest, [Top EXCEPT !.called = TRUE]),
                        Frame(callee, Child(Top.context, callee, Top.unit), "caller"))
     /\ move' = Move(Top.unit, callee, "internal_call")
  /\ reg' = RegNow /\ cell' = CellNow
  /\ UNCHANGED <<vars, registered, entries, first>>

Goto(target, kind) ==
  /\ stack' = Append(Rest, [Top EXCEPT !.unit = target, !.called = FALSE])
  /\ move' = Move(Top.unit, target, kind)

\* The external part of a transfer gives the register away as a callback.
Registered ==
  IF ~Top.called /\ T.call = "callback" /\ RegNow \in Units
  THEN registered \cup {Entrance(RegNow, CellNow, Move(Top.unit, RegNow, "callback_escape"))}
  ELSE registered

Advance ==
  /\ Running /\ AtTerminator /\ T.call # "terminates" /\ Top.unit \notin BoundaryExits
  /\ \/ T.op \in {"jump", "branch"} /\ \E i \in DOMAIN T.to : Goto(T.to[i], "direct_control")
     \/ /\ T.op = "indirect" /\ RegNow \in Units
        /\ T.authority # {} => RegNow \in T.authority
        /\ Goto(RegNow, "indirect_control")
  /\ reg' = RegNow /\ cell' = CellNow /\ registered' = Registered
  /\ UNCHANGED <<vars, entries, first>>

\* An activation ends.  A fault goes on with its next unwind function, then with
\* the handler; a handler without a resumption stands for the faulted function.
AfterFault(s) ==
  LET faulted == s[Len(s)]
      below == SubSeq(s, 1, Len(s) - 1)
      fault == program[faulted.unit].fault
      i == faulted.unwound + 1
      handling == Frame(fault.handler, RootContext(faulted.context.root, fault.handler), "fault")
  IN  IF i <= Len(fault.unwind)
      THEN Append(Append(below, [faulted EXCEPT !.unwound = i]),
                  Frame(fault.unwind[i], UnwindContext(faulted.context, faulted.unit, i), "fault"))
      ELSE IF i = Len(fault.unwind) + 1
      THEN IF fault.resume = Outside THEN Append(below, [handling EXCEPT !.back = faulted.back])
           ELSE Append(Append(below, [faulted EXCEPT !.unwound = i]), handling)
      ELSE Append(below, Frame(fault.resume, RootContext(faulted.context.root, fault.resume),
                               faulted.back))

FaultMove(s) ==
  LET faulted == s[Len(s)]
      fault == program[faulted.unit].fault
      n == Len(fault.unwind)
      i == faulted.unwound
      from == IF i = 0 THEN faulted.unit ELSE IF i <= n THEN fault.unwind[i] ELSE fault.handler
  IN  IF i < n THEN Move(from, fault.unwind[i + 1], "exception_unwind")
      ELSE IF i = n THEN Move(from, fault.handler, "exception_handler")
      ELSE Move(from, fault.resume, "exception_resumption")

Returning ==
  /\ AtTerminator
  /\ \/ T.op = "return"
     \/ T.op = "external" /\ ~Top.called /\ T.call \in {"returns", "callback", "indirect"}
     \/ T.op = "indirect" /\ RegNow = External /\ T.authority = {}

Return ==
  /\ Running /\ Returning
  /\ IF Top.back = "fault"
     THEN stack' = AfterFault(Rest) /\ move' = FaultMove(Rest)
     ELSE stack' = Rest /\ move' = NoMove
  /\ reg' = RegNow /\ cell' = CellNow /\ registered' = Registered
  /\ UNCHANGED <<vars, entries, first>>

Fault ==
  /\ Running /\ ~Top.called /\ T.fault.kind = "handled" /\ Len(stack) < MaxStack
  /\ FaultInCallee \/ Top.back = "host"
  /\ stack' = AfterFault(stack) /\ move' = FaultMove(stack)
  /\ reg' = RegNow /\ cell' = CellNow
  /\ UNCHANGED <<vars, registered, entries, first>>

\* Back to the nearest activation that is suspended in a call to the target.
Landings ==
  {i \in 1..Len(stack) - 1 :
     /\ ReturnAddress(stack[i].unit) = RegNow
     /\ \A j \in i + 1..Len(stack) : stack[j].back = "caller"}

Nonlocally ==
  /\ Running /\ AtTerminator /\ T.op = "nonlocal"
  /\ \E i \in Landings :
       /\ \A j \in Landings : j <= i
       /\ stack' = Append(SubSeq(stack, 1, i - 1),
                          [stack[i] EXCEPT !.unit = RegNow, !.called = FALSE])
  /\ move' = Move(Top.unit, RegNow, "nonlocal_control")
  /\ reg' = RegNow /\ cell' = CellNow
  /\ UNCHANGED <<vars, registered, entries, first>>

\* The process ends, or control leaves the component at one of its exits.
Leave ==
  /\ Running /\ AtTerminator
  /\ T.call = "terminates" \/ Top.unit \in BoundaryExits
  /\ stack' = <<>> /\ move' = NoMove
  /\ reg' = RegNow /\ cell' = CellNow /\ registered' = Registered
  /\ UNCHANGED <<vars, entries, first>>

\* What the artifact states, without its measurements.
Payload ==
  [verdict |-> verdict, witnesses |-> DOMAIN states, edges |-> edges,
   indirect |-> indirect, escapes |-> escapes]

Replay ==
  /\ verdict # "open" /\ first = <<>> /\ entries = 0
  /\ first' = <<Payload>>
  /\ states' = RootStates /\ queued' = RootKeys
  /\ deferred' = {} /\ edges' = {} /\ dependents' = {} /\ failures' = {} /\ blockers' = {}
  /\ summaries' = <<>> /\ frames' = <<>> /\ escapes' = <<>> /\ indirect' = <<>>
  /\ steps' = 0 /\ verdict' = "open"
  /\ UNCHANGED program
  /\ UNCHANGED guest

Analysis == Next /\ UNCHANGED <<guest, first>>
Execution ==
  \/ \E x \in Entrances : Enter(x)
  \/ Call \/ Advance \/ Return \/ Fault \/ Nonlocally \/ Leave

AllNext == Analysis \/ Execution \/ Replay
AllSpec == AllInit /\ [][AllNext]_allVars

-----------------------------------------------------------------------------
Covers(values, v) == values = Unknown \/ v \in values

(* Whatever the guest does, every activation is at a unit of the closure   *)
(* in a context the closure gave it, and where the guest arrives the       *)
(* abstract state covers its register and its cell: the joins, the         *)
(* summaries, the call strings and the unwind and nonlocal compositions of *)
(* build_module_execution_closure lose no execution.                       *)
Simulated ==
  \A i \in DOMAIN stack :
    LET key == <<stack[i].unit, stack[i].context>> IN
    /\ key \in DOMAIN states
    /\ i = Len(stack) /\ ~stack[i].called
         => Covers(states[key].reg, reg) /\ Covers(states[key].cell, cell)

(* The closure is a may-reach closure (docs/architecture.md): the guest is *)
(* only ever in units it lists, and gets there over edges it lists.        *)
MayReach ==
  /\ \A i \in DOMAIN stack : stack[i].unit \in Reached
  /\ move # NoMove => move \in edges

(* Under a complete closure the guest never asks for an indirect target    *)
(* that the closure did not resolve (the unresolved blockers), as long as  *)
(* it keeps to the authority where there is one.                           *)
TargetsResolved ==
  Running /\ ~Top.called =>
    /\ T.call = "indirect" => RegNow \in Units \cup {External}
    /\ T.call = "none" /\ T.op = "indirect" /\ T.authority = {}
         => RegNow \in Units \cup {External}

(* A complete closure is a fixed point: to visit any of its keys again, in *)
(* any order, changes nothing.  It is what the dependents of summaries,    *)
(* frames and branch edges are kept for.                                   *)
Settled ==
  verdict = "complete" =>
    \A key \in DOMAIN states :
      /\ StatesAfter(VisitEdges(key)) = states
      /\ EdgesOf(VisitEdges(key)) \subseteq edges
      /\ SummariesAfter(key) = summaries
      /\ FailuresAfter(key) = failures /\ IndirectAfter(key) = indirect
      /\ EscapesAfter(key) = escapes /\ FramesAfter(key) = frames
      /\ KeptBack(key) = {}

(* A second construction returns the same artifact, in whatever order it   *)
(* visits (check_module_execution_closure_v1, and the parity of the native *)
(* kernel with the Python reference).                                      *)
Replays ==
  first # <<>> /\ verdict # "open" /\ first[1].verdict = "complete"
    => Payload = first[1]

(* The execution keeps the promise of ExecutionAuthority; a replay leaves  *)
(* the authority of the first construction as it is.                       *)
Authority == INSTANCE ExecutionAuthority WITH
  units <- IF first = <<>> THEN Reached ELSE {key[1] : key \in first[1].witnesses},
  edges <- IF first = <<>> THEN edges ELSE first[1].edges,
  decision <- IF first = <<>> THEN verdict ELSE first[1].verdict,
  running <- [i \in DOMAIN stack |-> stack[i].unit]

AuthorityHolds == Authority!Spec
=============================================================================
