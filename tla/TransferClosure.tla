-------------------------- MODULE TransferClosure --------------------------
(***************************************************************************)
(* The execution closure of a module: from its roots, which transfers can  *)
(* run, over which edges, with which indirect targets.  A worklist joins   *)
(* abstract states at (transfer, function context) until nothing changes.  *)
(* A call waits for the summary of its callee, branches wait until nothing *)
(* else is pending, nonlocal transfers look for an active ancestor,        *)
(* handled faults compose unwind functions, handler and resumption.  The   *)
(* result is complete, and authorizes execution, when no blocker is left.  *)
(*                                                                         *)
(* A transfer here has one data effect, at most one fault, at most one     *)
(* call and a terminator; the reference state is one register, one global  *)
(* cell and the frame bindings.  A reference value is a set of atoms: code *)
(* of the module, an external function, a scalar; Unknown stands for the   *)
(* unknown scalar and for the conflict, neither of which has a target.     *)
(* The two differ in one place, the comparison with the image (Explicit).  *)
(* An image word is known or, read as two kinds of address, a conflict;    *)
(* where it is a conflict no image here stores an unknown scalar, so that  *)
(* a cell of a state is Unknown only as a conflict, equal to the image's.  *)
(* The heap of the code is a set here: its priorities choose an order, and *)
(* any order of visits is a behaviour.                                     *)
(***************************************************************************)
EXTENDS Integers, FiniteSets, Sequences

CONSTANTS
  Units,            \* transfers, named by their rva
  Outside,          \* an rva that no transfer has
  External, Scalar, \* atoms that are not code of the module
  Other,            \* the atom of the unknown value
  Roots,
  Programs,         \* module images: unit -> transfer
  InitialCell,      \* what the image holds in the cell: a known value or a conflict
  BoundaryExits,
  AlternativeLimit, CallStringLimit, MaximumWorklistSteps

Atoms == Units \cup {External, Scalar}
Unknown == {Other}
Values == ((SUBSET Atoms) \ {{}}) \cup {Unknown}

Addresses == Units \cup {Outside}

Faults ==
  [kind : {"none", "handled", "unresolved"},
   unwind : Seq(Addresses), handler : Addresses, resume : Addresses]

Transfers ==
  [effect : {"none", "load", "set", "store"}, value : Atoms \cup Unknown,
   call : {"none", "direct", "indirect", "returns", "terminates", "callback"},
   target : Addresses,
   op : {"jump", "branch", "return", "indirect", "external", "nonlocal"},
   to : Seq(Addresses),
   fault : Faults,
   authority : SUBSET Units]  \* targets some authority allows, {} for none

ASSUME ClosureAssumption ==
  /\ IsFiniteSet(Units)
  /\ Roots \subseteq Units /\ Roots # {} /\ BoundaryExits \subseteq Units
  /\ Outside \notin Units /\ External \notin Units
  /\ Scalar \notin Units \cup {External} /\ Other \notin Atoms
  /\ InitialCell \in Values
  /\ Programs \subseteq [Units -> Transfers]
  /\ AlternativeLimit \in Nat \ {0} /\ CallStringLimit \in Nat \ {0}
  /\ MaximumWorklistSteps \in Nat \ {0}

\* No unknown scalar beside the image's conflict (see above).
ASSUME ConflictAssumption ==
  InitialCell = Unknown =>
    \A p \in Programs, u \in Units : p[u].effect = "store" => p[u].value # Other

VARIABLES
  program,    \* the image under analysis
  states,     \* key -> abstract state at its entry
  queued,     \* keys to visit
  deferred,   \* branch edges kept back: [source, target, state]
  edges,      \* reachable edges
  summaries,  \* function context -> abstract state at its return
  dependents, \* <<function context, key that waits for its summary>>
  frames,     \* <<callee context, caller key>> -> state at the call
  escapes,    \* <<call site, callback target>>
  indirect,   \* <<key, site>> -> resolution of an indirect call or jump
  failures,   \* <<kind, site>> that the last visit of a key left unresolved
  blockers,   \* <<kind, unit>> that no later visit takes back
  steps,
  verdict     \* "open", then "complete" or "incomplete"

results == <<states, edges, summaries, escapes, indirect, failures, blockers>>
worklist == <<queued, deferred, dependents, frames, steps>>
vars == <<program, results, worklist, verdict>>

-----------------------------------------------------------------------------
(* Reference values and states.                                            *)

JoinValues(V) ==
  LET all == UNION V IN
  IF Other \in all \/ Cardinality(all) > AlternativeLimit THEN Unknown ELSE all

JoinStates(S) ==
  [reg |-> JoinValues({s.reg : s \in S}), cell |-> JoinValues({s.cell : s \in S}),
   wrote |-> \E s \in S : s.wrote, bindings |-> UNION {s.bindings : s \in S}]

RootState(cell, bindings) ==
  [reg |-> Unknown, cell |-> cell, wrote |-> FALSE, bindings |-> bindings]

\* Cells equal to the image and never written are left out of a state.  If the image's
\* value is Unknown, so is a conflict that a join makes, and is left out as well.
Explicit(s) == s.wrote \/ s.cell # InitialCell

EffectSummary(s) == [s EXCEPT !.cell = IF s.wrote THEN s.cell ELSE InitialCell]

\* Mutated form: what a callee may have written replaces what the caller knows.
ReturnStateReplaced(summary, caller) ==
  [reg |-> summary.reg,
   cell |-> IF ~summary.wrote THEN caller.cell ELSE summary.cell,
   wrote |-> caller.wrote \/ summary.wrote,
   bindings |-> caller.bindings]

\* The state of `caller` after a callee that returned in state `summary'.
ReturnState(summary, caller) ==
  [reg |-> summary.reg,
   cell |-> IF ~summary.wrote THEN caller.cell
            ELSE IF Explicit(caller) THEN JoinValues({caller.cell, summary.cell})
            ELSE summary.cell,
   wrote |-> caller.wrote \/ summary.wrote,
   bindings |-> caller.bindings]

-----------------------------------------------------------------------------
(* Function contexts: a root, a function entry and a bounded call string.  *)

RootContext(root, entry) == [root |-> root, entry |-> entry, string |-> <<>>]

\* Mutated form: the suffix is one call too long.
SuffixOff(s) ==
  IF Len(s) <= CallStringLimit THEN s ELSE SubSeq(s, Len(s) - CallStringLimit, Len(s))

Suffix(s) ==
  IF Len(s) <= CallStringLimit THEN s
  ELSE SubSeq(s, Len(s) - CallStringLimit + 1, Len(s))

Child(context, target, site) ==
  [root |-> context.root, entry |-> target,
   string |-> Suffix(Append(context.string, <<site, 0>>))]

UnwindContext(context, unit, i) ==
  [root |-> context.root, entry |-> program[unit].fault.unwind[i],
   string |-> <<<<unit, i>>>>]

\* What the callee sees: its own frame, bound to the frame of the caller.
CalleeState(s, callee, caller) ==
  [s EXCEPT !.wrote = FALSE,
            !.bindings = {b \in s.bindings : b[1] # callee} \cup {<<callee, caller>>}]

-----------------------------------------------------------------------------
(* What a transfer does to the state, and where its values lead.           *)

Resolution(known, guest, external) ==
  [known |-> known, guest |-> guest, external |-> external]
Unresolved == Resolution(FALSE, {}, FALSE)

Before(t, s) ==
  CASE t.effect = "none" -> s
    [] t.effect = "load" -> [s EXCEPT !.reg = s.cell]
    [] t.effect = "set" -> [s EXCEPT !.reg = {t.value}]
    [] t.effect = "store" -> [s EXCEPT !.cell = {t.value}, !.wrote = TRUE]

\* A call site serves the module or the external functions, never both.
CallTargets(t, s) ==
  CASE t.call = "none" -> Resolution(TRUE, {}, FALSE)
    [] t.call = "direct" -> Resolution(TRUE, {t.target}, FALSE)
    [] t.call \in {"returns", "terminates", "callback"} -> Resolution(TRUE, {}, TRUE)
    [] t.call = "indirect" ->
         IF s.reg \subseteq Units THEN Resolution(TRUE, s.reg, FALSE)
         ELSE IF s.reg = {External} THEN Resolution(TRUE, {}, TRUE)
         ELSE Unresolved

JumpTargets(v) ==
  IF v \subseteq Units \cup {External}
  THEN Resolution(TRUE, v \ {External}, External \in v)
  ELSE Unresolved

\* A callback argument may be a sentinel, but not an external function.
CallbackKnown(v) == v \subseteq Units \cup {Scalar}

ReturnAddress(unit) ==
  IF program[unit].op = "jump" THEN program[unit].to[1] ELSE Outside

HasNonlocal == \E u \in Units : program[u].op = "nonlocal"

-----------------------------------------------------------------------------
(* One visit: the state before and after the call of the transfer.         *)

Start(key) == Before(program[key[1]], states[key])
Targets(key) == CallTargets(program[key[1]], Start(key))
Callees(key) == {Child(key[2], g, key[1]) : g \in Targets(key).guest}

\* Nothing behind a call is visited before every callee has a summary.
Waiting(key) == ~Targets(key).known \/ ~(Callees(key) \subseteq DOMAIN summaries)

Out(key) ==
  IF Waiting(key) THEN [Start(key) EXCEPT !.reg = Unknown]
  ELSE IF Callees(key) = {} THEN Start(key)
  ELSE JoinStates({ReturnState(summaries[c], Start(key)) : c \in Callees(key)})

Edge(source, target, kind, state, context) ==
  [source |-> source, target |-> target, kind |-> kind,
   state |-> state, context |-> context]

\* A handled fault: the unwind functions one after the other, as far as their
\* summaries are known, then the handler, then the resumption.
Handled(key) == program[key[1]].fault.kind = "handled"
Unwinders(key) == program[key[1]].fault.unwind
Composed(key, n) ==
  \A i \in 1..n : UnwindContext(key[2], key[1], i) \in DOMAIN summaries
Unwinding(key) == {i \in 1..Len(Unwinders(key)) : Handled(key) /\ Composed(key, i - 1)}

Continuation(key) ==
  LET after[i \in 0..Len(Unwinders(key))] ==
        IF i = 0 THEN Start(key)
        ELSE ReturnState(summaries[UnwindContext(key[2], key[1], i)], after[i - 1])
  IN  after

HandlerContext(key) == RootContext(key[2].root, program[key[1]].fault.handler)
AtHandler(key) == Handled(key) /\ Composed(key, Len(Unwinders(key)))
WantsResumption(key) == AtHandler(key) /\ program[key[1]].fault.resume # Outside
Resumes(key) == WantsResumption(key) /\ HandlerContext(key) \in DOMAIN summaries

FaultEdges(key) ==
  LET fault == program[key[1]].fault
      n == Len(fault.unwind)
      source(i) == IF i = 0 THEN key[1] ELSE fault.unwind[i]
  IN  {Edge(source(i - 1), fault.unwind[i], "exception_unwind",
            Continuation(key)[i - 1], UnwindContext(key[2], key[1], i)) : i \in Unwinding(key)}
      \cup (IF AtHandler(key)
            THEN {Edge(source(n), fault.handler, "exception_handler",
                       Continuation(key)[n], HandlerContext(key))} ELSE {})
      \cup (IF Resumes(key)
            THEN {Edge(fault.handler, fault.resume, "exception_resumption",
                       ReturnState(summaries[HandlerContext(key)], Continuation(key)[n]),
                       RootContext(key[2].root, fault.resume))} ELSE {})

FaultFails(key) ==
  Handled(key) /\ (~AtHandler(key) \/ (WantsResumption(key) /\ ~Resumes(key)))

\* The summaries this visit read, or wants to read on a later one.
Awaited(key) ==
  Callees(key)
  \cup {UnwindContext(key[2], key[1], i) : i \in Unwinding(key)}
  \cup (IF WantsResumption(key) THEN {HandlerContext(key)} ELSE {})

\* A nonlocal transfer: chains of active call frames, from this context up to the
\* first call that returns to the target.  More than one is an ambiguity.
Chains(context, target) ==
  LET depth == Cardinality({f[1] : f \in DOMAIN frames}) IN
  {p \in UNION {[1..n -> DOMAIN frames] : n \in 1..depth} :
     /\ p[1][1] = context
     /\ \A i \in 1..Len(p) - 1 :
          p[i + 1][1] = p[i][2][2] /\ ReturnAddress(p[i][2][1]) # target
     /\ \A i, j \in 1..Len(p) : i # j => p[i][1] # p[j][1]
     /\ ReturnAddress(p[Len(p)][2][1]) = target}

Restored(state, chain) ==
  LET after[i \in 0..Len(chain)] ==
        IF i = 0 THEN state
        ELSE ReturnState([after[i - 1] EXCEPT !.wrote = Explicit(after[i - 1])],
                         frames[chain[i]])
  IN  after[Len(chain)]

Nonlocal(key) == program[key[1]].op = "nonlocal"
Ancestors(key) ==
  IF Out(key).reg \subseteq Units /\ Cardinality(Out(key).reg) = 1
  THEN Chains(key[2], CHOOSE u \in Units : u \in Out(key).reg)
  ELSE {}

NonlocalEdges(key) ==
  IF Nonlocal(key) /\ Cardinality(Ancestors(key)) = 1
  THEN {Edge(key[1], CHOOSE u \in Units : u \in Out(key).reg, "nonlocal_control",
             Restored(Out(key), p), p[Len(p)][2][2]) : p \in Ancestors(key)}
  ELSE {}
NonlocalFails(key) == Nonlocal(key) /\ Cardinality(Ancestors(key)) # 1

\* Code given to an external function runs later, as a root of its own.
Escapes(key) == program[key[1]].call = "callback"
\* Mutated form: the edge to a callback passes for a call.
CallbackEdgesAsCalls(key) ==
  IF Escapes(key) /\ CallbackKnown(Start(key).reg)
  THEN {Edge(key[1], g, "internal_call", RootState(Out(key).cell, Out(key).bindings),
             RootContext(g, g)) : g \in Start(key).reg \cap Units}
  ELSE {}

CallbackEdges(key) ==
  IF Escapes(key) /\ CallbackKnown(Start(key).reg)
  THEN {Edge(key[1], g, "callback_escape", RootState(Out(key).cell, Out(key).bindings),
             RootContext(g, g)) : g \in Start(key).reg \cap Units}
  ELSE {}

EscapesAfter(key) ==
  LET u == key[1]
      found == IF CallbackKnown(Start(key).reg)
               THEN Resolution(TRUE, Start(key).reg \cap Units, FALSE) ELSE Unresolved
      old == IF u \in DOMAIN escapes THEN escapes[u] ELSE found
      new == IF old.known /\ found.known
             THEN Resolution(TRUE, old.guest \cup found.guest, FALSE) ELSE Unresolved
  IN  IF Escapes(key) THEN [x \in DOMAIN escapes \cup {u} |-> IF x = u THEN new ELSE escapes[x]]
      ELSE escapes

\* Control that stays in the function.  A branch edge nobody took yet is kept back.
Continues(key) ==
  /\ ~Waiting(key) /\ program[key[1]].call # "terminates"
  /\ key[1] \notin BoundaryExits
Successors(key) ==
  LET t == program[key[1]] IN
  IF Continues(key) /\ t.op \in {"jump", "branch"}
  THEN {Edge(key[1], t.to[i], "direct_control", Out(key), key[2]) : i \in DOMAIN t.to}
  ELSE {}
KeptBack(key) ==
  IF program[key[1]].op # "branch" THEN {}
  ELSE {e \in Successors(key) :
          [source |-> e.source, target |-> e.target, kind |-> e.kind] \notin edges}
DirectEdges(key) == Successors(key) \ KeptBack(key)

\* An indirect jump: the inferred targets, within the authority when there is one.
JumpResolved(key) == program[key[1]].op = "indirect" /\ ~Waiting(key)
Inferred(key) == JumpTargets(Out(key).reg)
Conflicts(key) ==
  /\ JumpResolved(key) /\ program[key[1]].authority # {} /\ Inferred(key).known
  /\ Inferred(key).external \/ ~(Inferred(key).guest \subseteq program[key[1]].authority)
JumpResolution(key) ==
  IF program[key[1]].authority = {} THEN Inferred(key)
  ELSE IF ~Inferred(key).known THEN Resolution(TRUE, program[key[1]].authority, FALSE)
  ELSE IF Conflicts(key) THEN Unresolved
  ELSE Inferred(key)
IndirectEdges(key) ==
  IF JumpResolved(key) /\ key[1] \notin BoundaryExits
  THEN {Edge(key[1], g, "indirect_control", Out(key), key[2]) : g \in JumpResolution(key).guest}
  ELSE {}

CallEdges(key) ==
  {Edge(key[1], c.entry, "internal_call", CalleeState(Start(key), c, key[2]), c) :
     c \in Callees(key)}

FramesAfter(key) ==
  LET new == IF HasNonlocal THEN {<<c, key>> : c \in Callees(key)} ELSE {} IN
  [f \in DOMAIN frames \cup new |-> IF f \in new THEN Start(key) ELSE frames[f]]

IndirectAfter(key) ==
  LET sites == {x \in {<<key, "terminator">>} : JumpResolved(key)}
               \cup {x \in {<<key, "call">>} : program[key[1]].call = "indirect"}
  IN  [x \in DOMAIN indirect \cup sites |->
         CASE x \notin sites -> indirect[x]
           [] x \in sites /\ x[2] = "terminator" -> JumpResolution(key)
           [] x \in sites /\ x[2] = "call" -> Targets(key)]

\* Mutated form: a tail call of an external function does not return.
ReturnsOnlyReturn(key) == program[key[1]].op = "return"

\* The function returns here: a return, or an external function that is tail-called.
Returns(key) ==
  LET t == program[key[1]] IN
  \/ t.op = "return"
  \/ t.op = "external" /\ Targets(key).external /\ t.call # "terminates"
  \/ JumpResolved(key) /\ JumpResolution(key).external

SummariesAfter(key) ==
  LET c == key[2]
      new == JoinStates({EffectSummary(Out(key))}
                        \cup (IF c \in DOMAIN summaries THEN {summaries[c]} ELSE {}))
  IN  IF Returns(key)
      THEN [x \in DOMAIN summaries \cup {c} |-> IF x = c THEN new ELSE summaries[x]]
      ELSE summaries

\* Mutated form: the callers hear of the first summary only.
SummaryChangedFirst(key) == Returns(key) /\ key[2] \notin DOMAIN summaries

SummaryChanged(key) == SummariesAfter(key) # summaries

-----------------------------------------------------------------------------
(* Enqueueing: an edge carries a state to a key, and a key whose state      *)
(* changes is queued.  An edge out of the universe is a blocker for good.   *)

Inside(E) == {e \in E : e.target \in Units}
Key(e) == <<e.target, e.context>>

StatesAfter(E) ==
  [key \in DOMAIN states \cup {Key(e) : e \in Inside(E)} |->
     JoinStates({e.state : e \in {f \in Inside(E) : Key(f) = key}}
                \cup (IF key \in DOMAIN states THEN {states[key]} ELSE {}))]

\* Mutated form: a key that was visited once is done.
ChangedOnce(E) == DOMAIN StatesAfter(E) \ DOMAIN states

Changed(E) ==
  {key \in DOMAIN StatesAfter(E) :
     key \notin DOMAIN states \/ StatesAfter(E)[key] # states[key]}

EdgesOf(E) == {[source |-> e.source, target |-> e.target, kind |-> e.kind] : e \in Inside(E)}
Strays(E) == {<<"edge_outside_exact_universe", e.source>> : e \in E \ Inside(E)}

VisitEdges(key) ==
  FaultEdges(key) \cup NonlocalEdges(key) \cup CallbackEdges(key)
  \cup DirectEdges(key) \cup IndirectEdges(key) \cup CallEdges(key)

FailuresAfter(key) ==
  (failures \ {<<"fault", key>>, <<"nonlocal", key>>})
  \cup {x \in {<<"fault", key>>} : FaultFails(key)}
  \cup {x \in {<<"nonlocal", key>>} : NonlocalFails(key)}

-----------------------------------------------------------------------------
(* The construction.  Every root starts from the image.                    *)

RootKeys == {<<r, RootContext(r, r)>> : r \in Roots}
RootStates == [key \in RootKeys |-> RootState(InitialCell, {})]

Init ==
  /\ program \in Programs
  /\ states = RootStates /\ queued = RootKeys
  /\ deferred = {} /\ edges = {} /\ dependents = {} /\ failures = {} /\ blockers = {}
  /\ summaries = <<>> /\ frames = <<>> /\ escapes = <<>> /\ indirect = <<>>
  /\ steps = 0 /\ verdict = "open"

Visit(key) ==
  LET E == VisitEdges(key) IN
  /\ verdict = "open" /\ steps < MaximumWorklistSteps
  /\ key \in queued
  /\ steps' = steps + 1
  /\ states' = StatesAfter(E)
  /\ edges' = edges \cup EdgesOf(E)
  /\ summaries' = SummariesAfter(key)
  /\ dependents' = dependents \cup {<<c, key>> : c \in Awaited(key)}
  /\ queued' = (queued \ {key}) \cup Changed(E)
               \cup {d[2] : d \in {x \in dependents' : x[1] = key[2] /\ SummaryChanged(key)}}
  /\ deferred' = {d \in deferred : d.key # key \/ program[key[1]].op # "branch"}
                 \cup {[key |-> key, edge |-> e] : e \in KeptBack(key)}
  /\ frames' = FramesAfter(key)
  /\ escapes' = EscapesAfter(key)
  /\ indirect' = IndirectAfter(key)
  /\ failures' = FailuresAfter(key)
  /\ blockers' = blockers \cup Strays(E)
                 \cup {x \in {<<"finite_control_route_conflict", key[1]>>} : Conflicts(key)}
  /\ UNCHANGED <<program, verdict>>

\* Nothing else is pending: the branch edges kept back are followed.
Flush ==
  LET E == {d.edge : d \in deferred} IN
  /\ verdict = "open" /\ steps < MaximumWorklistSteps
  /\ queued = {} /\ deferred # {}
  /\ states' = StatesAfter(E)
  /\ edges' = edges \cup EdgesOf(E)
  /\ queued' = Changed(E)
  /\ deferred' = {}
  /\ blockers' = blockers \cup Strays(E)
  /\ UNCHANGED <<program, summaries, dependents, frames, escapes, indirect,
                 failures, steps, verdict>>

Reached == {key[1] : key \in DOMAIN states}

\* Mutated form: an unresolved indirect target is no blocker.
BlockedResolved ==
  \/ queued # {} \/ deferred # {}
  \/ blockers # {} \/ failures # {}
  \/ \E u \in DOMAIN escapes : ~escapes[u].known
  \/ \E u \in Reached : program[u].fault.kind = "unresolved"

Blocked ==
  \/ queued # {} \/ deferred # {}
  \/ blockers # {} \/ failures # {}
  \/ \E x \in DOMAIN indirect : ~indirect[x].known
  \/ \E u \in DOMAIN escapes : ~escapes[u].known
  \/ \E u \in Reached : program[u].fault.kind = "unresolved"

\* Mutated form: the branch edges kept back are forgotten.
DrainedQueue == queued = {}

Drained == queued = {} /\ deferred = {}

Decide ==
  /\ verdict = "open"
  /\ steps = MaximumWorklistSteps \/ Drained
  /\ verdict' = IF Blocked THEN "incomplete" ELSE "complete"
  /\ UNCHANGED <<program, results, worklist>>

Next == (\E key \in queued : Visit(key)) \/ Flush \/ Decide

Spec == Init /\ [][Next]_vars

-----------------------------------------------------------------------------
\* A call may name an rva that no transfer has: its context is never entered.
Contexts ==
  {c \in [root : Units, entry : Addresses, string : Seq(Units \X Nat)] :
     Len(c.string) <= CallStringLimit}
Keys == Units \X Contexts
States ==
  [reg : Values, cell : Values, wrote : BOOLEAN, bindings : SUBSET (Contexts \X Contexts)]
Resolutions == [known : BOOLEAN, guest : SUBSET Units, external : BOOLEAN]
Kinds ==
  {"exception_unwind", "exception_handler", "exception_resumption", "nonlocal_control",
   "callback_escape", "direct_control", "indirect_control", "internal_call"}
Followed ==
  [source : Units, target : Addresses, kind : Kinds, state : States, context : Contexts]
PartialFunction(f, S, T) == DOMAIN f \subseteq S /\ \A x \in DOMAIN f : f[x] \in T

TypeOK ==
  /\ PartialFunction(states, Keys, States)
  /\ queued \subseteq DOMAIN states
  /\ deferred \subseteq [key : DOMAIN states, edge : Followed]
  /\ edges \subseteq [source : Units, target : Units, kind : Kinds]
  /\ PartialFunction(summaries, Contexts, States)
  /\ dependents \subseteq Contexts \X DOMAIN states
  /\ PartialFunction(frames, Contexts \X DOMAIN states, States)
  /\ PartialFunction(escapes, Units, Resolutions)
  /\ PartialFunction(indirect, (DOMAIN states) \X {"call", "terminator"}, Resolutions)
  /\ steps \in 0..MaximumWorklistSteps
  /\ verdict \in {"open", "complete", "incomplete"}

(* The construction reaches its fixed point: it is decided with nothing    *)
(* left to visit, never by the step limit, whatever the order of the       *)
(* visits (the monotone joins of `enqueue' and `record_return_summary').   *)
Converges == verdict # "open" => queued = {} /\ deferred = {}

(* What is reachable is reachable from the roots over the edges, and every *)
(* edge starts where something is reachable, though an edge of an unwind   *)
(* or of a resumption starts at a function that another visit reached.     *)
Grounded ==
  /\ Reached = Roots \cup {e.target : e \in edges}
  /\ \A e \in edges : e.source \in Reached

(* The construction builds an authority that nobody executes under yet.    *)
Discovery == INSTANCE ExecutionAuthority WITH
  units <- Reached, decision <- verdict, running <- <<>>
=============================================================================
