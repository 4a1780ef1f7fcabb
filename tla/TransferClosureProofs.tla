----------------------- MODULE TransferClosureProofs -----------------------
(***************************************************************************)
(* What the closure lists is grounded in its roots, and the construction   *)
(* implements ExecutionAuthority.  A reached unit has an edge to it, and   *)
(* the edge a reached source; the strengthening is about the places where  *)
(* the code keeps an edge or a context for later: branches kept back,      *)
(* dependents, call frames, and the functions a fault has run already.     *)
(***************************************************************************)
EXTENDS TransferClosure, FiniteSetTheorems, WellFoundedInduction, TLAPS

\* A context belongs to a function that is reached, or to the one it is entered at.
Entered(context) == context.entry \in Reached

IInv ==
  /\ program \in Programs
  /\ RootKeys \subseteq DOMAIN states
  /\ \A key \in DOMAIN states : key = <<key[1], key[2]>> /\ key[1] \in Units /\ Entered(key[2])
  /\ queued \subseteq DOMAIN states
  /\ \A d \in dependents : d[2] \in DOMAIN states
  /\ \A d \in deferred : d.edge.source \in Reached /\ Entered(d.edge.context)
  /\ DOMAIN summaries \subseteq {key[2] : key \in DOMAIN states}
  /\ \A f \in DOMAIN frames : f[2] \in DOMAIN states
  /\ Grounded

\* What a set of edges must satisfy to be followed.
Follows(E) ==
  \A e \in E : e.source \in Reached /\ (e.context.entry = e.target \/ Entered(e.context))

\* The construction starts with the roots, and nothing else, reached.
LEMMA InitIInv == Init => IInv
<1> SUFFICES ASSUME Init PROVE IInv
  OBVIOUS
<1>1. DOMAIN states = RootKeys
  BY DEF Init, RootStates
<1>2. \A key \in RootKeys : key[1] \in Roots /\ key[2].entry = key[1] /\ key = <<key[1], key[2]>>
  BY DEF RootKeys, RootContext
<1>3. Reached = Roots
  <2>1. \A r \in Roots : <<r, RootContext(r, r)>> \in RootKeys
    BY DEF RootKeys
  <2>. QED
    BY <1>1, <1>2, <2>1 DEF Reached
<1>4. Roots \subseteq Units
  BY ClosureAssumption DEF ClosureAssumption
<1>. QED
  BY <1>1, <1>2, <1>3, <1>4 DEF Init, IInv, Grounded, Entered

\* The fields of an edge are its arguments.
LEMMA EdgeFields ==
  ASSUME NEW so, NEW ta, NEW ki, NEW st, NEW co
  PROVE  /\ Edge(so, ta, ki, st, co).source = so
         /\ Edge(so, ta, ki, st, co).target = ta
         /\ Edge(so, ta, ki, st, co).kind = ki
         /\ Edge(so, ta, ki, st, co).context = co
BY DEF Edge

\* An unwind function, a handler or a resumption is only looked for when the summary
\* of the function before it is known, so that function has been reached (exceptions).
LEMMA FaultEdgesFollow ==
  ASSUME IInv, NEW key \in DOMAIN states PROVE Follows(FaultEdges(key))
<1>1. key[1] \in Reached
  BY DEF Reached
<1>2. \A i : UnwindContext(key[2], key[1], i).entry = Unwinders(key)[i]
  BY DEF UnwindContext, Unwinders
<1>3. \A c \in DOMAIN summaries : c.entry \in Reached
  BY DEF IInv, Entered
<1>4. \A n \in Nat : n > 0 /\ Composed(key, n) => Unwinders(key)[n] \in Reached
  BY <1>2, <1>3 DEF Composed
<1>0. Len(Unwinders(key)) \in Nat
  <2>1. program[key[1]] \in Transfers
    BY ClosureAssumption DEF IInv, ClosureAssumption
  <2>. QED
    BY <2>1 DEF Unwinders, Transfers, Faults
<1>5. HandlerContext(key).entry = program[key[1]].fault.handler
  BY DEF HandlerContext, RootContext
<1> DEFINE source(i) == IF i = 0 THEN key[1] ELSE Unwinders(key)[i]
<1>6. \A n \in Nat : Composed(key, n) => source(n) \in Reached
  BY <1>1, <1>4
<1> HIDE DEF source
<1> SUFFICES ASSUME NEW e \in FaultEdges(key)
             PROVE  e.source \in Reached /\ (e.context.entry = e.target \/ Entered(e.context))
  BY DEF Follows
<1>7. CASE \E i \in Unwinding(key) :
             e = Edge(source(i - 1), Unwinders(key)[i], "exception_unwind",
                      Continuation(key)[i - 1], UnwindContext(key[2], key[1], i))
  <2> PICK i \in Unwinding(key) :
             e = Edge(source(i - 1), Unwinders(key)[i], "exception_unwind",
                      Continuation(key)[i - 1], UnwindContext(key[2], key[1], i))
    BY <1>7
  <2>1. i - 1 \in Nat /\ Composed(key, i - 1)
    BY DEF Unwinding
  <2>. QED
    BY <1>2, <1>6, <2>1, EdgeFields
<1>8. CASE /\ AtHandler(key)
           /\ e = Edge(source(Len(Unwinders(key))), program[key[1]].fault.handler,
                       "exception_handler", Continuation(key)[Len(Unwinders(key))],
                       HandlerContext(key))
  <2>1. e.source \in Reached
    BY <1>0, <1>6, <1>8, EdgeFields DEF AtHandler
  <2>. QED
    BY <1>5, <1>8, <2>1, EdgeFields
<1>9. CASE /\ Resumes(key)
           /\ e = Edge(program[key[1]].fault.handler, program[key[1]].fault.resume,
                       "exception_resumption",
                       ReturnState(summaries[HandlerContext(key)],
                                   Continuation(key)[Len(Unwinders(key))]),
                       RootContext(key[2].root, program[key[1]].fault.resume))
  <2>1. e.source \in Reached
    BY <1>3, <1>5, <1>9, EdgeFields DEF Resumes
  <2>2. e.context.entry = e.target
    BY <1>9, EdgeFields DEF RootContext
  <2>. QED
    BY <2>1, <2>2
<1>. QED
  BY <1>7, <1>8, <1>9 DEF FaultEdges, Unwinders, source

\* A chain of frames is made of frames.
LEMMA ChainInFrames ==
  ASSUME NEW context, NEW target, NEW p \in Chains(context, target)
  PROVE  p[Len(p)] \in DOMAIN frames
<1> DEFINE depth == Cardinality({f[1] : f \in DOMAIN frames})
<1>1. PICK n \in 1..depth : p \in [1..n -> DOMAIN frames]
  BY DEF Chains
<1>2. n \in Nat /\ n >= 1
  BY <1>1
<1>3. Len(p) = n
  BY <1>1, <1>2
<1>. QED
  BY <1>1, <1>2, <1>3

\* A nonlocal transfer lands in the context of a frame, which is of a key.
LEMMA NonlocalEdgesFollow ==
  ASSUME IInv, NEW key \in DOMAIN states PROVE Follows(NonlocalEdges(key))
<1> SUFFICES ASSUME NEW e \in NonlocalEdges(key)
             PROVE  e.source \in Reached /\ Entered(e.context)
  BY DEF Follows
<1>1. PICK p \in Ancestors(key) :
        e = Edge(key[1], CHOOSE u \in Units : u \in Out(key).reg, "nonlocal_control",
                 Restored(Out(key), p), p[Len(p)][2][2])
  BY DEF NonlocalEdges
<1>2. p[Len(p)][2] \in DOMAIN states
  <2>1. p[Len(p)] \in DOMAIN frames
    BY ChainInFrames DEF Ancestors
  <2>. QED
    BY <2>1 DEF IInv
<1>3. e.source = key[1] /\ e.context = p[Len(p)][2][2]
  BY <1>1, EdgeFields
<1>. QED
  BY <1>2, <1>3 DEF IInv, Reached

\* Every edge of a visit starts at a reached unit and leads to its own function or to
\* the one it enters.
LEMMA VisitEdgesFollow ==
  ASSUME IInv, NEW key \in DOMAIN states PROVE Follows(VisitEdges(key))
<1>1. key[1] \in Reached /\ Entered(key[2])
  BY DEF IInv, Reached
<1>2. Follows(CallbackEdges(key))
  <2> SUFFICES ASSUME NEW e \in CallbackEdges(key)
               PROVE  e.source = key[1] /\ e.context.entry = e.target
    BY <1>1 DEF Follows
  <2>1. PICK g \in Start(key).reg :
          e = Edge(key[1], g, "callback_escape",
                   RootState(Out(key).cell, Out(key).bindings), RootContext(g, g))
    BY DEF CallbackEdges
  <2>2. RootContext(g, g).entry = g
    BY DEF RootContext
  <2>. QED
    BY <2>1, <2>2, EdgeFields
<1>3. Follows(Successors(key))
  BY <1>1, EdgeFields DEF Follows, Successors
<1>4. Follows(IndirectEdges(key))
  BY <1>1, EdgeFields DEF Follows, IndirectEdges
<1>5. Follows(CallEdges(key))
  BY <1>1, EdgeFields DEF Follows, CallEdges
<1>. QED
  BY <1>2, <1>3, <1>4, <1>5, FaultEdgesFollow, NonlocalEdgesFollow
     DEF Follows, VisitEdges, DirectEdges

-----------------------------------------------------------------------------
\* Following edges keeps the keys, the reached units and the edges together.
LEMMA FollowingKeeps ==
  ASSUME IInv, NEW E, Follows(E),
         states' = StatesAfter(E), edges' = edges \cup EdgesOf(E)
  PROVE  /\ DOMAIN states \subseteq DOMAIN states'
         /\ DOMAIN StatesAfter(E) = DOMAIN states'
         /\ \A key \in DOMAIN states' :
              key = <<key[1], key[2]>> /\ key[1] \in Units /\ Entered(key[2])'
         /\ Reached \subseteq Reached'
         /\ Grounded'
<1>1. DOMAIN states' = DOMAIN states \cup {Key(e) : e \in Inside(E)}
  BY DEF StatesAfter
<1>2. Reached' = Reached \cup {e.target : e \in Inside(E)}
  <2>1. \A e \in Inside(E) : Key(e)[1] = e.target
    BY DEF Key
  <2>. QED
    BY <1>1, <2>1 DEF Reached
<1>3. \A e \in Inside(E) : e.target \in Units /\ e.target \in Reached' /\ Entered(e.context)'
  BY <1>2 DEF Follows, Inside, Entered
<1>4. \A key \in DOMAIN states' :
        key = <<key[1], key[2]>> /\ key[1] \in Units /\ Entered(key[2])'
  <2> TAKE key \in DOMAIN states'
  <2>1. CASE key \in DOMAIN states
    BY <1>2, <2>1 DEF IInv, Entered
  <2>2. CASE \E e \in Inside(E) : key = Key(e)
    BY <1>3, <2>2 DEF Key
  <2>. QED
    BY <1>1, <2>1, <2>2
<1>5. Grounded'
  <2>1. {e.target : e \in EdgesOf(E)} = {e.target : e \in Inside(E)}
    <3> DEFINE short(e) == [source |-> e.source, target |-> e.target, kind |-> e.kind]
    <3>1. \A e \in Inside(E) : short(e).target = e.target /\ short(e) \in EdgesOf(E)
      BY DEF EdgesOf
    <3>2. \A x \in EdgesOf(E) : \E e \in Inside(E) : x = short(e)
      BY DEF EdgesOf
    <3> HIDE DEF short
    <3>. QED
      BY <3>1, <3>2
  <2>2. Reached' = Roots \cup {e.target : e \in edges'}
    BY <1>2, <2>1 DEF IInv, Grounded
  <2>3. \A e \in EdgesOf(E) : e.source \in Reached
    BY DEF EdgesOf, Inside, Follows
  <2>. QED
    BY <1>2, <2>2, <2>3 DEF IInv, Grounded
<1>. QED
  BY <1>1, <1>2, <1>4, <1>5

\* A visit keeps the invariant: its edges follow, its summary is of a key.
LEMMA VisitKeepsIInv == ASSUME IInv, NEW key \in queued, Visit(key) PROVE IInv'
<1> DEFINE E == VisitEdges(key)
<1>1. key \in DOMAIN states /\ key \in DOMAIN states'
  BY DEF IInv, Visit, StatesAfter
<1>2. Follows(E)
  BY <1>1, VisitEdgesFollow
<1>3. states' = StatesAfter(E) /\ edges' = edges \cup EdgesOf(E)
  BY DEF Visit
<1> HIDE DEF E
<1>4. /\ DOMAIN states \subseteq DOMAIN states'
      /\ \A k \in DOMAIN states' : k = <<k[1], k[2]>> /\ k[1] \in Units /\ Entered(k[2])'
      /\ Reached \subseteq Reached'
      /\ Grounded'
  BY <1>2, <1>3, FollowingKeeps
<1>5. RootKeys' = RootKeys
  BY DEF RootKeys
<1>6. program' \in Programs
  BY DEF IInv, Visit
<1>7. \A d \in dependents' : d[2] \in DOMAIN states'
  <2>1. dependents' = dependents \cup {<<c, key>> : c \in Awaited(key)}
    BY DEF Visit
  <2>. QED
    BY <1>1, <1>4, <2>1 DEF IInv
<1>11. queued' \subseteq DOMAIN states'
  <2>1. Changed(E) \subseteq DOMAIN states'
    BY <1>3 DEF Changed
  <2>2. \A k \in queued' : k \in queued \/ k \in Changed(E) \/ \E d \in dependents' : k = d[2]
    BY DEF Visit, E
  <2>. QED
    BY <1>4, <1>7, <2>1, <2>2 DEF IInv
<1>8. \A d \in deferred' : d.edge.source \in Reached' /\ Entered(d.edge.context)'
  <2>1. \A e \in KeptBack(key) : e.source = key[1] /\ e.context = key[2]
    BY EdgeFields DEF KeptBack, Successors
  <2>2. key[1] \in Reached' /\ Entered(key[2])'
    BY <1>1, <1>4 DEF Reached
  <2>3. \A d \in deferred' : d \in deferred \/ \E e \in KeptBack(key) : d = [key |-> key, edge |-> e]
    BY DEF Visit
  <2>. QED
    BY <1>4, <2>1, <2>2, <2>3 DEF IInv, Entered
<1>9. DOMAIN summaries' \subseteq {k[2] : k \in DOMAIN states'}
  <2>1. DOMAIN summaries' \subseteq DOMAIN summaries \cup {key[2]}
    BY DEF Visit, SummariesAfter
  <2>. QED
    BY <1>1, <1>4, <2>1 DEF IInv
<1>10. \A f \in DOMAIN frames' : f[2] \in DOMAIN states'
  <2>1. \A f \in DOMAIN frames' : f \in DOMAIN frames \/ f[2] = key
    BY DEF Visit, FramesAfter
  <2>. QED
    BY <1>1, <1>4, <2>1 DEF IInv
<1>. QED
  BY <1>4, <1>5, <1>6, <1>7, <1>8, <1>9, <1>10, <1>11 DEF IInv

\* The branch edges kept back start where they were found.
LEMMA FlushKeepsIInv == ASSUME IInv, Flush PROVE IInv'
<1> DEFINE E == {d.edge : d \in deferred}
<1>1. Follows(E)
  BY DEF Follows, IInv
<1>2. states' = StatesAfter(E) /\ edges' = edges \cup EdgesOf(E)
  BY DEF Flush
<1>3. queued' = Changed(E)
  BY DEF Flush
<1> HIDE DEF E
<1>4. /\ DOMAIN states \subseteq DOMAIN states'
      /\ \A k \in DOMAIN states' : k = <<k[1], k[2]>> /\ k[1] \in Units /\ Entered(k[2])'
      /\ Reached \subseteq Reached'
      /\ Grounded'
  BY <1>1, <1>2, FollowingKeeps
<1>5. RootKeys' = RootKeys
  BY DEF RootKeys
<1>6. queued' \subseteq DOMAIN states'
  BY <1>2, <1>3 DEF Changed
<1>. QED
  BY <1>4, <1>5, <1>6 DEF IInv, Flush

\* A decision changes nothing but the verdict.
LEMMA DecideKeepsIInv == ASSUME IInv, Decide \/ UNCHANGED vars PROVE IInv'
<1>1. UNCHANGED <<program, results, worklist>>
  BY DEF Decide, vars
<1>. QED
  BY <1>1 DEF results, worklist, IInv, Grounded, Reached, Entered, RootKeys

\* IInv is inductive.
LEMMA NextKeepsIInv == IInv /\ [Next]_vars => IInv'
BY VisitKeepsIInv, FlushKeepsIInv, DecideKeepsIInv DEF Next

(* Reachability is grounded in the roots and the edges                     *)
(* (build_module_execution_closure, enqueue).                              *)
THEOREM ClosureGrounded == Spec => []Grounded
<1>1. Spec => []IInv
  BY InitIInv, NextKeepsIInv, PTL DEF Spec
<1>2. IInv => Grounded
  BY DEF IInv
<1>. QED
  BY <1>1, <1>2, PTL

-----------------------------------------------------------------------------
\* Every step of the construction is a step of the authority it builds.
LEMMA GrowthIsDiscovery ==
  ASSUME IInv', NEW E, verdict = "open", UNCHANGED verdict,
         states' = StatesAfter(E), edges' = edges \cup EdgesOf(E)
  PROVE  Discovery!Discover
<1>1. Reached \subseteq Reached'
  BY DEF Reached, StatesAfter
<1>2. Reached' \subseteq Units
  BY DEF IInv, Reached
<1>. QED
  BY <1>1, <1>2 DEF Discovery!Discover, IInv, Grounded

\* Visits and flushes discover, a decision decides.
LEMMA NextIsDiscovery ==
  ASSUME IInv, [Next]_vars PROVE [Discovery!Next]_(Discovery!vars)
<1>0. IInv'
  BY NextKeepsIInv
<1>1. ASSUME NEW key \in queued, Visit(key) PROVE Discovery!Discover
  BY <1>0, <1>1, GrowthIsDiscovery DEF Visit
<1>2. CASE Flush
  BY <1>0, <1>2, GrowthIsDiscovery DEF Flush, Discovery!Next
<1>3. CASE Decide
  <2>1. UNCHANGED <<states, edges>>
    BY <1>3 DEF Decide, results
  <2>2. verdict = "open" /\ verdict' \in {"complete", "incomplete"}
    BY <1>3 DEF Decide
  <2>. QED
    BY <2>1, <2>2 DEF Discovery!Next, Discovery!Decide, Reached
<1>4. CASE UNCHANGED vars
  BY <1>4 DEF vars, results, Discovery!vars, Reached
<1>. QED
  BY <1>1, <1>2, <1>3, <1>4 DEF Next, Discovery!Next

(* The construction implements the authority it builds: what it found is   *)
(* never taken back, and a decision is final                               *)
(* (build_module_execution_closure).                                       *)
THEOREM ClosureBuildsAuthority == Spec => Discovery!Spec
<1>1. Init => Discovery!Init
  <2> SUFFICES ASSUME Init PROVE Discovery!Init
    OBVIOUS
  <2>1. Grounded
    BY InitIInv DEF IInv
  <2>. QED
    BY <2>1 DEF Init, Grounded, Discovery!Init
<1>. QED
  BY <1>1, InitIInv, NextKeepsIInv, NextIsDiscovery, PTL DEF Spec, Discovery!Spec

-----------------------------------------------------------------------------
(* Induction over numbers, by the least counterexample.                    *)

\* A set of numbers has a least one.
LEMMA LeastNumber ==
  ASSUME NEW S \in SUBSET Nat, S # {}
  PROVE  \E m \in S : \A k \in S : m <= k
<1> DEFINE R == {p \in Nat \X Nat : p[1] < p[2]}
<1>1. IsWellFoundedOn(R, Nat)
  BY NatLessThanWellFounded DEF OpToRel
<1>2. \E x \in S : \A y \in S : <<y, x>> \notin R
  <2> HIDE DEF R
  <2>. QED
    BY <1>1, WFMin
<1>3. \A x, y \in Nat : x < y => <<x, y>> \in R
  OBVIOUS
<1> HIDE DEF R
<1>4. PICK x \in S : \A y \in S : <<y, x>> \notin R
  BY <1>2
<1>5. ASSUME NEW y \in S PROVE x <= y
  <2>1. x \in Nat /\ y \in Nat
    OBVIOUS
  <2>2. ~(y < x)
    BY <1>3, <1>4, <2>1
  <2>. QED
    BY <2>1, <2>2
<1>. QED
  BY <1>4, <1>5

\* A set that has 0, and with every number up to n the next one, has all up to n.
LEMMA Climb ==
  ASSUME NEW n \in Nat, NEW A \in SUBSET Nat, 0 \in A,
         \A i \in 1 .. n : i - 1 \in A => i \in A
  PROVE  0 .. n \subseteq A
<1> DEFINE rest == (0 .. n) \ A
<1> SUFFICES ASSUME rest # {} PROVE FALSE
  OBVIOUS
<1>1. PICK m \in rest : \A k \in rest : m <= k
  <2>1. rest \in SUBSET Nat
    OBVIOUS
  <2> HIDE DEF rest
  <2>. QED
    BY <2>1, LeastNumber
<1>2. m \in 1 .. n /\ m - 1 \in 0 .. n
  BY <1>1
<1>3. m - 1 \in A
  BY <1>1, <1>2
<1>. QED
  BY <1>1, <1>2, <1>3

-----------------------------------------------------------------------------
(* Types.                                                                  *)

Typed == IInv /\ TypeOK

\* Joined values are values: none is empty, and too many are unknown.
LEMMA JoinedValue ==
  ASSUME NEW V \in SUBSET Values, V # {} PROVE JoinValues(V) \in Values
<1>1. Unknown \in Values
  BY DEF Values
<1>2. CASE Other \notin UNION V
  <2>1. \A v \in V : v \in (SUBSET Atoms) \ {{}}
    BY <1>2 DEF Values, Unknown
  <2>2. UNION V \in (SUBSET Atoms) \ {{}}
    BY <2>1
  <2>. QED
    BY <1>1, <2>2 DEF JoinValues, Values
<1>. QED
  BY <1>1, <1>2 DEF JoinValues

\* Joined states are states.
LEMMA JoinedState ==
  ASSUME NEW S \in SUBSET States, S # {} PROVE JoinStates(S) \in States
<1>1. {s.reg : s \in S} \in SUBSET Values /\ {s.reg : s \in S} # {}
  BY DEF States
<1>2. {s.cell : s \in S} \in SUBSET Values /\ {s.cell : s \in S} # {}
  BY DEF States
<1>3. UNION {s.bindings : s \in S} \in SUBSET (Contexts \X Contexts)
  BY DEF States
<1>. QED
  BY <1>1, <1>2, <1>3, JoinedValue DEF JoinStates, States

\* What a callee returns to its caller is a state.
LEMMA ReturnedState ==
  ASSUME NEW s \in States, NEW c \in States PROVE ReturnState(s, c) \in States
<1>1. JoinValues({c.cell, s.cell}) \in Values
  BY JoinedValue DEF States
<1>. QED
  BY <1>1 DEF ReturnState, States

\* The fields of a context.
LEMMA ContextFields ==
  ASSUME NEW c \in Contexts
  PROVE  /\ c.root \in Units /\ c.entry \in Addresses
         /\ c.string \in Seq(Units \X Nat) /\ Len(c.string) <= CallStringLimit
BY DEF Contexts

\* The context of a root, a handler or a resumption.
LEMMA RootContextType ==
  ASSUME NEW root \in Units, NEW entry \in Addresses
  PROVE  RootContext(root, entry) \in Contexts
<1>1. <<>> \in Seq(Units \X Nat) /\ Len(<<>>) = 0
  OBVIOUS
<1>. QED
  BY <1>1, ClosureAssumption DEF RootContext, Contexts

\* A call string is cut to its last calls.
LEMMA SuffixType ==
  ASSUME NEW s \in Seq(Units \X Nat)
  PROVE  Suffix(s) \in Seq(Units \X Nat) /\ Len(Suffix(s)) <= CallStringLimit
<1>1. Len(s) \in Nat /\ CallStringLimit \in Nat \ {0}
  BY ClosureAssumption
<1>2. CASE Len(s) > CallStringLimit
  <2> DEFINE m == Len(s) - CallStringLimit + 1
             q == SubSeq(s, m, Len(s))
  <2>1. m \in 1 .. Len(s) /\ Len(s) - m + 1 = CallStringLimit
    BY <1>1, <1>2
  <2>2. q \in Seq(Units \X Nat) /\ Len(q) = Len(s) - m + 1
    <3> HIDE DEF m
    <3>. QED
      BY <1>1, <2>1
  <2>3. Suffix(s) = q
    BY <1>1, <1>2 DEF Suffix
  <2>. QED
    BY <1>1, <2>1, <2>2, <2>3
<1>. QED
  BY <1>1, <1>2 DEF Suffix

\* The context of a callee.
LEMMA ChildType ==
  ASSUME NEW c \in Contexts, NEW target \in Addresses, NEW site \in Units
  PROVE  Child(c, target, site) \in Contexts
<1>1. Append(c.string, <<site, 0>>) \in Seq(Units \X Nat)
  BY ContextFields
<1>. QED
  BY <1>1, ContextFields, SuffixType DEF Child, Contexts

\* A state after functions that return one after the other: parts[i] is the summary
\* of function i.
Compose(n, start, parts) ==
  LET after[i \in 0 .. n] == IF i = 0 THEN start ELSE ReturnState(parts[i], after[i - 1])
  IN  after

\* The recursion of Compose has a solution, so Compose is one.
LEMMA ComposeUnfolds ==
  ASSUME NEW n \in Nat, NEW start, NEW parts
  PROVE  Compose(n, start, parts) =
           [i \in 0 .. n |-> IF i = 0 THEN start
                             ELSE ReturnState(parts[i], Compose(n, start, parts)[i - 1])]
<1> DEFINE next(i, s) == ReturnState(parts[i], s)
           Is(h, m) == h = [i \in 0 .. m |-> IF i = 0 THEN start ELSE next(i, h[i - 1])]
<1>1. Compose(n, start, parts) = CHOOSE h : Is(h, n)
  BY DEF Compose
<1>2. \E h : Is(h, n)
  <2> HIDE DEF next
  <2> DEFINE A == {m \in 0 .. n : \E h : Is(h, m)}
  <2>1. 0 \in A
    <3> DEFINE h == [i \in 0 .. 0 |-> start]
    <3>1. Is(h, 0)
      OBVIOUS
    <3> HIDE DEF h, Is
    <3>. QED
      BY <3>1
  <2>2. ASSUME NEW i \in 1 .. n, i - 1 \in A PROVE i \in A
    <3>1. PICK h : Is(h, i - 1)
      BY <2>2
    <3> DEFINE g == [j \in 0 .. i |-> IF j = i THEN next(i, h[i - 1]) ELSE h[j]]
    <3>2. \A j \in 0 .. (i - 1) : h[j] = IF j = 0 THEN start ELSE next(j, h[j - 1])
      BY <3>1
    <3>3. \A j \in 0 .. i : g[j] = IF j = 0 THEN start ELSE next(j, g[j - 1])
      <4>1. \A j \in 0 .. (i - 1) : g[j] = h[j]
        OBVIOUS
      <4>2. g[i] = next(i, h[i - 1])
        OBVIOUS
      <4> HIDE DEF g
      <4>. QED
        BY <3>2, <4>1, <4>2
    <3>4. g = [j \in 0 .. i |-> g[j]]
      OBVIOUS
    <3> HIDE DEF g
    <3>5. Is(g, i)
      BY <3>3, <3>4
    <3> HIDE DEF Is
    <3>. QED
      BY <3>5
  <2>3. A \in SUBSET Nat
    OBVIOUS
  <2> HIDE DEF A
  <2>4. 0 .. n \subseteq A
    BY <2>1, <2>2, <2>3, Climb
  <2> HIDE DEF Is
  <2>. QED
    BY <2>4 DEF A
<1> HIDE DEF Is
<1>3. Is(Compose(n, start, parts), n)
  BY <1>1, <1>2
<1>. QED
  BY <1>3 DEF Is, next

\* Where the summaries agree, so do the states.
LEMMA ComposeAgrees ==
  ASSUME NEW n \in Nat, NEW start, NEW parts, NEW others, NEW m \in 0 .. n,
         \A i \in 1 .. m : parts[i] = others[i]
  PROVE  Compose(n, start, parts)[m] = Compose(n, start, others)[m]
<1> DEFINE f == Compose(n, start, parts)
           g == Compose(n, start, others)
           A == {i \in 0 .. m : f[i] = g[i]}
<1>1. /\ f[0] = start /\ g[0] = start
      /\ \A i \in 1 .. m : /\ f[i] = ReturnState(parts[i], f[i - 1])
                           /\ g[i] = ReturnState(others[i], g[i - 1])
  BY ComposeUnfolds
<1> HIDE DEF f, g
<1>2. 0 \in A
  BY <1>1
<1>3. ASSUME NEW i \in 1 .. m, i - 1 \in A PROVE i \in A
  BY <1>1, <1>3
<1>4. A \in SUBSET Nat /\ m \in Nat
  OBVIOUS
<1> HIDE DEF A
<1>5. m \in A
  BY <1>2, <1>3, <1>4, Climb
<1>. QED
  BY <1>5 DEF A, f, g

\* The summaries of the unwind functions of a fault.
Unwound(key) ==
  [i \in 1 .. Len(Unwinders(key)) |-> summaries[UnwindContext(key[2], key[1], i)]]

\* The states of a fault's unwind functions are composed so, now and in the next state.
LEMMA ContinuationComposes ==
  ASSUME NEW key
  PROVE  /\ Continuation(key) = Compose(Len(Unwinders(key)), Start(key), Unwound(key))
         /\ Continuation(key)' = Compose(Len(Unwinders(key)), Start(key), Unwound(key))'
<1>1. Continuation(key) = Compose(Len(Unwinders(key)), Start(key), Unwound(key))
  <2> DEFINE n == Len(Unwinders(key))
  <2>1. \A i \in 0 .. n : i = 0 \/ i \in 1 .. n
    OBVIOUS
  <2>2. \A i \in 1 .. n : Unwound(key)[i] = summaries[UnwindContext(key[2], key[1], i)]
    BY DEF Unwound
  <2>3. \A h : [i \in 0 .. n |-> IF i = 0 THEN Start(key)
                  ELSE ReturnState(summaries[UnwindContext(key[2], key[1], i)], h[i - 1])]
             = [i \in 0 .. n |-> IF i = 0 THEN Start(key)
                  ELSE ReturnState(Unwound(key)[i], h[i - 1])]
    BY <2>1, <2>2
  <2>. QED
    BY <2>3 DEF Continuation, Compose
<1>2. Continuation(key)' = Compose(Len(Unwinders(key)), Start(key), Unwound(key))'
  <2> DEFINE n == Len(Unwinders(key))
  <2>1. \A i \in 0 .. n' : i = 0 \/ i \in 1 .. n'
    OBVIOUS
  <2>2. \A i \in 1 .. n' :
          Unwound(key)'[i] = summaries'[UnwindContext(key[2], key[1], i)']
    BY DEF Unwound
  <2>3. \A h : [i \in 0 .. n' |-> IF i = 0 THEN Start(key)'
                  ELSE ReturnState(summaries'[UnwindContext(key[2], key[1], i)'], h[i - 1])]
             = [i \in 0 .. n' |-> IF i = 0 THEN Start(key)'
                  ELSE ReturnState(Unwound(key)'[i], h[i - 1])]
    BY <2>1, <2>2
  <2>. QED
    BY <2>3 DEF Continuation, Compose
<1>. QED
  BY <1>1, <1>2

\* The states of the frames a nonlocal transfer leaves, one after the other.
RestoredAfter(state, chain) ==
  LET after[i \in 0 .. Len(chain)] ==
        IF i = 0 THEN state
        ELSE ReturnState([after[i - 1] EXCEPT !.wrote = Explicit(after[i - 1])],
                         frames[chain[i]])
  IN  after

\* The recursion of RestoredAfter has a solution, so RestoredAfter is one.
LEMMA RestoredUnfolds ==
  ASSUME NEW state, NEW chain, Len(chain) \in Nat
  PROVE  /\ Restored(state, chain) = RestoredAfter(state, chain)[Len(chain)]
         /\ RestoredAfter(state, chain) =
              [i \in 0 .. Len(chain) |->
                 IF i = 0 THEN state
                 ELSE ReturnState([RestoredAfter(state, chain)[i - 1] EXCEPT
                                     !.wrote = Explicit(RestoredAfter(state, chain)[i - 1])],
                                  frames[chain[i]])]
<1> DEFINE n == Len(chain)
           next(i, s) == ReturnState([s EXCEPT !.wrote = Explicit(s)], frames[chain[i]])
           Is(h, m) == h = [i \in 0 .. m |-> IF i = 0 THEN state ELSE next(i, h[i - 1])]
<1>1. RestoredAfter(state, chain) = CHOOSE h : Is(h, n)
  BY DEF RestoredAfter
<1>2. \E h : Is(h, n)
  <2>0. n \in Nat
    OBVIOUS
  <2> HIDE DEF next
  <2> DEFINE A == {m \in 0 .. n : \E h : Is(h, m)}
  <2>1. 0 \in A
    <3> DEFINE h == [i \in 0 .. 0 |-> state]
    <3>1. Is(h, 0)
      OBVIOUS
    <3> HIDE DEF h, Is
    <3>. QED
      BY <3>1
  <2>2. ASSUME NEW i \in 1 .. n, i - 1 \in A PROVE i \in A
    <3>1. PICK h : Is(h, i - 1)
      BY <2>2
    <3> DEFINE g == [j \in 0 .. i |-> IF j = i THEN next(i, h[i - 1]) ELSE h[j]]
    <3>2. \A j \in 0 .. (i - 1) : h[j] = IF j = 0 THEN state ELSE next(j, h[j - 1])
      BY <3>1
    <3>3. \A j \in 0 .. i : g[j] = IF j = 0 THEN state ELSE next(j, g[j - 1])
      <4>1. \A j \in 0 .. (i - 1) : g[j] = h[j]
        OBVIOUS
      <4>2. g[i] = next(i, h[i - 1])
        OBVIOUS
      <4> HIDE DEF g
      <4>. QED
        BY <3>2, <4>1, <4>2
    <3>4. g = [j \in 0 .. i |-> g[j]]
      OBVIOUS
    <3> HIDE DEF g
    <3>5. Is(g, i)
      BY <3>3, <3>4
    <3> HIDE DEF Is
    <3>. QED
      BY <3>5
  <2>3. A \in SUBSET Nat
    OBVIOUS
  <2> HIDE DEF A, n
  <2>4. 0 .. n \subseteq A
    BY <2>0, <2>1, <2>2, <2>3, Climb
  <2> HIDE DEF Is
  <2>5. n \in A
    BY <2>0, <2>4
  <2>. QED
    BY <2>5 DEF A
<1> HIDE DEF Is
<1>3. Is(RestoredAfter(state, chain), n)
  BY <1>1, <1>2
<1>4. Restored(state, chain) = RestoredAfter(state, chain)[n]
  BY DEF Restored, RestoredAfter
<1>. QED
  BY <1>3, <1>4 DEF Is, next

\* The transfer of a key, and its unwind functions.
LEMMA TransferType ==
  ASSUME Typed, NEW key \in DOMAIN states
  PROVE  /\ key[1] \in Units /\ key[2] \in Contexts
         /\ states[key] \in States
         /\ program[key[1]] \in Transfers
         /\ program[key[1]].fault \in Faults
         /\ Unwinders(key) \in Seq(Addresses)
         /\ Len(Unwinders(key)) \in Nat
<1>1. program[key[1]] \in Transfers /\ key[1] \in Units
  BY ClosureAssumption DEF Typed, IInv
<1>2. key[2] \in Contexts /\ states[key] \in States
  BY DEF Typed, TypeOK, PartialFunction, Keys
<1>3. program[key[1]].fault \in Faults
  BY <1>1 DEF Transfers
<1>4. Unwinders(key) \in Seq(Addresses)
  BY <1>3 DEF Faults, Unwinders
<1>. QED
  BY <1>1, <1>2, <1>3, <1>4

\* The effect of a transfer yields a state, and its register leads to units.
LEMMA StartType ==
  ASSUME Typed, NEW key \in DOMAIN states
  PROVE  /\ Start(key) \in States
         /\ Targets(key) \in [known : BOOLEAN, guest : SUBSET Addresses, external : BOOLEAN]
         /\ program[key[1]].call = "indirect" => Targets(key) \in Resolutions
<1> DEFINE t == program[key[1]]
           s == states[key]
<1>1. t \in Transfers /\ s \in States
  BY TransferType
<1>2. {t.value} \in Values
  <2>1. t.value \in Atoms \/ t.value = Other
    BY <1>1 DEF Transfers, Unknown
  <2> HIDE DEF t
  <2>2. t.value \in Atoms => {t.value} \in (SUBSET Atoms) \ {{}}
    OBVIOUS
  <2>. QED
    BY <2>1, <2>2 DEF Values, Unknown
<1> HIDE DEF t, s
<1>3. Before(t, s) \in States
  BY <1>1, <1>2 DEF Before, Transfers, States
<1>4. Start(key) = Before(t, s) /\ Targets(key) = CallTargets(t, Start(key))
  BY DEF Start, Targets, t, s
<1>5. t.call \in {"none", "direct", "indirect", "returns", "terminates", "callback"}
      /\ t.target \in Addresses
  BY <1>1 DEF Transfers
<1>6. CallTargets(t, Start(key))
        \in [known : BOOLEAN, guest : SUBSET Addresses, external : BOOLEAN]
  BY <1>5 DEF CallTargets, Resolution, Unresolved, Addresses
<1>7. t.call = "indirect" => CallTargets(t, Start(key)) \in Resolutions
  BY DEF CallTargets, Resolution, Unresolved, Resolutions
<1>. QED
  BY <1>3, <1>4, <1>6, <1>7 DEF t

\* The callees of a transfer have contexts.
LEMMA CalleesType ==
  ASSUME Typed, NEW key \in DOMAIN states
  PROVE  Callees(key) \subseteq Contexts
BY TransferType, StartType, ChildType DEF Callees

\* The state after the call of a transfer.
LEMMA OutType ==
  ASSUME Typed, NEW key \in DOMAIN states
  PROVE  Out(key) \in States
<1>1. Start(key) \in States
  BY StartType
<1>2. \A c \in DOMAIN summaries : summaries[c] \in States
  BY DEF Typed, TypeOK, PartialFunction
<1>3. CASE Waiting(key)
  BY <1>1, <1>3 DEF Out, States, Values
<1>4. CASE ~Waiting(key) /\ Callees(key) = {}
  BY <1>1, <1>4 DEF Out
<1>5. CASE ~Waiting(key) /\ Callees(key) # {}
  <2> DEFINE S == {ReturnState(summaries[c], Start(key)) : c \in Callees(key)}
  <2>1. Callees(key) \subseteq DOMAIN summaries
    BY <1>5 DEF Waiting
  <2>2. S \in SUBSET States /\ S # {}
    BY <1>1, <1>2, <1>5, <2>1, ReturnedState
  <2>3. Out(key) = JoinStates(S)
    BY <1>5 DEF Out
  <2> HIDE DEF S
  <2>. QED
    BY <2>2, <2>3, JoinedState
<1>. QED
  BY <1>3, <1>4, <1>5

\* As far as the summaries are known, a fault goes on in a state.
LEMMA ContinuationType ==
  ASSUME Typed, NEW key \in DOMAIN states,
         NEW m \in 0 .. Len(Unwinders(key)), Composed(key, m)
  PROVE  Continuation(key)[m] \in States
<1> DEFINE A == {i \in 0 .. m : Continuation(key)[i] \in States}
<1>1. Len(Unwinders(key)) \in Nat
  BY TransferType
<1>2. m \in Nat /\ A \in SUBSET Nat
  BY <1>1
<1>3. /\ Continuation(key)[0] = Start(key)
      /\ \A i \in 1 .. m : Continuation(key)[i] =
           ReturnState(summaries[UnwindContext(key[2], key[1], i)],
                       Continuation(key)[i - 1])
  <2> DEFINE n == Len(Unwinders(key))
             c == Compose(n, Start(key), Unwound(key))
  <2>1. Continuation(key) = c
    BY ContinuationComposes
  <2>2. \A i \in 1 .. n : Unwound(key)[i] = summaries[UnwindContext(key[2], key[1], i)]
    BY DEF Unwound
  <2>3. c = [i \in 0 .. n |-> IF i = 0 THEN Start(key)
                             ELSE ReturnState(Unwound(key)[i], c[i - 1])]
    BY <1>1, ComposeUnfolds
  <2> HIDE DEF c, n
  <2>4. n \in Nat /\ m \in 0 .. n
    BY <1>1 DEF n
  <2>. QED
    BY <2>1, <2>2, <2>3, <2>4
<1>4. 0 \in A
  BY <1>2, <1>3, StartType
<1>5. ASSUME NEW i \in 1 .. m, i - 1 \in A PROVE i \in A
  <2>1. summaries[UnwindContext(key[2], key[1], i)] \in States
    BY DEF Composed, Typed, TypeOK, PartialFunction
  <2>. QED
    BY <1>3, <1>5, <2>1, ReturnedState
<1> HIDE DEF A
<1>6. 0 .. m \subseteq A
  BY <1>2, <1>4, <1>5, Climb
<1>. QED
  BY <1>2, <1>6 DEF A

\* A nonlocal transfer restores a state.
LEMMA RestoredType ==
  ASSUME Typed, NEW key \in DOMAIN states, NEW p \in Ancestors(key)
  PROVE  Restored(Out(key), p) \in States
<1>1. PICK target : p \in Chains(key[2], target)
  BY DEF Ancestors
<1> DEFINE depth == Cardinality({f[1] : f \in DOMAIN frames})
<1>2. PICK n \in 1 .. depth : p \in [1 .. n -> DOMAIN frames]
  BY <1>1 DEF Chains
<1>3. n \in Nat /\ Len(p) = n
  BY <1>2
<1> DEFINE after == RestoredAfter(Out(key), p)
           A == {i \in 0 .. n : after[i] \in States}
<1>4. /\ after[0] = Out(key)
      /\ \A i \in 1 .. n : after[i] =
           ReturnState([after[i - 1] EXCEPT !.wrote = Explicit(after[i - 1])], frames[p[i]])
      /\ Restored(Out(key), p) = after[n]
  BY <1>3, RestoredUnfolds
<1> HIDE DEF after
<1>5. 0 \in A
  BY <1>3, <1>4, OutType
<1>6. ASSUME NEW i \in 1 .. n, i - 1 \in A PROVE i \in A
  <2>1. frames[p[i]] \in States
    BY <1>2 DEF Typed, TypeOK, PartialFunction
  <2>2. [after[i - 1] EXCEPT !.wrote = Explicit(after[i - 1])] \in States
    BY <1>6 DEF States, Explicit
  <2>. QED
    BY <1>4, <2>1, <2>2, ReturnedState
<1>7. A \in SUBSET Nat
  OBVIOUS
<1> HIDE DEF A
<1>8. 0 .. n \subseteq A
  BY <1>3, <1>5, <1>6, <1>7, Climb
<1>. QED
  BY <1>3, <1>4, <1>8 DEF A

\* An indirect jump goes to units.
LEMMA JumpResolutionType ==
  ASSUME Typed, NEW key \in DOMAIN states PROVE JumpResolution(key) \in Resolutions
<1>1. program[key[1]].authority \in SUBSET Units
  BY TransferType DEF Transfers
<1>2. \A v : JumpTargets(v) \in Resolutions
  BY DEF JumpTargets, Resolution, Unresolved, Resolutions
<1>. QED
  BY <1>1, <1>2 DEF JumpResolution, Inferred, Resolution, Unresolved, Resolutions

\* The context of an unwind function.
LEMMA UnwindContextType ==
  ASSUME Typed, NEW key \in DOMAIN states, NEW i \in 1 .. Len(Unwinders(key))
  PROVE  /\ UnwindContext(key[2], key[1], i) \in Contexts
         /\ Unwinders(key)[i] \in Addresses
<1>1. key[2].root \in Units /\ key[1] \in Units /\ Unwinders(key) \in Seq(Addresses)
  BY TransferType, ContextFields
<1>2. Unwinders(key)[i] \in Addresses
  BY <1>1
<1>3. <<<<key[1], i>>>> \in Seq(Units \X Nat) /\ Len(<<<<key[1], i>>>>) = 1
  BY <1>1, TransferType
<1>. QED
  BY <1>1, <1>2, <1>3, ClosureAssumption DEF UnwindContext, Unwinders, Contexts

\* An edge with its parts.
LEMMA EdgeType ==
  ASSUME NEW so \in Units, NEW ta \in Addresses, NEW ki \in Kinds,
         NEW st \in States, NEW co \in Contexts
  PROVE  Edge(so, ta, ki, st, co) \in Followed
BY DEF Edge, Followed

\* The handler of a fault, and what is resumed after it.
LEMMA HandlerType ==
  ASSUME Typed, NEW key \in DOMAIN states
  PROVE  /\ program[key[1]].fault.handler \in Addresses
         /\ program[key[1]].fault.resume \in Addresses
         /\ key[2].root \in Units
         /\ HandlerContext(key) \in Contexts
<1>1. program[key[1]].fault \in Faults /\ key[2].root \in Units
  BY TransferType, ContextFields
<1>. QED
  BY <1>1, RootContextType DEF Faults, HandlerContext

\* The edges of a fault.
LEMMA FaultEdgesType ==
  ASSUME Typed, NEW key \in DOMAIN states PROVE FaultEdges(key) \subseteq Followed
<1> SUFFICES ASSUME NEW e \in FaultEdges(key) PROVE e \in Followed
  OBVIOUS
<1> DEFINE fault == program[key[1]].fault
           n == Len(Unwinders(key))
           source(i) == IF i = 0 THEN key[1] ELSE Unwinders(key)[i]
<1>0. e.source \in Units
  BY FaultEdgesFollow DEF Follows, Typed, IInv, Reached
<1>1. n \in Nat /\ fault.handler \in Addresses /\ fault.resume \in Addresses
      /\ key[2].root \in Units /\ HandlerContext(key) \in Contexts
  BY TransferType, HandlerType
<1>2. \A i \in 0 .. n : Composed(key, i) => Continuation(key)[i] \in States
  BY ContinuationType
<1>3. CASE \E i \in Unwinding(key) :
             e = Edge(source(i - 1), Unwinders(key)[i], "exception_unwind",
                      Continuation(key)[i - 1], UnwindContext(key[2], key[1], i))
  <2> PICK i \in Unwinding(key) :
             e = Edge(source(i - 1), Unwinders(key)[i], "exception_unwind",
                      Continuation(key)[i - 1], UnwindContext(key[2], key[1], i))
    BY <1>3
  <2>1. i \in 1 .. n /\ i - 1 \in 0 .. n /\ Composed(key, i - 1)
    BY <1>1 DEF Unwinding
  <2>2. source(i - 1) \in Units
    BY <1>0, EdgeFields
  <2> HIDE DEF source, n
  <2>3. Continuation(key)[i - 1] \in States
    BY <1>2, <2>1
  <2>4. /\ UnwindContext(key[2], key[1], i) \in Contexts
        /\ Unwinders(key)[i] \in Addresses
    BY <2>1, UnwindContextType DEF n
  <2>. QED
    BY <2>2, <2>3, <2>4, EdgeType DEF Kinds
<1>4. CASE /\ AtHandler(key)
           /\ e = Edge(source(n), fault.handler, "exception_handler",
                       Continuation(key)[n], HandlerContext(key))
  <2>1. source(n) \in Units
    BY <1>0, <1>4, EdgeFields
  <2>2. Composed(key, n)
    BY <1>4 DEF AtHandler
  <2> HIDE DEF source, n, fault
  <2>3. Continuation(key)[n] \in States
    BY <1>1, <1>2, <2>2
  <2>. QED
    BY <1>1, <1>4, <2>1, <2>3, EdgeType DEF Kinds
<1>5. CASE /\ Resumes(key)
           /\ e = Edge(fault.handler, fault.resume, "exception_resumption",
                       ReturnState(summaries[HandlerContext(key)], Continuation(key)[n]),
                       RootContext(key[2].root, fault.resume))
  <2>1. fault.handler \in Units
    BY <1>0, <1>5, EdgeFields
  <2>2. Composed(key, n) /\ HandlerContext(key) \in DOMAIN summaries
    BY <1>5 DEF Resumes, WantsResumption, AtHandler
  <2> HIDE DEF n, fault
  <2>3. Continuation(key)[n] \in States
    BY <1>1, <1>2, <2>2
  <2>4. summaries[HandlerContext(key)] \in States
    BY <2>2 DEF Typed, TypeOK, PartialFunction
  <2>5. ReturnState(summaries[HandlerContext(key)], Continuation(key)[n]) \in States
    BY <2>3, <2>4, ReturnedState
  <2>6. RootContext(key[2].root, fault.resume) \in Contexts
    BY <1>1, RootContextType
  <2>. QED
    BY <1>1, <1>5, <2>1, <2>5, <2>6, EdgeType DEF Kinds
<1>. QED
  BY <1>3, <1>4, <1>5 DEF FaultEdges, Unwinders

\* The edges of a nonlocal transfer.
LEMMA NonlocalEdgesType ==
  ASSUME Typed, NEW key \in DOMAIN states PROVE NonlocalEdges(key) \subseteq Followed
<1> SUFFICES ASSUME NEW e \in NonlocalEdges(key) PROVE e \in Followed
  OBVIOUS
<1> DEFINE to == CHOOSE u \in Units : u \in Out(key).reg
<1>1. PICK p \in Ancestors(key) :
        e = Edge(key[1], to, "nonlocal_control", Restored(Out(key), p), p[Len(p)][2][2])
  BY DEF NonlocalEdges
<1>2. to \in Units
  <2>1. Out(key).reg \subseteq Units /\ Cardinality(Out(key).reg) = 1
    BY <1>1 DEF Ancestors
  <2>2. Out(key).reg # {}
    BY <2>1, FS_EmptySet
  <2>. QED
    BY <2>1, <2>2
<1>3. p[Len(p)] \in DOMAIN frames
  BY ChainInFrames DEF Ancestors
<1>4. p[Len(p)][2][2] \in Contexts
  BY <1>3 DEF Typed, TypeOK, PartialFunction, Keys
<1> HIDE DEF to
<1>. QED
  BY <1>1, <1>2, <1>4, RestoredType, TransferType, EdgeType DEF Kinds, Addresses

\* The edges that stay in the function.
LEMMA SuccessorsType ==
  ASSUME Typed, NEW key \in DOMAIN states PROVE Successors(key) \subseteq Followed
<1>0. /\ key[1] \in Units /\ key[2] \in Contexts
      /\ program[key[1]] \in Transfers /\ Out(key) \in States
  BY TransferType, OutType
<1> SUFFICES ASSUME NEW e \in Successors(key) PROVE e \in Followed
  OBVIOUS
<1>1. PICK i \in DOMAIN program[key[1]].to :
        e = Edge(key[1], program[key[1]].to[i], "direct_control", Out(key), key[2])
  BY DEF Successors
<1>2. program[key[1]].to \in Seq(Addresses)
  BY <1>0 DEF Transfers
<1>3. program[key[1]].to[i] \in Addresses
  BY <1>2
<1>. QED
  BY <1>0, <1>1, <1>3, EdgeType DEF Kinds

\* The edges of a visit.
LEMMA VisitEdgesType ==
  ASSUME Typed, NEW key \in DOMAIN states PROVE VisitEdges(key) \subseteq Followed
<1>0. /\ key[1] \in Units /\ key[2] \in Contexts
      /\ program[key[1]] \in Transfers
      /\ Start(key) \in States /\ Out(key) \in States
  BY TransferType, StartType, OutType
<1>1. CallbackEdges(key) \subseteq Followed
  <2> SUFFICES ASSUME NEW e \in CallbackEdges(key) PROVE e \in Followed
    OBVIOUS
  <2>1. PICK g \in Start(key).reg \cap Units :
          e = Edge(key[1], g, "callback_escape",
                   RootState(Out(key).cell, Out(key).bindings), RootContext(g, g))
    BY DEF CallbackEdges
  <2>2. RootState(Out(key).cell, Out(key).bindings) \in States
    BY <1>0 DEF RootState, States, Values
  <2>3. RootContext(g, g) \in Contexts
    BY RootContextType DEF Addresses
  <2>. QED
    BY <1>0, <2>1, <2>2, <2>3, EdgeType DEF Kinds, Addresses
<1>2. Successors(key) \subseteq Followed
  BY SuccessorsType
<1>3. IndirectEdges(key) \subseteq Followed
  <2> SUFFICES ASSUME NEW e \in IndirectEdges(key) PROVE e \in Followed
    OBVIOUS
  <2>1. PICK g \in JumpResolution(key).guest :
          e = Edge(key[1], g, "indirect_control", Out(key), key[2])
    BY DEF IndirectEdges
  <2>2. JumpResolution(key) \in Resolutions
    BY <1>0, JumpResolutionType
  <2>. QED
    BY <1>0, <2>1, <2>2, EdgeType DEF Kinds, Resolutions, Addresses
<1>4. CallEdges(key) \subseteq Followed
  <2> SUFFICES ASSUME NEW e \in CallEdges(key) PROVE e \in Followed
    OBVIOUS
  <2>1. PICK c \in Callees(key) :
          e = Edge(key[1], c.entry, "internal_call", CalleeState(Start(key), c, key[2]), c)
    BY DEF CallEdges
  <2>2. c \in Contexts /\ c.entry \in Addresses
    BY CalleesType, ContextFields
  <2>3. CalleeState(Start(key), c, key[2]) \in States
    <3> DEFINE B == {b \in Start(key).bindings : b[1] # c} \cup {<<c, key[2]>>}
    <3>1. B \in SUBSET (Contexts \X Contexts)
      BY <1>0, <2>2 DEF States
    <3>2. CalleeState(Start(key), c, key[2])
            = [Start(key) EXCEPT !.wrote = FALSE, !.bindings = B]
      BY DEF CalleeState
    <3> HIDE DEF B
    <3>. QED
      BY <1>0, <3>1, <3>2 DEF States
  <2>. QED
    BY <1>0, <2>1, <2>2, <2>3, EdgeType DEF Kinds
<1>. QED
  BY <1>1, <1>2, <1>3, <1>4, FaultEdgesType, NonlocalEdgesType DEF VisitEdges, DirectEdges

\* What a visit records of an escaping callback.
LEMMA EscapesType ==
  ASSUME Typed, NEW key \in DOMAIN states, Visit(key)
  PROVE  PartialFunction(escapes', Units, Resolutions)
<1> DEFINE u == key[1]
           found == IF CallbackKnown(Start(key).reg)
                    THEN Resolution(TRUE, Start(key).reg \cap Units, FALSE) ELSE Unresolved
           old == IF u \in DOMAIN escapes THEN escapes[u] ELSE found
           new == IF old.known /\ found.known
                  THEN Resolution(TRUE, old.guest \cup found.guest, FALSE) ELSE Unresolved
<1>1. PartialFunction(escapes, Units, Resolutions) /\ u \in Units
  BY TransferType DEF Typed, TypeOK
<1>2. found \in Resolutions
  BY DEF Resolution, Unresolved, Resolutions
<1>3. escapes' = IF Escapes(key)
                 THEN [x \in DOMAIN escapes \cup {u} |-> IF x = u THEN new ELSE escapes[x]]
                 ELSE escapes
  BY DEF Visit, EscapesAfter
<1> HIDE DEF found, u
<1>4. old \in Resolutions
  BY <1>1, <1>2 DEF PartialFunction
<1> HIDE DEF old
<1>5. new \in Resolutions
  BY <1>2, <1>4 DEF Resolution, Unresolved, Resolutions
<1> HIDE DEF new
<1>. QED
  BY <1>1, <1>3, <1>5 DEF PartialFunction

\* What a visit records of its indirect sites.
LEMMA IndirectType ==
  ASSUME Typed, NEW key \in DOMAIN states, Visit(key),
         NEW D, DOMAIN states \subseteq D
  PROVE  PartialFunction(indirect', D \X {"call", "terminator"}, Resolutions)
<1> DEFINE sites == {x \in {<<key, "terminator">>} : JumpResolved(key)}
                    \cup {x \in {<<key, "call">>} : program[key[1]].call = "indirect"}
<1>1. PartialFunction(indirect, (DOMAIN states) \X {"call", "terminator"}, Resolutions)
  BY DEF Typed, TypeOK
<1>2. indirect' = IndirectAfter(key)
  BY DEF Visit
<1>3. /\ DOMAIN indirect' = DOMAIN indirect \cup sites
      /\ \A x \in DOMAIN indirect' :
           indirect'[x] = CASE x \notin sites -> indirect[x]
                            [] x \in sites /\ x[2] = "terminator" -> JumpResolution(key)
                            [] x \in sites /\ x[2] = "call" -> Targets(key)
  BY <1>2 DEF IndirectAfter
<1>4. \A x \in sites : /\ x \in D \X {"call", "terminator"}
                       /\ x[2] = "call" => program[key[1]].call = "indirect"
  OBVIOUS
<1> HIDE DEF sites
<1>5. ASSUME NEW x \in DOMAIN indirect' PROVE indirect'[x] \in Resolutions
  <2>1. CASE x \notin sites
    BY <1>1, <1>3, <2>1 DEF PartialFunction
  <2>2. CASE x \in sites /\ x[2] = "terminator"
    BY <1>3, <2>2, JumpResolutionType
  <2>3. CASE x \in sites /\ x[2] = "call"
    BY <1>3, <1>4, <2>3, StartType
  <2>. QED
    BY <1>4, <2>1, <2>2, <2>3
<1>6. DOMAIN indirect' \subseteq D \X {"call", "terminator"}
  BY <1>1, <1>3, <1>4 DEF PartialFunction
<1>. QED
  BY <1>5, <1>6 DEF PartialFunction

\* Following typed edges keeps the states and the edges typed.
LEMMA FollowingType ==
  ASSUME Typed, IInv', NEW E, E \subseteq Followed,
         states' = StatesAfter(E), edges' = edges \cup EdgesOf(E)
  PROVE  /\ PartialFunction(states', Keys, States)
         /\ edges' \subseteq [source : Units, target : Units, kind : Kinds]
<1>1. \A e \in Inside(E) : Key(e) \in Keys /\ e.state \in States
  BY DEF Inside, Key, Keys, Followed
<1>2. DOMAIN states \subseteq Keys /\ \A key \in DOMAIN states : states[key] \in States
  BY DEF Typed, TypeOK, PartialFunction
<1>3. DOMAIN states' = DOMAIN states \cup {Key(e) : e \in Inside(E)}
  BY DEF StatesAfter
<1>4. ASSUME NEW key \in DOMAIN states' PROVE states'[key] \in States
  <2> DEFINE S == {e.state : e \in {x \in Inside(E) : Key(x) = key}}
                  \cup (IF key \in DOMAIN states THEN {states[key]} ELSE {})
  <2>1. states'[key] = JoinStates(S)
    BY <1>3 DEF StatesAfter
  <2>2. S \in SUBSET States
    BY <1>1, <1>2
  <2>3. S # {}
    BY <1>3
  <2> HIDE DEF S
  <2>. QED
    BY <2>1, <2>2, <2>3, JoinedState
<1>5. EdgesOf(E) \subseteq [source : Units, target : Units, kind : Kinds]
  BY DEF EdgesOf, Inside, Followed
<1>6. edges \subseteq [source : Units, target : Units, kind : Kinds]
  BY DEF Typed, TypeOK
<1>. QED
  BY <1>1, <1>2, <1>3, <1>4, <1>5, <1>6 DEF PartialFunction

\* A visit keeps the types.
LEMMA VisitKeepsType ==
  ASSUME Typed, NEW key \in queued, Visit(key) PROVE Typed'
<1>1. key \in DOMAIN states /\ IInv /\ IInv'
  BY VisitKeepsIInv DEF Typed, TypeOK
<1>2. states' = StatesAfter(VisitEdges(key)) /\ edges' = edges \cup EdgesOf(VisitEdges(key))
  BY DEF Visit
<1>3. /\ PartialFunction(states', Keys, States)
      /\ edges' \subseteq [source : Units, target : Units, kind : Kinds]
  BY <1>1, <1>2, FollowingType, VisitEdgesType
<1>4. DOMAIN states \subseteq DOMAIN states' /\ key \in DOMAIN states'
  BY <1>1, <1>2 DEF StatesAfter
<1>5. queued' \subseteq DOMAIN states'
  BY <1>1 DEF IInv
<1>6. deferred' \subseteq [key : DOMAIN states', edge : Followed]
  <2>1. KeptBack(key) \subseteq VisitEdges(key) \cup Successors(key)
    BY DEF KeptBack
  <2>2. Successors(key) \subseteq Followed
    BY <1>1, SuccessorsType
  <2>3. KeptBack(key) \subseteq Followed
    BY <2>2 DEF KeptBack
  <2>4. \A d \in deferred' : d \in deferred \/ \E e \in KeptBack(key) : d = [key |-> key, edge |-> e]
    BY DEF Visit
  <2>5. deferred \subseteq [key : DOMAIN states, edge : Followed]
    BY DEF Typed, TypeOK
  <2>. QED
    BY <1>4, <2>3, <2>4, <2>5
<1>7. PartialFunction(summaries', Contexts, States)
  <2> DEFINE S == {EffectSummary(Out(key))}
                  \cup (IF key[2] \in DOMAIN summaries THEN {summaries[key[2]]} ELSE {})
  <2>1. PartialFunction(summaries, Contexts, States)
    BY DEF Typed, TypeOK
  <2>2. EffectSummary(Out(key)) \in States
    BY <1>1, OutType, ClosureAssumption DEF EffectSummary, States
  <2>3. JoinStates(S) \in States
    <3>1. S \in SUBSET States /\ S # {}
      BY <2>1, <2>2 DEF PartialFunction
    <3> HIDE DEF S
    <3>. QED
      BY <3>1, JoinedState
  <2>4. summaries' = IF Returns(key)
                     THEN [x \in DOMAIN summaries \cup {key[2]} |->
                             IF x = key[2] THEN JoinStates(S) ELSE summaries[x]]
                     ELSE summaries
    BY DEF Visit, SummariesAfter
  <2> HIDE DEF S
  <2>5. key[2] \in Contexts
    BY <1>1, TransferType
  <2>. QED
    BY <2>1, <2>3, <2>4, <2>5 DEF PartialFunction
<1>8. dependents' \subseteq Contexts \X DOMAIN states'
  <2>1. Awaited(key) \subseteq Contexts
    <3>1. \A i \in Unwinding(key) : i \in 1 .. Len(Unwinders(key))
      BY DEF Unwinding
    <3>. QED
      BY <1>1, <3>1, CalleesType, UnwindContextType, HandlerType DEF Awaited
  <2>2. dependents' = dependents \cup {<<c, key>> : c \in Awaited(key)}
    BY DEF Visit
  <2>3. dependents \subseteq Contexts \X DOMAIN states
    BY DEF Typed, TypeOK
  <2>. QED
    BY <1>4, <2>1, <2>2, <2>3
<1>9. PartialFunction(frames', Contexts \X DOMAIN states', States)
  <2> DEFINE new == IF HasNonlocal THEN {<<c, key>> : c \in Callees(key)} ELSE {}
  <2>1. frames' = [f \in DOMAIN frames \cup new |-> IF f \in new THEN Start(key) ELSE frames[f]]
    BY DEF Visit, FramesAfter
  <2>2. new \subseteq Contexts \X DOMAIN states'
    BY <1>1, <1>4, CalleesType
  <2>3. PartialFunction(frames, Contexts \X DOMAIN states, States)
    BY DEF Typed, TypeOK
  <2> HIDE DEF new
  <2>. QED
    BY <1>1, <1>4, <2>1, <2>2, <2>3, StartType DEF PartialFunction
<1>10. PartialFunction(escapes', Units, Resolutions)
  BY <1>1, EscapesType
<1>11. PartialFunction(indirect', (DOMAIN states') \X {"call", "terminator"}, Resolutions)
  BY <1>1, <1>4, IndirectType
<1>12. steps' \in 0 .. MaximumWorklistSteps /\ verdict' \in {"open", "complete", "incomplete"}
  <2>1. steps \in 0 .. MaximumWorklistSteps /\ steps < MaximumWorklistSteps
        /\ steps' = steps + 1 /\ UNCHANGED verdict
    BY DEF Visit, Typed, TypeOK
  <2>2. MaximumWorklistSteps \in Nat
    BY ClosureAssumption
  <2>. QED
    BY <2>1, <2>2 DEF Typed, TypeOK
<1>. QED
  BY <1>1, <1>3, <1>5, <1>6, <1>7, <1>8, <1>9, <1>10, <1>11, <1>12 DEF Typed, TypeOK

\* The branch edges kept back are typed.
LEMMA FlushKeepsType == ASSUME Typed, Flush PROVE Typed'
<1> DEFINE E == {d.edge : d \in deferred}
<1>1. IInv'
  BY FlushKeepsIInv DEF Typed
<1>2. states' = StatesAfter(E) /\ edges' = edges \cup EdgesOf(E)
  BY DEF Flush
<1>3. E \subseteq Followed
  BY DEF Typed, TypeOK
<1> HIDE DEF E
<1>4. /\ PartialFunction(states', Keys, States)
      /\ edges' \subseteq [source : Units, target : Units, kind : Kinds]
  BY <1>1, <1>2, <1>3, FollowingType
<1>5. DOMAIN states \subseteq DOMAIN states'
  BY <1>2 DEF StatesAfter
<1>6. queued' \subseteq DOMAIN states'
  BY <1>1 DEF IInv
<1>. QED
  BY <1>1, <1>4, <1>5, <1>6 DEF Typed, TypeOK, Flush, PartialFunction

\* A decision, or no step at all.
LEMMA DecideKeepsType == ASSUME Typed, Decide \/ UNCHANGED vars PROVE Typed'
<1>1. IInv'
  BY DecideKeepsIInv DEF Typed
<1>2. UNCHANGED <<program, results, worklist>>
      /\ verdict' \in {verdict, "complete", "incomplete"}
  BY DEF Decide, vars
<1>. QED
  BY <1>1, <1>2 DEF results, worklist, Typed, TypeOK, PartialFunction

\* The roots are typed.
LEMMA InitType == Init => Typed
<1> SUFFICES ASSUME Init PROVE Typed
  OBVIOUS
<1>1. IInv
  BY InitIInv
<1>2. RootKeys \subseteq Keys
  BY RootContextType, ClosureAssumption DEF RootKeys, Keys, Addresses
<1>3. RootState(InitialCell, {}) \in States
  BY ClosureAssumption DEF RootState, States, Values
<1>4. PartialFunction(states, Keys, States) /\ queued \subseteq DOMAIN states
  BY <1>2, <1>3 DEF Init, RootStates, PartialFunction
<1>5. 0 \in 0 .. MaximumWorklistSteps
  BY ClosureAssumption
<1>. QED
  BY <1>1, <1>4, <1>5 DEF Init, Typed, TypeOK, PartialFunction

\* Every step keeps the types.
LEMMA NextKeepsType == Typed /\ [Next]_vars => Typed'
BY VisitKeepsType, FlushKeepsType, DecideKeepsType DEF Next

(* Every variable of the construction keeps its type, and no call string   *)
(* gets longer than its limit, for every image and order of visits         *)
(* (build_module_execution_closure_v1).                                    *)
THEOREM ClosureTyped == Spec => []TypeOK
<1>1. Typed => TypeOK
  BY DEF Typed
<1>. QED
  BY <1>1, InitType, NextKeepsType, PTL DEF Spec

-----------------------------------------------------------------------------
(* Joins: a semilattice of values and states, of which Unknown is the top. *)

Below(v, w) == w = Unknown \/ v \subseteq w

StateBelow(s, t) ==
  /\ Below(s.reg, t.reg) /\ Below(s.cell, t.cell)
  /\ s.wrote => t.wrote
  /\ s.bindings \subseteq t.bindings

\* A value within the limit of alternatives, and a state of such values.
Normal(v) == JoinValues({v}) = v
NormalState(s) == Normal(s.reg) /\ Normal(s.cell)

\* Nothing but itself is above the unknown value.
LEMMA BelowTransitive ==
  ASSUME NEW u, NEW v, NEW w \in Values, Below(u, v), Below(v, w) PROVE Below(u, w)
<1>1. CASE v = Unknown /\ v \subseteq w
  <2>1. Other \in w
    BY <1>1 DEF Unknown
  <2>2. w \notin (SUBSET Atoms) \ {{}}
    BY <2>1, ClosureAssumption
  <2>. QED
    BY <2>2 DEF Values, Below
<1>. QED
  BY <1>1 DEF Below

\* The same of states.
LEMMA StateBelowTransitive ==
  ASSUME NEW r, NEW s, NEW t \in States, StateBelow(r, s), StateBelow(s, t)
  PROVE  StateBelow(r, t)
<1>1. t.reg \in Values /\ t.cell \in Values
  BY DEF States
<1>. QED
  BY <1>1, BelowTransitive DEF StateBelow

\* A join is above what it joins, and within the limit.
LEMMA JoinedAbove ==
  ASSUME NEW V, NEW v \in V PROVE Below(v, JoinValues(V))
BY DEF Below, JoinValues

\* A join is within the limit.
LEMMA JoinedNormal == ASSUME NEW V PROVE Normal(JoinValues(V))
<1>1. CASE JoinValues(V) = Unknown
  BY <1>1 DEF Normal, JoinValues, Unknown
<1>2. CASE JoinValues(V) # Unknown
  <2>1. /\ JoinValues(V) = UNION V
        /\ ~(Other \in UNION V \/ Cardinality(UNION V) > AlternativeLimit)
    BY <1>2 DEF JoinValues
  <2>2. UNION {UNION V} = UNION V
    OBVIOUS
  <2>. QED
    BY <2>1, <2>2 DEF Normal, JoinValues
<1>. QED
  BY <1>1, <1>2

\* To join what is below changes nothing.
LEMMA JoinedAbsorbs ==
  ASSUME NEW V, NEW w \in V, Normal(w), \A v \in V : Below(v, w)
  PROVE  JoinValues(V) = w
<1>1. CASE w = Unknown
  <2>1. Other \in UNION V
    BY <1>1 DEF Unknown
  <2>. QED
    BY <1>1, <2>1 DEF JoinValues
<1>2. CASE w # Unknown
  <2>1. UNION V = w /\ UNION {w} = w
    BY <1>2 DEF Below
  <2>. QED
    BY <2>1 DEF JoinValues, Normal
<1>. QED
  BY <1>1, <1>2

\* The same of states.
LEMMA JoinedStateAbove ==
  ASSUME NEW S, NEW s \in S PROVE StateBelow(s, JoinStates(S))
<1>1. s.reg \in {x.reg : x \in S} /\ s.cell \in {x.cell : x \in S}
  OBVIOUS
<1>2. s.bindings \subseteq UNION {x.bindings : x \in S}
  OBVIOUS
<1>3. /\ JoinStates(S).reg = JoinValues({x.reg : x \in S})
      /\ JoinStates(S).cell = JoinValues({x.cell : x \in S})
      /\ JoinStates(S).wrote = (\E x \in S : x.wrote)
      /\ JoinStates(S).bindings = UNION {x.bindings : x \in S}
  BY DEF JoinStates
<1>4. s.wrote => JoinStates(S).wrote
  BY <1>3
<1>. QED
  BY <1>1, <1>2, <1>3, <1>4, JoinedAbove DEF StateBelow

\* A joined state is within the limit.
LEMMA JoinedStateNormal == ASSUME NEW S PROVE NormalState(JoinStates(S))
BY JoinedNormal DEF NormalState, JoinStates

\* To join states that are below changes nothing.
LEMMA JoinedStateAbsorbs ==
  ASSUME NEW S \in SUBSET States, NEW t \in S, NormalState(t),
         \A s \in S : StateBelow(s, t)
  PROVE  JoinStates(S) = t
<1>1. t \in States
  OBVIOUS
<1>2. JoinValues({s.reg : s \in S}) = t.reg
  <2> DEFINE V == {s.reg : s \in S}
  <2>1. t.reg \in V /\ \A v \in V : Below(v, t.reg)
    BY DEF StateBelow
  <2> HIDE DEF V
  <2>. QED
    BY <2>1, JoinedAbsorbs DEF NormalState, V
<1>3. JoinValues({s.cell : s \in S}) = t.cell
  <2> DEFINE V == {s.cell : s \in S}
  <2>1. t.cell \in V /\ \A v \in V : Below(v, t.cell)
    BY DEF StateBelow
  <2> HIDE DEF V
  <2>. QED
    BY <2>1, JoinedAbsorbs DEF NormalState, V
<1>4. (\E s \in S : s.wrote) = t.wrote
  <2>1. t.wrote \in BOOLEAN
    BY <1>1 DEF States
  <2>2. (\E s \in S : s.wrote) <=> t.wrote
    BY DEF StateBelow
  <2>. QED
    BY <2>1, <2>2
<1>5. UNION {s.bindings : s \in S} = t.bindings
  <2>1. UNION {s.bindings : s \in S} \subseteq t.bindings
    BY DEF StateBelow
  <2>2. t.bindings \subseteq UNION {s.bindings : s \in S}
    OBVIOUS
  <2>. QED
    BY <2>1, <2>2
<1>6. t = [reg |-> t.reg, cell |-> t.cell, wrote |-> t.wrote, bindings |-> t.bindings]
  BY <1>1 DEF States
<1>. QED
  BY <1>2, <1>3, <1>4, <1>5, <1>6 DEF JoinStates

-----------------------------------------------------------------------------
(* What a visit leaves behind.  Until something it read changes, which     *)
(* brings the key back, a visited key has nothing more to say: its edges   *)
(* are in the states of their targets or wait among the deferred ones, and *)
(* what it returns, awaits and resolves is recorded.  A nonlocal transfer  *)
(* also reads the call frames, and no key is brought back by a new frame.  *)
\* An edge has been followed, or has been found to leave the universe.
Absorbed(e) ==
  IF e.target \in Units
  THEN /\ Key(e) \in DOMAIN states /\ StateBelow(e.state, states[Key(e)])
       /\ [source |-> e.source, target |-> e.target, kind |-> e.kind] \in edges
  ELSE blockers # {}

LocalEdges(key) ==
  FaultEdges(key) \cup CallbackEdges(key) \cup Successors(key)
  \cup IndirectEdges(key) \cup CallEdges(key)

EdgesTaken(key) ==
  \A e \in LocalEdges(key) : Absorbed(e) \/ [key |-> key, edge |-> e] \in deferred

\* What an escaping callback resolves to at one key.
EscapeFound(key) ==
  IF CallbackKnown(Start(key).reg)
  THEN Resolution(TRUE, Start(key).reg \cap Units, FALSE) ELSE Unresolved

EscapeTaken(key) ==
  Escapes(key) =>
    /\ key[1] \in DOMAIN escapes
    /\ escapes[key[1]].known => /\ EscapeFound(key).known
                                /\ EscapeFound(key).guest \subseteq escapes[key[1]].guest

ReturnTaken(key) ==
  Returns(key) => /\ key[2] \in DOMAIN summaries
                  /\ StateBelow(EffectSummary(Out(key)), summaries[key[2]])

JumpTaken(key) ==
  JumpResolved(key) => /\ <<key, "terminator">> \in DOMAIN indirect
                       /\ indirect[<<key, "terminator">>] = JumpResolution(key)

CallTaken(key) ==
  program[key[1]].call = "indirect" => /\ <<key, "call">> \in DOMAIN indirect
                                       /\ indirect[<<key, "call">>] = Targets(key)

Visited(key) ==
  /\ EdgesTaken(key) /\ ReturnTaken(key) /\ EscapeTaken(key)
  /\ JumpTaken(key) /\ CallTaken(key)
  /\ \A c \in Awaited(key) : <<c, key>> \in dependents
  /\ FaultFails(key) => <<"fault", key>> \in failures

IsTable(table) == table = [index \in DOMAIN table |-> table[index]]

\* Every root has been joined with the image.
RootsJoined ==
  \A key \in RootKeys : StateBelow(RootState(InitialCell, {}), states[key])

Settling ==
  /\ IsTable(states) /\ IsTable(summaries) /\ IsTable(escapes)
  /\ IsTable(indirect) /\ IsTable(frames)
  /\ HasNonlocal \/ DOMAIN frames = {}
  /\ RootsJoined
  /\ \A c \in DOMAIN summaries : NormalState(summaries[c])
  /\ \A u \in DOMAIN escapes : ~escapes[u].external
  /\ \A key \in DOMAIN states \ queued : Visited(key) /\ NormalState(states[key])
  /\ verdict = "complete" => ~Blocked

-----------------------------------------------------------------------------
(* What a visit reads: the transfer, the state of its key, and the         *)
(* summaries it awaits.  While these stay, so does all the visit does.     *)
Stays(key) ==
  /\ program' = program /\ states'[key] = states[key]
  /\ \A c \in Awaited(key) :
       /\ c \in DOMAIN summaries' <=> c \in DOMAIN summaries
       /\ c \in DOMAIN summaries => summaries'[c] = summaries[c]

\* The state before the call, and the call, stay.
LEMMA StartStays ==
  ASSUME NEW key, Stays(key)
  PROVE  /\ Start(key)' = Start(key) /\ Targets(key)' = Targets(key)
         /\ Callees(key)' = Callees(key)
<1>1. program' = program /\ states'[key] = states[key]
  BY DEF Stays
<1>2. Start(key)' = Start(key)
  BY <1>1 DEF Start
<1>3. Targets(key)' = Targets(key)
  BY <1>1, <1>2 DEF Targets
<1>. QED
  BY <1>2, <1>3 DEF Callees

\* The state after the call stays.
LEMMA OutStays ==
  ASSUME NEW key, Stays(key)
  PROVE  (Waiting(key)' <=> Waiting(key)) /\ Out(key)' = Out(key)
<1>1. /\ Start(key)' = Start(key) /\ Targets(key)' = Targets(key)
      /\ Callees(key)' = Callees(key)
  BY StartStays
<1>2. \A c \in Callees(key) : /\ c \in DOMAIN summaries' <=> c \in DOMAIN summaries
                              /\ c \in DOMAIN summaries => summaries'[c] = summaries[c]
  BY DEF Stays, Awaited
<1>3. Waiting(key)' <=> Waiting(key)
  BY <1>1, <1>2 DEF Waiting
<1>4. ~Waiting(key) => {ReturnState(summaries'[c], Start(key)) : c \in Callees(key)}
                         = {ReturnState(summaries[c], Start(key)) : c \in Callees(key)}
  BY <1>2 DEF Waiting
<1>. QED
  BY <1>1, <1>3, <1>4 DEF Out

\* How far a fault has been composed stays.
LEMMA ComposedStays ==
  ASSUME NEW key, Stays(key), Handled(key), Len(Unwinders(key)) \in Nat,
         NEW m \in 0 .. Len(Unwinders(key))
  PROVE  Composed(key, m)' <=> Composed(key, m)
<1> DEFINE n == Len(Unwinders(key))
           known(i) == UnwindContext(key[2], key[1], i) \in DOMAIN summaries
           stillKnown(i) == UnwindContext(key[2], key[1], i) \in DOMAIN summaries'
           A == {i \in 0 .. n : (\A j \in 1 .. i : stillKnown(j)) <=> (\A j \in 1 .. i : known(j))}
<1>1. \A i : UnwindContext(key[2], key[1], i)' = UnwindContext(key[2], key[1], i)
  BY DEF UnwindContext, Stays
<1>2. \A i \in 1 .. n : (\A j \in 1 .. i - 1 : known(j)) => (stillKnown(i) <=> known(i))
  BY DEF Stays, Awaited, Unwinding, Composed
<1>3. \A i \in 0 .. n : /\ Composed(key, i)' <=> \A j \in 1 .. i : stillKnown(j)
                        /\ Composed(key, i) <=> \A j \in 1 .. i : known(j)
  BY <1>1 DEF Composed
<1> HIDE DEF n, known, stillKnown
<1>4. 0 \in A
  BY DEF n
<1>5. ASSUME NEW i \in 1 .. n, i - 1 \in A PROVE i \in A
  <2>0. n \in Nat
    BY DEF n
  <2>1. \A j \in 1 .. i : j \in 1 .. i - 1 \/ j = i
    BY <2>0
  <2>2. (\A j \in 1 .. i - 1 : stillKnown(j)) <=> (\A j \in 1 .. i - 1 : known(j))
    BY <1>5
  <2>3. \A j \in 1 .. i - 1 : j \in 1 .. i
    BY <2>0
  <2>4. i \in 1 .. i /\ i \in 0 .. n
    BY <2>0
  <2>. QED
    BY <1>2, <2>1, <2>2, <2>3, <2>4
<1>6. A \in SUBSET Nat /\ n \in Nat
  BY DEF n
<1>7. m \in 0 .. n
  BY DEF n
<1> HIDE DEF A
<1>8. m \in A
  BY <1>4, <1>5, <1>6, <1>7, Climb
<1>. QED
  BY <1>3, <1>7, <1>8 DEF A

\* The state in which a fault goes on stays.
LEMMA ContinuationStays ==
  ASSUME NEW key, Stays(key), Handled(key), Len(Unwinders(key)) \in Nat,
         NEW m \in 0 .. Len(Unwinders(key)), Composed(key, m)
  PROVE  Continuation(key)'[m] = Continuation(key)[m]
<1> DEFINE n == Len(Unwinders(key))
           old == Unwound(key)
           new == Unwound(key)'
<1>1. Unwinders(key)' = Unwinders(key) /\ program' = program
  BY DEF Unwinders, Stays
<1>2. \A i : UnwindContext(key[2], key[1], i)' = UnwindContext(key[2], key[1], i)
  BY DEF UnwindContext, Stays
<1>3. \A i \in 1 .. m : /\ summaries'[UnwindContext(key[2], key[1], i)]
                             = summaries[UnwindContext(key[2], key[1], i)]
                        /\ i \in 1 .. n
  <2> SUFFICES ASSUME NEW i \in 1 .. m
               PROVE  /\ i \in 1 .. n
                      /\ summaries'[UnwindContext(key[2], key[1], i)]
                             = summaries[UnwindContext(key[2], key[1], i)]
    OBVIOUS
  <2>1. i \in 1 .. n /\ 1 .. i - 1 \subseteq 1 .. m
    OBVIOUS
  <2>2. i \in Unwinding(key)
    BY <2>1 DEF Unwinding, Composed
  <2>. QED
    BY <2>1, <2>2 DEF Awaited, Stays, Composed
<1>4. \A i \in 1 .. m : new[i] = old[i]
  BY <1>1, <1>2, <1>3 DEF Unwound
<1>5. Continuation(key) = Compose(n, Start(key), old)
  BY ContinuationComposes
<1>6. Continuation(key)' = Compose(n, Start(key), new)
  BY ContinuationComposes, StartStays, <1>1
<1>7. n \in Nat /\ m \in 0 .. n
  OBVIOUS
<1> HIDE DEF n, old, new
<1>8. Compose(n, Start(key), new)[m] = Compose(n, Start(key), old)[m]
  BY <1>4, <1>7, ComposeAgrees
<1>. QED
  BY <1>5, <1>6, <1>8

\* How far a fault gets stays.
LEMMA FaultStays ==
  ASSUME NEW key, Stays(key), Len(Unwinders(key)) \in Nat
  PROVE  /\ Handled(key)' <=> Handled(key)
         /\ Unwinding(key)' = Unwinding(key)
         /\ AtHandler(key)' <=> AtHandler(key)
         /\ WantsResumption(key)' <=> WantsResumption(key)
         /\ Resumes(key)' <=> Resumes(key)
         /\ HandlerContext(key)' = HandlerContext(key)
         /\ FaultFails(key)' <=> FaultFails(key)
<1> DEFINE n == Len(Unwinders(key))
<1>1. program' = program /\ Unwinders(key)' = Unwinders(key)
  BY DEF Stays, Unwinders
<1>2. Handled(key)' <=> Handled(key)
  BY <1>1 DEF Handled
<1>3. HandlerContext(key)' = HandlerContext(key)
  BY <1>1 DEF HandlerContext
<1>4. Handled(key) => \A m \in 0 .. n : Composed(key, m)' <=> Composed(key, m)
  BY ComposedStays
<1>5. Unwinding(key)' = Unwinding(key)
  <2>1. \A i \in 1 .. n : i - 1 \in 0 .. n
    OBVIOUS
  <2>. QED
    BY <1>1, <1>2, <1>4, <2>1 DEF Unwinding
<1>6. AtHandler(key)' <=> AtHandler(key)
  <2>1. n \in 0 .. n
    OBVIOUS
  <2>. QED
    BY <1>1, <1>2, <1>4, <2>1 DEF AtHandler
<1>7. WantsResumption(key)' <=> WantsResumption(key)
  BY <1>1, <1>6 DEF WantsResumption
<1>8. Resumes(key)' <=> Resumes(key)
  BY <1>3, <1>7 DEF Resumes, Stays, Awaited
<1>. QED
  BY <1>2, <1>3, <1>5, <1>6, <1>7, <1>8 DEF FaultFails

\* The edges of a fault stay.
LEMMA FaultEdgesStay ==
  ASSUME NEW key, Stays(key), Len(Unwinders(key)) \in Nat
  PROVE  FaultEdges(key)' = FaultEdges(key)
<1> DEFINE fault == program[key[1]].fault
           n == Len(Unwinders(key))
           source(i) == IF i = 0 THEN key[1] ELSE Unwinders(key)[i]
           unwinds(c) ==
             {Edge(source(i - 1), Unwinders(key)[i], "exception_unwind", c[i - 1],
                   UnwindContext(key[2], key[1], i)) : i \in Unwinding(key)}
           handles(c) ==
             {Edge(source(n), fault.handler, "exception_handler", c[n], HandlerContext(key))}
           resumes(c, s) ==
             {Edge(fault.handler, fault.resume, "exception_resumption",
                   ReturnState(s[HandlerContext(key)], c[n]),
                   RootContext(key[2].root, fault.resume))}
           old == Continuation(key)
           new == Continuation(key)'
<1>1. /\ program' = program /\ Unwinders(key)' = Unwinders(key)
      /\ \A i : UnwindContext(key[2], key[1], i)' = UnwindContext(key[2], key[1], i)
  BY DEF Stays, Unwinders, UnwindContext
<1>2. FaultEdges(key) = unwinds(old) \cup (IF AtHandler(key) THEN handles(old) ELSE {})
                        \cup (IF Resumes(key) THEN resumes(old, summaries) ELSE {})
  BY DEF FaultEdges, Unwinders
<1>3. FaultEdges(key)' = unwinds(new) \cup (IF AtHandler(key) THEN handles(new) ELSE {})
                        \cup (IF Resumes(key) THEN resumes(new, summaries') ELSE {})
  BY <1>1, FaultStays DEF FaultEdges, Unwinders
<1>4. unwinds(new) = unwinds(old)
  <2>1. \A i \in Unwinding(key) : new[i - 1] = old[i - 1]
    <3> SUFFICES ASSUME NEW i \in Unwinding(key) PROVE new[i - 1] = old[i - 1]
      OBVIOUS
    <3>1. i - 1 \in 0 .. n /\ Handled(key) /\ Composed(key, i - 1)
      BY DEF Unwinding
    <3>. QED
      BY <3>1, ContinuationStays
  <2> HIDE DEF source, old, new
  <2>. QED
    BY <2>1
<1>5. AtHandler(key) => new[n] = old[n]
  <2>1. n \in 0 .. n
    OBVIOUS
  <2>. QED
    BY <2>1, ContinuationStays DEF AtHandler
<1>6. Resumes(key) => /\ AtHandler(key)
                      /\ summaries'[HandlerContext(key)] = summaries[HandlerContext(key)]
  BY DEF Resumes, WantsResumption, Stays, Awaited
<1> HIDE DEF unwinds, old, new, source, n, fault
<1>. QED
  BY <1>2, <1>3, <1>4, <1>5, <1>6

\* The edges of a key, and what it returns, resolves and awaits, stay.
LEMMA ReadingStays ==
  ASSUME NEW key, Stays(key), Len(Unwinders(key)) \in Nat
  PROVE  /\ LocalEdges(key)' = LocalEdges(key)
         /\ Successors(key)' = Successors(key)
         /\ Returns(key)' <=> Returns(key)
         /\ Out(key)' = Out(key)
         /\ JumpResolved(key)' <=> JumpResolved(key)
         /\ JumpResolution(key)' = JumpResolution(key)
         /\ Targets(key)' = Targets(key)
         /\ EscapeFound(key)' = EscapeFound(key)
         /\ Escapes(key)' <=> Escapes(key)
         /\ Awaited(key)' = Awaited(key)
         /\ FaultFails(key)' <=> FaultFails(key)
<1>1. /\ program' = program /\ Start(key)' = Start(key) /\ Targets(key)' = Targets(key)
      /\ Callees(key)' = Callees(key) /\ Out(key)' = Out(key)
      /\ Waiting(key)' <=> Waiting(key)
  BY StartStays, OutStays DEF Stays
<1>2. CallbackEdges(key)' = CallbackEdges(key) /\ EscapeFound(key)' = EscapeFound(key)
      /\ (Escapes(key)' <=> Escapes(key))
  BY <1>1 DEF CallbackEdges, Escapes, EscapeFound
<1>3. Successors(key)' = Successors(key)
  BY <1>1 DEF Successors, Continues
<1>4. (JumpResolved(key)' <=> JumpResolved(key)) /\ JumpResolution(key)' = JumpResolution(key)
  BY <1>1 DEF JumpResolved, JumpResolution, Conflicts, Inferred
<1>5. IndirectEdges(key)' = IndirectEdges(key)
  BY <1>1, <1>4 DEF IndirectEdges
<1>6. CallEdges(key)' = CallEdges(key)
  BY <1>1 DEF CallEdges
<1>7. Returns(key)' <=> Returns(key)
  BY <1>1, <1>4 DEF Returns
<1>8. Awaited(key)' = Awaited(key)
  <2>1. \A i : UnwindContext(key[2], key[1], i)' = UnwindContext(key[2], key[1], i)
    BY <1>1 DEF UnwindContext
  <2>. QED
    BY <1>1, <2>1, FaultStays DEF Awaited
<1>9. LocalEdges(key)' = LocalEdges(key)
  BY <1>2, <1>3, <1>5, <1>6, FaultEdgesStay DEF LocalEdges
<1>. QED
  BY <1>1, <1>2, <1>3, <1>4, <1>7, <1>8, <1>9, FaultStays

-----------------------------------------------------------------------------
(* The construction only adds.                                             *)

\* No state, edge, dependent, blocker or callback is taken back.
Adds ==
  /\ \A key \in DOMAIN states :
       key \in DOMAIN states' /\ StateBelow(states[key], states'[key])
  /\ edges \subseteq edges' /\ dependents \subseteq dependents' /\ blockers \subseteq blockers'
  /\ \A c \in DOMAIN summaries :
       c \in DOMAIN summaries' /\ StateBelow(summaries[c], summaries'[c])
  /\ \A u \in DOMAIN escapes :
       /\ u \in DOMAIN escapes'
       /\ escapes'[u].known => escapes[u].known /\ escapes[u].guest \subseteq escapes'[u].guest

\* A followed edge stays followed.
LEMMA AbsorbedStays ==
  ASSUME Adds, Typed', NEW e, Absorbed(e) PROVE Absorbed(e)'
<1>1. CASE e.target \in Units
  <2>1. Key(e)' = Key(e)
    BY DEF Key
  <2>2. states'[Key(e)] \in States
    BY <1>1 DEF Absorbed, Adds, Typed, TypeOK, PartialFunction
  <2>. QED
    BY <1>1, <2>1, <2>2, StateBelowTransitive DEF Absorbed, Adds
<1>2. CASE e.target \notin Units
  BY <1>2 DEF Absorbed, Adds
<1>. QED
  BY <1>1, <1>2

\* The roots stay joined with the image.
LEMMA RootsStay == ASSUME Typed, Typed', RootsJoined, Adds PROVE RootsJoined'
<1>1. RootKeys' = RootKeys /\ RootKeys \subseteq DOMAIN states
  BY DEF RootKeys, Typed, IInv
<1>2. ASSUME NEW key \in RootKeys
      PROVE  StateBelow(RootState(InitialCell, {}), states'[key])
  <2>1. StateBelow(states[key], states'[key]) /\ key \in DOMAIN states'
    BY <1>1 DEF Adds
  <2>2. states'[key] \in States
    BY <2>1 DEF Typed, TypeOK, PartialFunction
  <2>3. StateBelow(RootState(InitialCell, {}), states[key])
    BY DEF RootsJoined
  <2>. QED
    BY <2>1, <2>2, <2>3, StateBelowTransitive
<1>. QED
  BY <1>1, <1>2 DEF RootsJoined

\* A visited key stays visited while nothing it read changes.
LEMMA VisitedStays ==
  ASSUME Typed, Typed', NEW key \in DOMAIN states, Stays(key), Adds, Visited(key),
         \A d \in deferred : d.key = key => d \in deferred' \/ Absorbed(d.edge)',
         \A x \in DOMAIN indirect :
           x[1] = key => x \in DOMAIN indirect' /\ indirect'[x] = indirect[x],
         <<"fault", key>> \in failures => <<"fault", key>> \in failures'
  PROVE  Visited(key)'
<1>0. Len(Unwinders(key)) \in Nat
  BY TransferType
<1>1. EdgesTaken(key)'
  <2> SUFFICES ASSUME NEW e \in LocalEdges(key)
               PROVE  Absorbed(e)' \/ [key |-> key, edge |-> e] \in deferred'
    BY <1>0, ReadingStays DEF EdgesTaken
  <2>1. CASE Absorbed(e)
    BY <2>1, AbsorbedStays
  <2>2. CASE [key |-> key, edge |-> e] \in deferred
    BY <2>2
  <2>. QED
    BY <2>1, <2>2 DEF EdgesTaken, Visited
<1>2. ReturnTaken(key)'
  <2> SUFFICES ASSUME Returns(key)
               PROVE  /\ key[2] \in DOMAIN summaries'
                      /\ StateBelow(EffectSummary(Out(key)), summaries'[key[2]])
    BY <1>0, ReadingStays DEF ReturnTaken
  <2>1. key[2] \in DOMAIN summaries
        /\ StateBelow(EffectSummary(Out(key)), summaries[key[2]])
    BY DEF Visited, ReturnTaken
  <2>2. key[2] \in DOMAIN summaries' /\ StateBelow(summaries[key[2]], summaries'[key[2]])
    BY <2>1 DEF Adds
  <2>3. summaries'[key[2]] \in States
    BY <2>2 DEF Typed, TypeOK, PartialFunction
  <2>. QED
    BY <2>1, <2>2, <2>3, StateBelowTransitive
<1>3. EscapeTaken(key)'
  <2> SUFFICES ASSUME Escapes(key)
               PROVE  /\ key[1] \in DOMAIN escapes'
                      /\ escapes'[key[1]].known =>
                           /\ EscapeFound(key).known
                           /\ EscapeFound(key).guest \subseteq escapes'[key[1]].guest
    BY <1>0, ReadingStays DEF EscapeTaken
  <2>. QED
    BY DEF Visited, EscapeTaken, Adds
<1>4. JumpTaken(key)'
  BY <1>0, ReadingStays DEF JumpTaken, Visited
<1>5. CallTaken(key)'
  BY <1>0, ReadingStays DEF CallTaken, Visited, Stays
<1>6. \A c \in Awaited(key)' : <<c, key>> \in dependents'
  BY <1>0, ReadingStays DEF Visited, Adds
<1>7. FaultFails(key)' => <<"fault", key>> \in failures'
  BY <1>0, ReadingStays DEF Visited
<1>. QED
  BY <1>1, <1>2, <1>3, <1>4, <1>5, <1>6, <1>7 DEF Visited

\* A state is below itself.
LEMMA StateBelowItself == ASSUME NEW s PROVE StateBelow(s, s)
BY DEF StateBelow, Below

\* To enqueue edges joins their states, and those there were, into normal states.
LEMMA EnqueueJoins ==
  ASSUME NEW E, states' = StatesAfter(E)
  PROVE  /\ IsTable(states)'
         /\ \A key \in DOMAIN states' : NormalState(states'[key])
         /\ \A key \in DOMAIN states :
              key \in DOMAIN states' /\ StateBelow(states[key], states'[key])
         /\ \A e \in Inside(E) :
              Key(e) \in DOMAIN states' /\ StateBelow(e.state, states'[Key(e)])
<1> DEFINE D == DOMAIN states \cup {Key(e) : e \in Inside(E)}
           S(key) == {e.state : e \in {f \in Inside(E) : Key(f) = key}}
                     \cup (IF key \in DOMAIN states THEN {states[key]} ELSE {})
<1>1. states' = [key \in D |-> JoinStates(S(key))]
  BY DEF StatesAfter
<1>2. \A key \in DOMAIN states : key \in D /\ states[key] \in S(key)
  OBVIOUS
<1>3. \A e \in Inside(E) : Key(e) \in D /\ e.state \in S(Key(e))
  OBVIOUS
<1> HIDE DEF D, S
<1>4. DOMAIN states' = D /\ \A key \in D : states'[key] = JoinStates(S(key))
  BY <1>1
<1>5. IsTable(states)'
  BY <1>1, <1>4 DEF IsTable
<1>. QED
  BY <1>2, <1>3, <1>4, <1>5, JoinedStateAbove, JoinedStateNormal

\* What is enqueued is followed.
LEMMA EnqueueFollows ==
  ASSUME NEW E, states' = StatesAfter(E), edges' = edges \cup EdgesOf(E),
         Strays(E) \subseteq blockers'
  PROVE  \A e \in E : Absorbed(e)'
<1> SUFFICES ASSUME NEW e \in E PROVE Absorbed(e)'
  OBVIOUS
<1>1. CASE e.target \in Units
  <2>1. e \in Inside(E)
    BY <1>1 DEF Inside
  <2>2. [source |-> e.source, target |-> e.target, kind |-> e.kind] \in edges'
    BY <2>1 DEF EdgesOf
  <2>3. Key(e)' = Key(e)
    BY DEF Key
  <2>. QED
    BY <1>1, <2>1, <2>2, <2>3, EnqueueJoins DEF Absorbed
<1>2. CASE e.target \notin Units
  <2>1. e \in E \ Inside(E)
    BY <1>2 DEF Inside
  <2>. QED
    BY <1>2, <2>1 DEF Strays, Absorbed
<1>. QED
  BY <1>1, <1>2

\* What does not change keeps its state.
LEMMA UnchangedState ==
  ASSUME NEW E, states' = StatesAfter(E), NEW key \in DOMAIN states', key \notin Changed(E)
  PROVE  key \in DOMAIN states /\ states'[key] = states[key]
BY DEF Changed

\* A summary is joined with what the function returns now.
LEMMA SummaryJoins ==
  ASSUME NEW key, summaries' = SummariesAfter(key), IsTable(summaries),
         \A c \in DOMAIN summaries : NormalState(summaries[c])
  PROVE  /\ IsTable(summaries)'
         /\ \A c \in DOMAIN summaries' : NormalState(summaries'[c])
         /\ \A c \in DOMAIN summaries :
              c \in DOMAIN summaries' /\ StateBelow(summaries[c], summaries'[c])
         /\ \A c : c # key[2] => /\ c \in DOMAIN summaries' <=> c \in DOMAIN summaries
                                 /\ c \in DOMAIN summaries => summaries'[c] = summaries[c]
         /\ Returns(key) => /\ key[2] \in DOMAIN summaries'
                            /\ StateBelow(EffectSummary(Out(key)), summaries'[key[2]])
<1>1. CASE ~Returns(key)
  <2>1. summaries' = summaries
    BY <1>1 DEF SummariesAfter
  <2>. QED
    BY <1>1, <2>1, StateBelowItself DEF IsTable
<1>2. CASE Returns(key)
  <2> DEFINE c == key[2]
             S == {EffectSummary(Out(key))}
                  \cup (IF c \in DOMAIN summaries THEN {summaries[c]} ELSE {})
             new == JoinStates(S)
  <2>1. summaries' = [x \in DOMAIN summaries \cup {c} |-> IF x = c THEN new ELSE summaries[x]]
    BY <1>2 DEF SummariesAfter
  <2>2. EffectSummary(Out(key)) \in S /\ (c \in DOMAIN summaries => summaries[c] \in S)
    OBVIOUS
  <2> HIDE DEF S
  <2>3. NormalState(new) /\ StateBelow(EffectSummary(Out(key)), new)
        /\ (c \in DOMAIN summaries => StateBelow(summaries[c], new))
    BY <2>2, JoinedStateNormal, JoinedStateAbove
  <2> HIDE DEF new
  <2>4. /\ DOMAIN summaries' = DOMAIN summaries \cup {c}
        /\ \A x \in DOMAIN summaries' : summaries'[x] = IF x = c THEN new ELSE summaries[x]
    BY <2>1
  <2>5. IsTable(summaries)'
    BY <2>1, <2>4 DEF IsTable
  <2>. QED
    BY <2>3, <2>4, <2>5, StateBelowItself
<1>. QED
  BY <1>1, <1>2

\* A callback that escapes is joined with what its transfer gave away before.
LEMMA EscapeJoins ==
  ASSUME NEW key, escapes' = EscapesAfter(key), IsTable(escapes),
         \A u \in DOMAIN escapes : ~escapes[u].external
  PROVE  /\ IsTable(escapes)'
         /\ \A u \in DOMAIN escapes' : ~escapes'[u].external
         /\ \A u \in DOMAIN escapes :
              /\ u \in DOMAIN escapes'
              /\ escapes'[u].known =>
                   escapes[u].known /\ escapes[u].guest \subseteq escapes'[u].guest
         /\ Escapes(key) =>
              /\ key[1] \in DOMAIN escapes'
              /\ escapes'[key[1]].known =>
                   /\ EscapeFound(key).known
                   /\ EscapeFound(key).guest \subseteq escapes'[key[1]].guest
<1>1. CASE ~Escapes(key)
  <2>1. escapes' = escapes
    BY <1>1 DEF EscapesAfter
  <2>. QED
    BY <1>1, <2>1 DEF IsTable
<1>2. CASE Escapes(key)
  <2> DEFINE u == key[1]
             found == EscapeFound(key)
             old == IF u \in DOMAIN escapes THEN escapes[u] ELSE found
             new == IF old.known /\ found.known
                    THEN Resolution(TRUE, old.guest \cup found.guest, FALSE) ELSE Unresolved
  <2>1. escapes' = [x \in DOMAIN escapes \cup {u} |-> IF x = u THEN new ELSE escapes[x]]
    BY <1>2 DEF EscapesAfter, EscapeFound
  <2>2. /\ ~new.external
        /\ new.known => /\ found.known /\ found.guest \subseteq new.guest
                        /\ old.known /\ old.guest \subseteq new.guest
    <3> HIDE DEF found, old
    <3>. QED
      BY DEF Resolution, Unresolved
  <2>3. u \in DOMAIN escapes => old = escapes[u]
    OBVIOUS
  <2> HIDE DEF old, new
  <2>4. /\ DOMAIN escapes' = DOMAIN escapes \cup {u}
        /\ \A x \in DOMAIN escapes' : escapes'[x] = IF x = u THEN new ELSE escapes[x]
    BY <2>1
  <2>5. IsTable(escapes)'
    BY <2>1, <2>4 DEF IsTable
  <2>. QED
    BY <2>2, <2>3, <2>4, <2>5
<1>. QED
  BY <1>1, <1>2

\* What a visit resolves is recorded at its sites, and nothing else changes.
LEMMA IndirectRecorded ==
  ASSUME NEW key, indirect' = IndirectAfter(key), IsTable(indirect)
  PROVE  /\ IsTable(indirect)'
         /\ \A x \in DOMAIN indirect :
              x[1] # key => x \in DOMAIN indirect' /\ indirect'[x] = indirect[x]
         /\ JumpResolved(key) =>
              /\ <<key, "terminator">> \in DOMAIN indirect'
              /\ indirect'[<<key, "terminator">>] = JumpResolution(key)
         /\ program[key[1]].call = "indirect" =>
              /\ <<key, "call">> \in DOMAIN indirect'
              /\ indirect'[<<key, "call">>] = Targets(key)
<1> DEFINE sites == {x \in {<<key, "terminator">>} : JumpResolved(key)}
                    \cup {x \in {<<key, "call">>} : program[key[1]].call = "indirect"}
           value(x) == CASE x \notin sites -> indirect[x]
                         [] x \in sites /\ x[2] = "terminator" -> JumpResolution(key)
                         [] x \in sites /\ x[2] = "call" -> Targets(key)
<1>1. indirect' = [x \in DOMAIN indirect \cup sites |-> value(x)]
  BY DEF IndirectAfter
<1>2. \A x \in sites : x[1] = key
  OBVIOUS
<1>3. \A x : x \notin sites => value(x) = indirect[x]
  OBVIOUS
<1>4. JumpResolved(key) => /\ <<key, "terminator">> \in sites
                           /\ value(<<key, "terminator">>) = JumpResolution(key)
  OBVIOUS
<1>5. program[key[1]].call = "indirect" => /\ <<key, "call">> \in sites
                                           /\ value(<<key, "call">>) = Targets(key)
  OBVIOUS
<1> HIDE DEF sites, value
<1>6. /\ DOMAIN indirect' = DOMAIN indirect \cup sites
      /\ \A x \in DOMAIN indirect' : indirect'[x] = value(x)
  BY <1>1
<1>7. IsTable(indirect)'
  BY <1>1, <1>6 DEF IsTable
<1>. QED
  BY <1>2, <1>3, <1>4, <1>5, <1>6, <1>7

-----------------------------------------------------------------------------
(* Every step keeps what is visited visited, or queues it again.           *)

\* A visit adds.
LEMMA VisitAdds ==
  ASSUME Settling, NEW key, Visit(key)
  PROVE  /\ Adds
         /\ IsTable(states)' /\ IsTable(summaries)' /\ IsTable(escapes)' /\ IsTable(indirect)'
         /\ \A k \in DOMAIN states' : NormalState(states'[k])
         /\ \A c \in DOMAIN summaries' : NormalState(summaries'[c])
         /\ \A u \in DOMAIN escapes' : ~escapes'[u].external
<1>1. /\ states' = StatesAfter(VisitEdges(key)) /\ summaries' = SummariesAfter(key)
      /\ escapes' = EscapesAfter(key) /\ indirect' = IndirectAfter(key)
      /\ edges \subseteq edges' /\ dependents \subseteq dependents'
      /\ blockers \subseteq blockers'
  BY DEF Visit
<1>2. /\ IsTable(summaries) /\ IsTable(escapes) /\ IsTable(indirect)
      /\ \A c \in DOMAIN summaries : NormalState(summaries[c])
      /\ \A u \in DOMAIN escapes : ~escapes[u].external
  BY DEF Settling
<1>. QED
  BY <1>1, <1>2, EnqueueJoins, SummaryJoins, EscapeJoins, IndirectRecorded DEF Adds

\* A key that a visit does not queue again has lost nothing that it read.
LEMMA VisitStays ==
  ASSUME Settling, NEW key, Visit(key),
         NEW other \in DOMAIN states' \ queued',
         \A c \in Awaited(other) : <<c, other>> \in dependents'
  PROVE  other \in DOMAIN states /\ Stays(other)
<1>1. other \in DOMAIN states /\ states'[other] = states[other]
  BY UnchangedState DEF Visit
<1>2. program' = program
  BY DEF Visit
<1>3. ASSUME NEW c \in Awaited(other)
      PROVE  /\ c \in DOMAIN summaries' <=> c \in DOMAIN summaries
             /\ c \in DOMAIN summaries => summaries'[c] = summaries[c]
  <2>1. CASE summaries' = summaries
    BY <2>1
  <2>2. CASE summaries' # summaries
    <3>1. SummaryChanged(key) /\ summaries' = SummariesAfter(key)
      BY <2>2 DEF SummaryChanged, Visit
    <3>2. c # key[2]
      <4>1. {d[2] : d \in {x \in dependents' : x[1] = key[2] /\ SummaryChanged(key)}}
              \subseteq queued'
        BY DEF Visit
      <4>2. <<c, other>> \in dependents' /\ other \notin queued'
        BY <1>3
      <4>. QED
        BY <3>1, <4>1, <4>2
    <3>3. /\ c \in DOMAIN summaries' <=> c \in DOMAIN summaries
          /\ c \in DOMAIN summaries => summaries'[c] = summaries[c]
      BY <3>1, <3>2, SummaryJoins DEF Settling
    <3>. QED
      BY <3>3
  <2>. QED
    BY <2>1, <2>2
<1>. QED
  BY <1>1, <1>2, <1>3 DEF Stays

\* What another visit left behind stays.
LEMMA VisitKeepsOthers ==
  ASSUME Typed, Typed', Settling, NEW key \in queued, Visit(key),
         NEW other \in DOMAIN states' \ queued', other # key
  PROVE  Visited(other)'
<1>1. other \in DOMAIN states \ queued
  BY UnchangedState DEF Visit
<1>2. Visited(other)
  BY <1>1 DEF Settling
<1>3. \A c \in Awaited(other) : <<c, other>> \in dependents'
  BY <1>2 DEF Visited, Visit
<1>4. Stays(other)
  BY <1>3, VisitStays
<1>5. \A d \in deferred : d.key = other => d \in deferred'
  BY DEF Visit
<1>6. <<"fault", other>> \in failures => <<"fault", other>> \in failures'
  <2>1. failures' = FailuresAfter(key)
    BY DEF Visit
  <2>2. <<"fault", other>> \notin {<<"fault", key>>, <<"nonlocal", key>>}
    OBVIOUS
  <2>. QED
    BY <2>1, <2>2 DEF FailuresAfter
<1>7. \A x \in DOMAIN indirect :
        x[1] = other => x \in DOMAIN indirect' /\ indirect'[x] = indirect[x]
  BY IndirectRecorded DEF Visit, Settling
<1>. QED
  BY <1>1, <1>2, <1>4, <1>5, <1>6, <1>7, VisitAdds, VisitedStays

\* What this visit leaves behind.
LEMMA VisitVisits ==
  ASSUME Typed, Typed', Settling, NEW key \in queued, Visit(key), key \notin queued'
  PROVE  Visited(key)'
<1>0. key \in DOMAIN states /\ key \in DOMAIN states' /\ Len(Unwinders(key)) \in Nat
  <2>1. key \in DOMAIN states
    BY DEF Typed, IInv
  <2>. QED
    BY <2>1, TransferType, VisitAdds DEF Adds
<1>1. \A c \in Awaited(key) : <<c, key>> \in dependents'
  BY DEF Visit
<1>2. Stays(key)
  BY <1>0, <1>1, VisitStays
<1>3. EdgesTaken(key)'
  <2> SUFFICES ASSUME NEW e \in LocalEdges(key)
               PROVE  Absorbed(e)' \/ [key |-> key, edge |-> e] \in deferred'
    BY <1>0, <1>2, ReadingStays DEF EdgesTaken
  <2>1. CASE e \in KeptBack(key)
    BY <2>1 DEF Visit
  <2>2. CASE e \notin KeptBack(key)
    <3>1. e \in VisitEdges(key)
      BY <2>2 DEF VisitEdges, LocalEdges, DirectEdges
    <3>2. /\ states' = StatesAfter(VisitEdges(key))
          /\ edges' = edges \cup EdgesOf(VisitEdges(key))
          /\ Strays(VisitEdges(key)) \subseteq blockers'
      BY DEF Visit
    <3>. QED
      BY <3>1, <3>2, EnqueueFollows
  <2>. QED
    BY <2>1, <2>2
<1>4. ReturnTaken(key)'
  <2>1. Returns(key) => /\ key[2] \in DOMAIN summaries'
                        /\ StateBelow(EffectSummary(Out(key)), summaries'[key[2]])
    BY SummaryJoins DEF Visit, Settling
  <2>. QED
    BY <1>0, <1>2, <2>1, ReadingStays DEF ReturnTaken
<1>5. EscapeTaken(key)'
  <2>1. Escapes(key) =>
          /\ key[1] \in DOMAIN escapes'
          /\ escapes'[key[1]].known =>
               /\ EscapeFound(key).known
               /\ EscapeFound(key).guest \subseteq escapes'[key[1]].guest
    BY EscapeJoins DEF Visit, Settling
  <2>. QED
    BY <1>0, <1>2, <2>1, ReadingStays DEF EscapeTaken
<1>6. JumpTaken(key)' /\ CallTaken(key)'
  <2>1. /\ JumpResolved(key) =>
             /\ <<key, "terminator">> \in DOMAIN indirect'
             /\ indirect'[<<key, "terminator">>] = JumpResolution(key)
        /\ program[key[1]].call = "indirect" =>
             /\ <<key, "call">> \in DOMAIN indirect'
             /\ indirect'[<<key, "call">>] = Targets(key)
    BY IndirectRecorded DEF Visit, Settling
  <2>2. program' = program
    BY DEF Visit
  <2>. QED
    BY <1>0, <1>2, <2>1, <2>2, ReadingStays DEF JumpTaken, CallTaken
<1>7. FaultFails(key)' => <<"fault", key>> \in failures'
  BY <1>0, <1>2, ReadingStays DEF Visit, FailuresAfter
<1>8. \A c \in Awaited(key)' : <<c, key>> \in dependents'
  BY <1>0, <1>1, <1>2, ReadingStays
<1>. QED
  BY <1>3, <1>4, <1>5, <1>6, <1>7, <1>8 DEF Visited

\* A visit keeps the invariant.
LEMMA VisitKeepsSettling ==
  ASSUME Typed, Typed', Settling, NEW key \in queued, Visit(key) PROVE Settling'
<1>1. \A other \in DOMAIN states' \ queued' : Visited(other)'
  BY VisitKeepsOthers, VisitVisits
<1>2. IsTable(frames)' /\ (HasNonlocal' \/ DOMAIN frames' = {})
  <2> DEFINE new == IF HasNonlocal THEN {<<c, key>> : c \in Callees(key)} ELSE {}
  <2>1. frames' = [f \in DOMAIN frames \cup new |-> IF f \in new THEN Start(key) ELSE frames[f]]
    BY DEF Visit, FramesAfter
  <2>2. HasNonlocal' <=> HasNonlocal
    BY DEF Visit, HasNonlocal
  <2>3. HasNonlocal \/ new = {}
    OBVIOUS
  <2> HIDE DEF new
  <2>4. DOMAIN frames' = DOMAIN frames \cup new
        /\ \A f \in DOMAIN frames' : frames'[f] = IF f \in new THEN Start(key) ELSE frames[f]
    BY <2>1
  <2>. QED
    BY <2>1, <2>2, <2>3, <2>4 DEF IsTable, Settling
<1>3. verdict' # "complete"
  BY DEF Visit
<1>4. RootsJoined'
  BY VisitAdds, RootsStay DEF Settling
<1>. QED
  BY <1>1, <1>2, <1>3, <1>4, VisitAdds DEF Settling

\* To follow the branches kept back settles them.
LEMMA FlushKeepsSettling ==
  ASSUME Typed, Typed', Settling, Flush PROVE Settling'
<1> DEFINE E == {d.edge : d \in deferred}
<1>1. /\ program' = program /\ states' = StatesAfter(E) /\ edges' = edges \cup EdgesOf(E)
      /\ queued = {} /\ queued' = Changed(E) /\ Strays(E) \subseteq blockers'
      /\ blockers \subseteq blockers'
  BY DEF Flush
<1>2. UNCHANGED <<summaries, dependents, frames, escapes, indirect, failures, verdict>>
      /\ verdict = "open"
  BY DEF Flush
<1> HIDE DEF E
<1>3. Adds
  BY <1>1, <1>2, EnqueueJoins, StateBelowItself DEF Adds
<1>4. ASSUME NEW key \in DOMAIN states' \ queued' PROVE Visited(key)'
  <2>1. key \in DOMAIN states /\ states'[key] = states[key]
    BY <1>1, UnchangedState
  <2>2. Visited(key)
    BY <1>1, <2>1 DEF Settling
  <2>3. Stays(key)
    BY <1>1, <1>2, <2>1 DEF Stays
  <2>4. \A d \in deferred : Absorbed(d.edge)'
    BY <1>1, EnqueueFollows DEF E
  <2>. QED
    BY <1>2, <1>3, <2>1, <2>2, <2>3, <2>4, VisitedStays
<1>5. IsTable(states)' /\ \A key \in DOMAIN states' : NormalState(states'[key])
  BY <1>1, EnqueueJoins
<1>6. /\ IsTable(summaries)' /\ IsTable(escapes)' /\ IsTable(indirect)' /\ IsTable(frames)'
      /\ HasNonlocal' \/ DOMAIN frames' = {}
      /\ \A c \in DOMAIN summaries' : NormalState(summaries'[c])
      /\ \A u \in DOMAIN escapes' : ~escapes'[u].external
  BY <1>1, <1>2 DEF Settling, IsTable, HasNonlocal
<1>7. RootsJoined'
  BY <1>3, RootsStay DEF Settling
<1>. QED
  BY <1>2, <1>4, <1>5, <1>6, <1>7 DEF Settling

\* A decision says complete of a construction that nothing blocks.
LEMMA DecideKeepsSettling ==
  ASSUME Typed, Typed', Settling, Decide \/ UNCHANGED vars PROVE Settling'
<1>1. UNCHANGED <<program, results, worklist>>
  BY DEF Decide, vars
<1>2. UNCHANGED <<program, states, queued, deferred, edges, summaries, dependents, frames,
                  escapes, indirect, failures, blockers>>
  BY <1>1 DEF results, worklist
<1>3. Adds
  BY <1>2, StateBelowItself DEF Adds
<1>4. ASSUME NEW key \in DOMAIN states' \ queued' PROVE Visited(key)'
  <2>1. Visited(key) /\ Stays(key) /\ key \in DOMAIN states
    BY <1>2 DEF Settling, Stays
  <2>. QED
    BY <1>2, <1>3, <2>1, VisitedStays
<1>5. verdict' = "complete" => ~Blocked'
  <2>1. Blocked' <=> Blocked
    BY <1>2 DEF Blocked, Reached
  <2>2. verdict' = "complete" => ~Blocked
    BY DEF Decide, vars, Settling
  <2>. QED
    BY <2>1, <2>2
<1>6. RootsJoined'
  BY <1>3, RootsStay DEF Settling
<1>. QED
  BY <1>2, <1>4, <1>5, <1>6 DEF Settling, IsTable, HasNonlocal

\* At the start every key is queued.
LEMMA InitSettling == Init => Settling
<1> SUFFICES ASSUME Init PROVE Settling
  OBVIOUS
<1>1. IsTable(states) /\ DOMAIN states = RootKeys
  BY DEF Init, RootStates, IsTable
<1>2. IsTable(<<>>) /\ DOMAIN <<>> = {}
  BY DEF IsTable
<1>3. RootsJoined
  BY StateBelowItself DEF RootsJoined, Init, RootStates
<1>. QED
  BY <1>1, <1>2, <1>3 DEF Init, Settling

\* Every step of the construction keeps the invariant.
LEMMA NextKeepsSettling == Typed /\ Settling /\ [Next]_vars => Settling'
BY NextKeepsType, VisitKeepsSettling, FlushKeepsSettling, DecideKeepsSettling DEF Next

(* A closure is settled when it is complete: nothing is queued or deferred *)
(* then, so that every key is visited and stays so.                        *)
THEOREM ClosureSettles == Spec => []Settling
BY InitType, NextKeepsType, InitSettling, NextKeepsSettling, PTL DEF Spec

-----------------------------------------------------------------------------
(* A complete closure is a fixed point, when it has no nonlocal transfer.  *)

\* To enqueue again what has been followed changes no state.
LEMMA FollowedAgain ==
  ASSUME Typed, Settling, queued = {}, blockers = {},
         NEW E \in SUBSET Followed, \A e \in E : Absorbed(e)
  PROVE  StatesAfter(E) = states /\ EdgesOf(E) \subseteq edges
<1>1. \A e \in E : e \in Inside(E)
  BY DEF Absorbed, Inside
<1>2. \A e \in Inside(E) : Key(e) \in DOMAIN states /\ StateBelow(e.state, states[Key(e)])
                           /\ e.state \in States
  BY DEF Absorbed, Inside, Followed
<1>3. EdgesOf(E) \subseteq edges
  BY DEF EdgesOf, Absorbed, Inside
<1> DEFINE S(key) == {e.state : e \in {f \in Inside(E) : Key(f) = key}}
                     \cup (IF key \in DOMAIN states THEN {states[key]} ELSE {})
<1>4. DOMAIN states \cup {Key(e) : e \in Inside(E)} = DOMAIN states
  BY <1>2
<1>5. StatesAfter(E) = [key \in DOMAIN states |-> JoinStates(S(key))]
  BY <1>4 DEF StatesAfter
<1>6. ASSUME NEW key \in DOMAIN states PROVE JoinStates(S(key)) = states[key]
  <2>1. states[key] \in States /\ NormalState(states[key])
    BY DEF Typed, TypeOK, PartialFunction, Settling
  <2>2. S(key) \in SUBSET States /\ states[key] \in S(key)
    BY <1>2, <2>1
  <2>3. \A s \in S(key) : StateBelow(s, states[key])
    BY <1>2, StateBelowItself
  <2> HIDE DEF S
  <2>. QED
    BY <2>1, <2>2, <2>3, JoinedStateAbsorbs
<1> HIDE DEF S
<1>7. StatesAfter(E) = [key \in DOMAIN states |-> states[key]]
  BY <1>5, <1>6
<1>8. states = [key \in DOMAIN states |-> states[key]]
  BY DEF Settling, IsTable
<1>. QED
  BY <1>3, <1>7, <1>8

\* Another visit of a key of a complete closure changes nothing.
LEMMA SettledKey ==
  ASSUME Typed, Settling, ~HasNonlocal, verdict = "complete", NEW key \in DOMAIN states
  PROVE  /\ StatesAfter(VisitEdges(key)) = states
         /\ EdgesOf(VisitEdges(key)) \subseteq edges
         /\ SummariesAfter(key) = summaries
         /\ FailuresAfter(key) = failures /\ IndirectAfter(key) = indirect
         /\ EscapesAfter(key) = escapes /\ FramesAfter(key) = frames
         /\ KeptBack(key) = {}
<1>1. /\ queued = {} /\ deferred = {} /\ blockers = {} /\ failures = {}
      /\ \A u \in DOMAIN escapes : escapes[u].known
  BY DEF Settling, Blocked
<1>2. Visited(key) /\ key[1] \in Units
  BY <1>1 DEF Settling, Typed, IInv
<1>3. ~Nonlocal(key)
  BY <1>2 DEF Nonlocal, HasNonlocal
<1>4. \A e \in LocalEdges(key) : Absorbed(e)
  BY <1>1, <1>2 DEF Visited, EdgesTaken
<1>5. StatesAfter(VisitEdges(key)) = states /\ EdgesOf(VisitEdges(key)) \subseteq edges
  <2>1. VisitEdges(key) \subseteq LocalEdges(key)
    BY <1>3 DEF VisitEdges, LocalEdges, DirectEdges, NonlocalEdges
  <2>2. VisitEdges(key) \in SUBSET Followed
    BY VisitEdgesType
  <2>. QED
    BY <1>1, <1>4, <2>1, <2>2, FollowedAgain
<1>6. KeptBack(key) = {}
  BY <1>1, <1>4 DEF KeptBack, LocalEdges, Absorbed
<1>7. SummariesAfter(key) = summaries
  <2> DEFINE c == key[2]
             now == EffectSummary(Out(key))
             S == {now} \cup {summaries[c]}
  <2>1. CASE Returns(key)
    <3>1. c \in DOMAIN summaries /\ StateBelow(now, summaries[c])
      BY <1>2, <2>1 DEF Visited, ReturnTaken
    <3>2. summaries[c] \in States /\ NormalState(summaries[c]) /\ IsTable(summaries)
      BY <3>1 DEF Typed, TypeOK, PartialFunction, Settling
    <3>3. now \in States
      BY OutType, ClosureAssumption DEF EffectSummary, States
    <3>4. SummariesAfter(key)
            = [x \in DOMAIN summaries |-> IF x = c THEN JoinStates(S) ELSE summaries[x]]
      <4>1. DOMAIN summaries \cup {c} = DOMAIN summaries
        BY <3>1
      <4>. QED
        BY <2>1, <3>1, <4>1 DEF SummariesAfter
    <3> HIDE DEF now, c
    <3>5. JoinStates(S) = summaries[c]
      <4>1. S \in SUBSET States /\ summaries[c] \in S
        BY <3>2, <3>3
      <4>2. \A s \in S : StateBelow(s, summaries[c])
        BY <3>1, StateBelowItself
      <4> HIDE DEF S
      <4>. QED
        BY <3>2, <4>1, <4>2, JoinedStateAbsorbs
    <3> HIDE DEF S
    <3>. QED
      BY <3>2, <3>4, <3>5 DEF IsTable
  <2>2. CASE ~Returns(key)
    BY <2>2 DEF SummariesAfter
  <2>. QED
    BY <2>1, <2>2
<1>8. FailuresAfter(key) = failures
  BY <1>1, <1>2, <1>3 DEF FailuresAfter, NonlocalFails, Visited
<1>9. IndirectAfter(key) = indirect
  <2> DEFINE sites == {x \in {<<key, "terminator">>} : JumpResolved(key)}
                      \cup {x \in {<<key, "call">>} : program[key[1]].call = "indirect"}
             value(x) == CASE x \notin sites -> indirect[x]
                           [] x \in sites /\ x[2] = "terminator" -> JumpResolution(key)
                           [] x \in sites /\ x[2] = "call" -> Targets(key)
  <2>1. IndirectAfter(key) = [x \in DOMAIN indirect \cup sites |-> value(x)]
    BY DEF IndirectAfter
  <2>2. \A x \in sites : x \in DOMAIN indirect /\ value(x) = indirect[x]
    BY <1>2 DEF Visited, JumpTaken, CallTaken
  <2>3. \A x : x \notin sites => value(x) = indirect[x]
    OBVIOUS
  <2>4. IsTable(indirect)
    BY DEF Settling
  <2> HIDE DEF sites, value
  <2>5. DOMAIN indirect \cup sites = DOMAIN indirect
    BY <2>2
  <2>6. \A x \in DOMAIN indirect : value(x) = indirect[x]
    BY <2>2, <2>3
  <2>. QED
    BY <2>1, <2>4, <2>5, <2>6 DEF IsTable
<1>10. EscapesAfter(key) = escapes
  <2> DEFINE u == key[1]
             found == EscapeFound(key)
             old == IF u \in DOMAIN escapes THEN escapes[u] ELSE found
             new == IF old.known /\ found.known
                    THEN Resolution(TRUE, old.guest \cup found.guest, FALSE) ELSE Unresolved
  <2>1. CASE Escapes(key)
    <3>1. EscapesAfter(key)
            = [x \in DOMAIN escapes \cup {u} |-> IF x = u THEN new ELSE escapes[x]]
      BY <2>1 DEF EscapesAfter, EscapeFound
    <3>2. /\ u \in DOMAIN escapes /\ escapes[u].known /\ found.known
          /\ found.guest \subseteq escapes[u].guest /\ ~escapes[u].external
          /\ escapes[u] \in Resolutions /\ IsTable(escapes)
      BY <1>1, <1>2, <2>1
      DEF Visited, EscapeTaken, Settling, Typed, TypeOK, PartialFunction
    <3> HIDE DEF found
    <3>3. new = Resolution(TRUE, escapes[u].guest \cup found.guest, FALSE)
      BY <3>2
    <3>4. escapes[u].guest \cup found.guest = escapes[u].guest
      BY <3>2
    <3>5. escapes[u] = Resolution(TRUE, escapes[u].guest, FALSE)
      BY <3>2 DEF Resolutions, Resolution
    <3> HIDE DEF new, u
    <3>6. DOMAIN escapes \cup {u} = DOMAIN escapes
      BY <3>2
    <3>. QED
      BY <3>1, <3>2, <3>3, <3>4, <3>5, <3>6 DEF IsTable
  <2>2. CASE ~Escapes(key)
    BY <2>2 DEF EscapesAfter
  <2>. QED
    BY <2>1, <2>2
<1>11. FramesAfter(key) = frames
  BY DEF FramesAfter, Settling, IsTable
<1>. QED
  BY <1>5, <1>6, <1>7, <1>8, <1>9, <1>10, <1>11
-----------------------------------------------------------------------------
(* The call frames are as many as the visits have recorded: finitely many. *)

\* A transfer has finitely many callees.
LEMMA CalleesFinite ==
  ASSUME Typed, NEW key \in DOMAIN states
  PROVE  IsFiniteSet({<<c, key>> : c \in Callees(key)})
<1> DEFINE G == Targets(key).guest
           F == {<<c, key>> : c \in Callees(key)}
           f == [g \in G |-> <<Child(key[2], g, key[1]), key>>]
<1>1. IsFiniteSet(G)
  <2>1. IsFiniteSet(Addresses)
    BY ClosureAssumption, FS_AddElement DEF ClosureAssumption, Addresses
  <2>2. G \in SUBSET Addresses
    BY StartType
  <2> HIDE DEF G
  <2>. QED
    BY <2>1, <2>2, FS_Subset
<1>2. \A g \in G : f[g] \in F
  BY DEF Callees
<1>3. \A x \in F : \E g \in G : f[g] = x
  BY DEF Callees
<1> HIDE DEF G, F
<1>4. f \in Surjection(G, F)
  BY <1>2, <1>3 DEF Surjection
<1> HIDE DEF f
<1>5. IsFiniteSet(F)
  BY <1>1, <1>4, FS_Surjection
<1>. QED
  BY <1>5 DEF F

\* A step of the construction keeps the frames finite.
LEMMA FramesStayFinite ==
  ASSUME Typed, IsFiniteSet(DOMAIN frames), [Next]_vars PROVE IsFiniteSet(DOMAIN frames')
<1>1. ASSUME NEW key \in queued, Visit(key) PROVE IsFiniteSet(DOMAIN frames')
  <2> DEFINE new == IF HasNonlocal THEN {<<c, key>> : c \in Callees(key)} ELSE {}
  <2>1. key \in DOMAIN states
    BY DEF Typed, IInv
  <2>2. IsFiniteSet(new)
    BY <2>1, CalleesFinite, FS_EmptySet
  <2>3. DOMAIN frames' = DOMAIN frames \cup new
    BY <1>1 DEF Visit, FramesAfter
  <2> HIDE DEF new
  <2>. QED
    BY <2>2, <2>3, FS_Union
<1>2. CASE Flush \/ Decide \/ UNCHANGED vars
  BY <1>2 DEF Flush, Decide, vars, worklist
<1>. QED
  BY <1>1, <1>2 DEF Next
=============================================================================
