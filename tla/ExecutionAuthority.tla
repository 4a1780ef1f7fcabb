------------------------ MODULE ExecutionAuthority ------------------------
(***************************************************************************)
(* What an execution closure promises to whoever executes the module: a    *)
(* set of units and edges that grows until it is decided, once and for     *)
(* good; execution that only begins under a complete decision, at a root   *)
(* or at code that was given away; and a stack of activations that gets a  *)
(* new unit only at the end of an edge of the closure.                     *)
(***************************************************************************)
EXTENDS Sequences, Integers

CONSTANTS Units, Roots

VARIABLES
  units, edges,  \* what may run, [source, target, kind] of the ways there
  decision,      \* "open", then "complete" or "incomplete"
  running        \* the units of the activations, the running one last

vars == <<units, edges, decision, running>>

Init == units = Roots /\ edges = {} /\ decision = "open" /\ running = <<>>

\* More is found to be reachable, over edges between reachable units.
Discover ==
  /\ decision = "open"
  /\ units \subseteq units' /\ edges \subseteq edges'
  /\ units' = Roots \cup {e.target : e \in edges'}
  /\ units' \subseteq Units
  /\ \A e \in edges' : e.source \in units'
  /\ UNCHANGED <<decision, running>>

Decide ==
  /\ decision = "open"
  /\ decision' \in {"complete", "incomplete"}
  /\ UNCHANGED <<units, edges, running>>

Entrances == Roots \cup {e.target : e \in {x \in edges : x.kind = "callback_escape"}}

Enter ==
  /\ decision = "complete" /\ running = <<>>
  /\ \E u \in Entrances : running' = <<u>>
  /\ UNCHANGED <<units, edges, decision>>

\* Some activations may end, and one unit begins at the end of an edge.
Follow(e) ==
  /\ \E n \in 0..Len(running) : running' = Append(SubSeq(running, 1, n), e.target)
  /\ UNCHANGED <<units, edges, decision>>

EndSome ==
  /\ \E n \in 0..Len(running) - 1 : running' = SubSeq(running, 1, n)
  /\ UNCHANGED <<units, edges, decision>>

Next ==
  \/ Discover \/ Decide \/ Enter \/ EndSome
  \/ running # <<>> /\ \E e \in edges : Follow(e)

Spec == Init /\ [][Next]_vars
=============================================================================
