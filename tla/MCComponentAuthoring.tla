---------------------- MODULE MCComponentAuthoring ----------------------
(***************************************************************************)
(* Instances of ComponentAuthoring.  Two appliers adopt different          *)
(* components: `reviewed' changes an interface, the index that names it    *)
(* and the intent, `other' changes the index and adds a relation.  They    *)
(* read, and therefore recheck, each other's files through the index.  Two *)
(* starters start the same component.                                      *)
(***************************************************************************)
EXTENDS ComponentAuthoring, TLC

CONSTANTS reviewed, other, starter, rival, edit,
          intent, index, interface, relation, source

MCOriginal == [f \in Paths |-> IF f \in {relation, source} THEN Absent ELSE {Base}]
MCInputs == reviewed :> <<intent, index, interface>>
            @@ other :> <<intent, index, interface, relation>>
MCUpdates == reviewed :> <<interface, index, intent>> @@ other :> <<index, relation>>
MCReviewed == reviewed :> {interface} @@ other :> {relation}
MCSource == [p \in Starters |-> source]

StarterSymmetry == Permutations({starter, rival})

\* The interrupted start needs one applier only.
OneApplier(f) == [p \in Appliers |-> f[p]]
MCInputsOne == OneApplier(MCInputs)
MCUpdatesOne == OneApplier(MCUpdates)
MCReviewedOne == OneApplier(MCReviewed)
=========================================================================
