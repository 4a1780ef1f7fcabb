---------------------- MODULE ComponentAuthoringProofs ----------------------
(***************************************************************************)
(* Type correctness of the authoring transactions, and the lock: a process *)
(* between its first and its last step holds it, and nobody else does.     *)
(* Cursors stay within the files a command reads or replaces.  All of it   *)
(* for any number of processes, files and edits.                           *)
(***************************************************************************)
EXTENDS ComponentAuthoring, TLAPS

ApplierSteps == {"start", "pending", "read", "stage", "journal", "recheck", "install",
                 "rollback", "restore", "cleanup", "done"}
StarterSteps == {"start", "exists", "source", "intent", "undo", "done"}

Outside == {"start", "done"}

\* Where p can be in its command.
Phase(p) ==
  /\ p \in Appliers => pc[p] \in ApplierSteps
  /\ p \in Starters => pc[p] \in StarterSteps
  /\ pc[p] = "recheck" => cursor[p] \in 1..Len(Inputs[p])
  /\ pc[p] \in {"install", "rollback", "restore"} => cursor[p] \in 1..Len(Updates[p])

Holding == \A p \in Processes : lock = p <=> pc[p] \notin Outside

Typed == TypeOK /\ Holding /\ \A p \in Processes : Phase(p)

\* What every step of p leaves alone, and what it may do with the lock.
Spares(p) ==
  /\ \A x \in Processes \ {p} :
       /\ pc'[x] = pc[x] /\ cursor'[x] = cursor[x]
       /\ originals'[x] = originals[x] /\ result'[x] = result[x]
  /\ \A x \in Appliers \ {p} : staging'[x] = staging[x]
  /\ made' = made

LockStep(p) ==
  \/ lock = p /\ lock' = p /\ pc'[p] \notin Outside
  \/ lock = p /\ lock' = Nobody /\ pc'[p] \in Outside
  \/ lock = Nobody /\ lock' = p /\ pc'[p] \notin Outside
  \/ lock # p /\ lock' = lock /\ pc'[p] \in Outside

Proper(p) == TypeOK' /\ Spares(p) /\ LockStep(p) /\ Phase(p)'

-----------------------------------------------------------------------------
\* What the configuration says of the files of a command.
LEMMA InputFacts ==
  ASSUME NEW p \in Appliers
  PROVE  /\ p \in Processes /\ p \notin Starters
         /\ Len(Inputs[p]) \in Nat /\ DOMAIN Inputs[p] = 1..Len(Inputs[p])
         /\ Len(Inputs[p]) >= 1
         /\ \A i \in 1..Len(Inputs[p]) : Inputs[p][i] \in Paths
<1>1. /\ Inputs[p] \in Seq(Paths) /\ Updates[p] \in Seq(Paths) /\ Updates[p] # <<>>
      /\ Range(Updates[p]) \subseteq Range(Inputs[p]) /\ p \notin Starters
  BY AuthoringAssumption DEF AuthoringAssumption
<1>2. Len(Updates[p]) \in Nat /\ DOMAIN Updates[p] = 1..Len(Updates[p]) /\ Len(Updates[p]) # 0
  BY <1>1
<1>3. Updates[p][1] \in Range(Inputs[p])
  <2>1. 1 \in DOMAIN Updates[p]
    BY <1>2
  <2>. QED
    BY <1>1, <2>1 DEF Range
<1>4. \E i \in 1..Len(Inputs[p]) : TRUE
  BY <1>1, <1>3 DEF Range
<1>. QED
  BY <1>1, <1>4 DEF Processes

\* The files an applier replaces are distinct, and it reads them all.
LEMMA UpdateFacts ==
  ASSUME NEW p \in Appliers
  PROVE  /\ Len(Updates[p]) \in Nat /\ DOMAIN Updates[p] = 1..Len(Updates[p])
         /\ Len(Updates[p]) >= 1
         /\ \A i \in 1..Len(Updates[p]) :
              Updates[p][i] \in Paths /\ \E j \in 1..Len(Inputs[p]) : Updates[p][i] = Inputs[p][j]
         /\ \A i, j \in 1..Len(Updates[p]) : Updates[p][i] = Updates[p][j] => i = j
<1>1. /\ Inputs[p] \in Seq(Paths) /\ Updates[p] \in Seq(Paths) /\ Updates[p] # <<>>
      /\ Range(Updates[p]) \subseteq Range(Inputs[p]) /\ IsInjective(Updates[p])
  BY AuthoringAssumption DEF AuthoringAssumption
<1>2. /\ Len(Updates[p]) \in Nat /\ DOMAIN Updates[p] = 1..Len(Updates[p]) /\ Len(Updates[p]) # 0
      /\ DOMAIN Inputs[p] = 1..Len(Inputs[p])
      /\ \A i \in 1..Len(Updates[p]) : Updates[p][i] \in Paths
  BY <1>1
<1>3. \A i \in 1..Len(Updates[p]) : \E j \in 1..Len(Inputs[p]) : Updates[p][i] = Inputs[p][j]
  BY <1>1, <1>2 DEF Range
<1>4. \A i, j \in 1..Len(Updates[p]) : Updates[p][i] = Updates[p][j] => i = j
  BY <1>1, <1>2 DEF IsInjective
<1>. QED
  BY <1>2, <1>3, <1>4

\* The files of a start.
LEMMA StarterFacts ==
  ASSUME NEW p \in Starters
  PROVE  /\ p \in Processes /\ p \notin Appliers
         /\ Source[p] \in Paths /\ Source[p] # Intent /\ Intent \in Paths
BY AuthoringAssumption DEF AuthoringAssumption, Processes

\* A process is none of the other values a file may carry, nor the free lock.
LEMMA ProcessFacts ==
  ASSUME NEW p \in Processes
  PROVE  p # Nobody /\ p # Base /\ p \notin Edits /\ p \in Changes
BY AuthoringAssumption DEF AuthoringAssumption, Changes

\* Contents are sets of changes; what p derives is one.
LEMMA UpdatedType ==
  ASSUME TypeOK, NEW p \in Processes, NEW f \in Paths
  PROVE  Updated(p, f) \in Contents
BY DEF TypeOK, Updated, Contents, Changes

\* What Goto, End and Put say of the functions they change.
LEMMA GotoFacts ==
  ASSUME TypeOK, NEW p \in Processes, NEW step \in Steps, NEW i \in Nat \ {0}, Goto(p, step, i)
  PROVE  /\ pc'[p] = step /\ cursor'[p] = i
         /\ \A x \in Processes \ {p} : pc'[x] = pc[x] /\ cursor'[x] = cursor[x]
         /\ pc' \in [Processes -> Steps] /\ cursor' \in [Processes -> Nat \ {0}]
BY DEF TypeOK, Goto

Results == {"none", "applied", "failed", "refused", "interrupted", "unrestored", "crashed"}

\* What an assignment of a result says.
LEMMA ResultFacts ==
  ASSUME TypeOK, NEW p \in Processes, NEW r \in Results, result' = [result EXCEPT ![p] = r]
  PROVE  /\ result'[p] = r /\ \A x \in Processes \ {p} : result'[x] = result[x]
         /\ result' \in [Processes -> Results]
BY DEF TypeOK, Results

\* What the end of a command says.
LEMMA EndFacts ==
  ASSUME TypeOK, NEW p \in Processes, NEW r \in Results, End(p, r)
  PROVE  /\ pc'[p] = "done" /\ result'[p] = r /\ lock' = Nobody
         /\ \A x \in Processes \ {p} :
              pc'[x] = pc[x] /\ cursor'[x] = cursor[x] /\ result'[x] = result[x]
         /\ pc' \in [Processes -> Steps] /\ cursor' \in [Processes -> Nat \ {0}]
         /\ result' \in [Processes -> Results]
<1>1. Goto(p, "done", 1) /\ result' = [result EXCEPT ![p] = r] /\ lock' = Nobody
  BY DEF End
<1>2. "done" \in Steps /\ 1 \in Nat \ {0}
  BY DEF Steps
<1>3. /\ pc'[p] = "done" /\ \A x \in Processes \ {p} : pc'[x] = pc[x] /\ cursor'[x] = cursor[x]
      /\ pc' \in [Processes -> Steps] /\ cursor' \in [Processes -> Nat \ {0}]
  BY <1>1, <1>2, GotoFacts
<1>4. /\ result'[p] = r /\ \A x \in Processes \ {p} : result'[x] = result[x]
      /\ result' \in [Processes -> Results]
  BY <1>1, ResultFacts
<1>. QED
  BY <1>1, <1>3, <1>4

\* What a write says of all the files.
LEMMA PutFacts ==
  ASSUME TypeOK, NEW f \in Paths, NEW c \in Contents, Put(f, c)
  PROVE  /\ files'[f] = c /\ \A g \in Paths \ {f} : files'[g] = files[g]
         /\ files' \in [Paths -> Contents]
BY DEF TypeOK, Put

\* What a look at a file says of all the histories.
LEMMA LookedFacts ==
  ASSUME TypeOK, NEW f \in Paths, Looked(f)
  PROVE  /\ unseen'[f] = {} /\ \A g \in Paths \ {f} : unseen'[g] = unseen[g]
         /\ unseen' \in [Paths -> SUBSET Edits]
BY DEF TypeOK, Looked

Stagings == {"none", "partial", "journalled", "torn"}

\* What a change of a staging directory says of all of them.
LEMMA StagingFacts ==
  ASSUME TypeOK, NEW p \in Appliers, NEW s \in Stagings, staging' = [staging EXCEPT ![p] = s]
  PROVE  /\ staging'[p] = s /\ \A x \in Appliers \ {p} : staging'[x] = staging[x]
         /\ staging' \in [Appliers -> Stagings]
BY DEF TypeOK, Stagings

\* The lock belongs to a process that is inside its command.
LEMMA HolderFacts ==
  ASSUME Typed, NEW p \in Processes, pc[p] \notin Outside
  PROVE  lock = p
BY DEF Typed, Holding

-----------------------------------------------------------------------------
\* A proper step of p keeps the others' invariants.
LEMMA ProperKeepsTyped ==
  ASSUME Typed, NEW p \in Processes, Proper(p)
  PROVE  Typed'
<1>1. \A x \in Processes : Phase(x)'
  BY DEF Proper, Spares, Typed, Phase
<1>2. \A x \in Processes : x # Nobody
  BY ProcessFacts
<1>3. Holding'
  BY <1>2 DEF Proper, Spares, LockStep, Typed, Holding
<1>. QED
  BY <1>1, <1>3 DEF Typed, Proper

\* The parts of the state that a step of p changes besides its position.
Kept(p) ==
  /\ files' \in [Paths -> Contents] /\ unseen' \in [Paths -> SUBSET Edits]
  /\ staging' \in [Appliers -> Stagings]
  /\ originals' \in [Processes -> [Paths -> Contents]]
  /\ \A x \in Processes \ {p} : originals'[x] = originals[x]
  /\ \A x \in Appliers \ {p} : staging'[x] = staging[x]
  /\ made' = made

ResultKept(p) ==
  /\ result' \in [Processes -> Results]
  /\ \A x \in Processes \ {p} : result'[x] = result[x]

\* Where a command of p may be with cursor i.
Place(p, step, i) ==
  /\ step \in Steps \ Outside /\ i \in Nat \ {0}
  /\ p \in Appliers => step \in ApplierSteps
  /\ p \in Starters => step \in StarterSteps
  /\ step = "recheck" => i \in 1..Len(Inputs[p])
  /\ step \in {"install", "rollback", "restore"} => i \in 1..Len(Updates[p])

\* A command that goes on, with the lock it has or has taken.
LEMMA GoesOn ==
  ASSUME Typed, NEW p \in Processes, NEW step, NEW i, Place(p, step, i),
         Goto(p, step, i), lock \in {p, Nobody}, lock' = p, Kept(p), ResultKept(p)
  PROVE  Proper(p)
<1>1. step \in Steps /\ i \in Nat \ {0} /\ TypeOK
  BY DEF Place, Typed
<1>2. /\ pc'[p] = step /\ cursor'[p] = i
      /\ \A x \in Processes \ {p} : pc'[x] = pc[x] /\ cursor'[x] = cursor[x]
      /\ pc' \in [Processes -> Steps] /\ cursor' \in [Processes -> Nat \ {0}]
  BY <1>1, GotoFacts
<1>3. TypeOK'
  BY <1>1, <1>2 DEF TypeOK, Kept, ResultKept, Results, Stagings
<1>4. Spares(p)
  BY <1>2 DEF Spares, Kept, ResultKept
<1>5. LockStep(p)
  BY <1>2 DEF LockStep, Place
<1>6. Phase(p)'
  BY <1>2 DEF Phase, Place
<1>. QED
  BY <1>3, <1>4, <1>5, <1>6 DEF Proper

\* A command that ends.
LEMMA Ends ==
  ASSUME Typed, NEW p \in Processes, pc[p] \notin Outside, NEW r \in Results, End(p, r), Kept(p)
  PROVE  Proper(p) /\ ResultKept(p) /\ pc'[p] = "done" /\ result'[p] = r
<1>1. TypeOK /\ lock = p
  BY HolderFacts DEF Typed
<1>2. /\ pc'[p] = "done" /\ result'[p] = r /\ lock' = Nobody
      /\ \A x \in Processes \ {p} :
           pc'[x] = pc[x] /\ cursor'[x] = cursor[x] /\ result'[x] = result[x]
      /\ pc' \in [Processes -> Steps] /\ cursor' \in [Processes -> Nat \ {0}]
      /\ result' \in [Processes -> Results]
  BY <1>1, EndFacts
<1>3. TypeOK'
  BY <1>1, <1>2 DEF TypeOK, Kept, Results, Stagings
<1>4. Spares(p)
  BY <1>2 DEF Spares, Kept
<1>5. LockStep(p)
  BY <1>1, <1>2 DEF LockStep, Outside
<1>6. Phase(p)'
  BY <1>2 DEF Phase, ApplierSteps, StarterSteps
<1>. QED
  BY <1>2, <1>3, <1>4, <1>5, <1>6 DEF Proper, ResultKept

\* What a step leaves alone is kept.
LEMMA Untouched ==
  ASSUME Typed, NEW p \in Processes
  PROVE  /\ UNCHANGED result => ResultKept(p)
         /\ \A r \in Results : result' = [result EXCEPT ![p] = r] => ResultKept(p) /\ result'[p] = r
         /\ UNCHANGED <<files, staging, originals, made, unseen>> => Kept(p)
<1>1. TypeOK
  BY DEF Typed
<1>2. UNCHANGED result => ResultKept(p)
  BY <1>1 DEF TypeOK, ResultKept, Results
<1>3. ASSUME NEW r \in Results, result' = [result EXCEPT ![p] = r] PROVE ResultKept(p) /\ result'[p] = r
  BY <1>1, <1>3, ResultFacts DEF ResultKept
<1>4. UNCHANGED <<files, staging, originals, made, unseen>> => Kept(p)
  BY <1>1 DEF TypeOK, Kept, Stagings
<1>. QED
  BY <1>2, <1>3, <1>4

-----------------------------------------------------------------------------
\* The lock is taken, or the command is refused.
LEMMA BeginProper == ASSUME Typed, NEW p \in Processes, Begin(p) PROVE Proper(p)
<1>1. Kept(p) /\ lock # p /\ TypeOK
  BY Untouched DEF Begin, Typed, Holding, Outside
<1>2. CASE LockFree
  <2>1. ResultKept(p) /\ lock = Nobody /\ lock' = p
    BY <1>2, Untouched DEF Begin, LockFree
  <2>2. Goto(p, IF p \in Appliers THEN "pending" ELSE "exists", 1)
    BY <1>2 DEF Begin
  <2>3. Place(p, IF p \in Appliers THEN "pending" ELSE "exists", 1)
    BY InputFacts DEF Place, Steps, Outside, ApplierSteps, StarterSteps, Processes
  <2>. QED
    BY <1>1, <2>1, <2>2, <2>3, GoesOn
<1>3. CASE ~LockFree
  <2>1. Goto(p, "done", 1) /\ result' = [result EXCEPT ![p] = "refused"] /\ lock' = lock
    BY <1>3 DEF Begin
  <2>2. /\ pc'[p] = "done" /\ \A x \in Processes \ {p} : pc'[x] = pc[x] /\ cursor'[x] = cursor[x]
        /\ pc' \in [Processes -> Steps] /\ cursor' \in [Processes -> Nat \ {0}]
    BY <1>1, <2>1, GotoFacts DEF Steps
  <2>3. ResultKept(p)
    BY <2>1, Untouched DEF Results
  <2>4. TypeOK'
    BY <1>1, <2>1, <2>2, <2>3 DEF TypeOK, Kept, ResultKept, Results, Stagings
  <2>5. Spares(p)
    BY <1>1, <2>2, <2>3 DEF Spares, Kept, ResultKept
  <2>. QED
    BY <1>1, <2>1, <2>2, <2>4, <2>5
    DEF Proper, LockStep, Phase, Outside, ApplierSteps, StarterSteps
<1>. QED
  BY <1>2, <1>3

\* The steps of an application before its first replacement.
LEMMA PreparationProper ==
  ASSUME Typed, NEW p \in Appliers,
         \/ CheckPending(p) \/ ReadInput(p) \/ CheckBaseline(p) \/ MakeStaging(p) \/ WriteJournal(p)
  PROVE  Proper(p)
<1>1. TypeOK /\ p \in Processes /\ p \notin Starters /\ Len(Inputs[p]) \in Nat /\ Len(Inputs[p]) >= 1
  BY InputFacts DEF Typed
<1>2. pc[p] \in {"pending", "read", "stage", "journal"}
  BY DEF CheckPending, ReadInput, CheckBaseline, MakeStaging, WriteJournal
<1>3. pc[p] \notin Outside /\ lock = p
  BY <1>1, <1>2, HolderFacts DEF Outside
<1>4. CASE CheckPending(p)
  <2>1. Kept(p)
    BY <1>1, <1>4, Untouched DEF CheckPending
  <2>2. CASE End(p, "refused")
    BY <1>1, <1>3, <2>1, <2>2, Ends DEF Results
  <2>3. CASE Goto(p, "read", 1) /\ UNCHANGED <<lock, result>>
    <3>1. Place(p, "read", 1) /\ ResultKept(p)
      BY <1>1, <2>3, Untouched DEF Place, Steps, Outside, ApplierSteps
    <3>. QED
      BY <1>1, <1>3, <2>1, <2>3, <3>1, GoesOn
  <2>. QED
    BY <1>4, <2>2, <2>3 DEF CheckPending
<1>5. CASE ReadInput(p)
  <2> DEFINE f == Inputs[p][cursor[p]]
  <2>1. cursor[p] \in 1..Len(Inputs[p]) /\ cursor[p] + 1 \in Nat \ {0} /\ f \in Paths
    BY <1>1, <1>5, InputFacts DEF ReadInput, TypeOK
  <2>2. originals' = [originals EXCEPT ![p][f] = files[f]] /\ Looked(f)
    BY <1>5 DEF ReadInput
  <2>3. unseen' \in [Paths -> SUBSET Edits]
    BY <1>1, <2>1, <2>2, LookedFacts
  <2>4. /\ originals' \in [Processes -> [Paths -> Contents]]
        /\ \A x \in Processes \ {p} : originals'[x] = originals[x]
    BY <1>1, <2>1, <2>2 DEF TypeOK
  <2>5. Kept(p) /\ ResultKept(p)
    BY <1>1, <1>5, <2>3, <2>4, Untouched DEF ReadInput, Kept, TypeOK, Stagings
  <2>6. Place(p, "read", cursor[p] + 1)
    BY <1>1, <2>1 DEF Place, Steps, Outside, ApplierSteps
  <2>7. Goto(p, "read", cursor[p] + 1) /\ lock' = p
    BY <1>3, <1>5 DEF ReadInput
  <2>. QED
    BY <1>1, <1>3, <2>5, <2>6, <2>7, GoesOn
<1>6. CASE CheckBaseline(p)
  <2>1. Kept(p)
    BY <1>1, <1>6, Untouched DEF CheckBaseline
  <2>2. CASE End(p, "refused")
    BY <1>1, <1>3, <2>1, <2>2, Ends DEF Results
  <2>3. CASE Goto(p, "stage", 1) /\ UNCHANGED <<lock, result>>
    <3>1. Place(p, "stage", 1) /\ ResultKept(p)
      BY <1>1, <2>3, Untouched DEF Place, Steps, Outside, ApplierSteps
    <3>. QED
      BY <1>1, <1>3, <2>1, <2>3, <3>1, GoesOn
  <2>. QED
    BY <1>6, <2>2, <2>3 DEF CheckBaseline
<1>7. CASE MakeStaging(p)
  <2>1. /\ staging'[p] = "partial" /\ \A x \in Appliers \ {p} : staging'[x] = staging[x]
        /\ staging' \in [Appliers -> Stagings]
    BY <1>1, <1>7, StagingFacts DEF MakeStaging, Stagings
  <2>2. Kept(p) /\ ResultKept(p)
    BY <1>1, <1>7, <2>1, Untouched DEF MakeStaging, Kept, TypeOK
  <2>3. Place(p, "journal", 1) /\ Goto(p, "journal", 1) /\ lock' = p
    BY <1>1, <1>3, <1>7 DEF MakeStaging, Place, Steps, Outside, ApplierSteps
  <2>. QED
    BY <1>1, <1>3, <2>2, <2>3, GoesOn
<1>8. CASE WriteJournal(p)
  <2>1. /\ staging'[p] = "journalled" /\ \A x \in Appliers \ {p} : staging'[x] = staging[x]
        /\ staging' \in [Appliers -> Stagings]
    BY <1>1, <1>8, StagingFacts DEF WriteJournal, Stagings
  <2>2. Kept(p) /\ ResultKept(p)
    BY <1>1, <1>8, <2>1, Untouched DEF WriteJournal, Kept, TypeOK
  <2>3. Place(p, "recheck", 1) /\ Goto(p, "recheck", 1) /\ lock' = p
    BY <1>1, <1>3, <1>8 DEF WriteJournal, Place, Steps, Outside, ApplierSteps
  <2>. QED
    BY <1>1, <1>3, <2>2, <2>3, GoesOn
<1>. QED
  BY <1>4, <1>5, <1>6, <1>7, <1>8

\* The rollback goes to the file before the i-th, or is over.
LEMMA RestoreNextProper ==
  ASSUME Typed, NEW p \in Appliers, lock = p, lock' = p,
         NEW i \in 1..Len(Updates[p]) + 1, RestoreNext(p, i), Kept(p), ResultKept(p)
  PROVE  /\ Proper(p)
         /\ i = 1 => pc'[p] = "cleanup"
         /\ i # 1 => pc'[p] = "rollback" /\ cursor'[p] = i - 1
<1>1. p \in Processes /\ p \notin Starters /\ Len(Updates[p]) \in Nat /\ TypeOK
  BY InputFacts, UpdateFacts DEF Typed
<1>2. CASE i = 1
  <2>1. Goto(p, "cleanup", 1)
    BY <1>2 DEF RestoreNext
  <2>2. Place(p, "cleanup", 1) /\ "cleanup" \in Steps /\ 1 \in Nat \ {0}
    BY <1>1 DEF Place, Steps, Outside, ApplierSteps
  <2>3. pc'[p] = "cleanup"
    BY <1>1, <2>1, <2>2, GotoFacts
  <2>. QED
    BY <1>1, <1>2, <2>1, <2>2, <2>3, GoesOn
<1>3. CASE i # 1
  <2>1. Goto(p, "rollback", i - 1)
    BY <1>3 DEF RestoreNext
  <2>2. Place(p, "rollback", i - 1) /\ "rollback" \in Steps /\ i - 1 \in Nat \ {0}
    BY <1>1, <1>3 DEF Place, Steps, Outside, ApplierSteps
  <2>3. pc'[p] = "rollback" /\ cursor'[p] = i - 1
    BY <1>1, <2>1, <2>2, GotoFacts
  <2>. QED
    BY <1>1, <1>3, <2>1, <2>2, <2>3, GoesOn
<1>. QED
  BY <1>2, <1>3

\* The file of an installation, a rollback or a check.
LEMMA CurrentFile ==
  ASSUME Typed, NEW p \in Appliers
  PROVE  /\ pc[p] = "recheck" => Inputs[p][cursor[p]] \in Paths
         /\ pc[p] \in {"install", "rollback", "restore"} => Updates[p][cursor[p]] \in Paths
<1>1. p \in Processes
  BY InputFacts
<1>. QED
  BY <1>1, InputFacts, UpdateFacts DEF Typed, Phase

\* The check before the first replacement, and the replacements.
LEMMA InstallationProper ==
  ASSUME Typed, NEW p \in Appliers, Recheck(p) \/ Install(p)
  PROVE  Proper(p)
<1>1. /\ TypeOK /\ p \in Processes /\ p \notin Starters
      /\ Len(Inputs[p]) \in Nat /\ Len(Updates[p]) \in Nat /\ Len(Updates[p]) >= 1
  BY InputFacts, UpdateFacts DEF Typed
<1>2. pc[p] \in {"recheck", "install"} /\ pc[p] \notin Outside /\ lock = p
  BY <1>1, HolderFacts DEF Recheck, Install, Outside
<1>3. CASE Recheck(p)
  <2> DEFINE f == Inputs[p][cursor[p]]
  <2>1. cursor[p] \in 1..Len(Inputs[p]) /\ f \in Paths
    BY <1>1, <1>3, CurrentFile DEF Recheck, Typed, Phase
  <2>2. unseen' \in [Paths -> SUBSET Edits]
    BY <1>1, <1>3, <2>1, LookedFacts DEF Recheck
  <2>3. Kept(p) /\ lock' = p
    BY <1>1, <1>2, <1>3, <2>2 DEF Recheck, Kept, TypeOK, Stagings
  <2>4. CASE ~Unchanged(p, f)
    <3>1. Goto(p, "cleanup", 1) /\ result' = [result EXCEPT ![p] = "failed"]
      BY <1>3, <2>4 DEF Recheck
    <3>2. Place(p, "cleanup", 1)
      BY <1>1 DEF Place, Steps, Outside, ApplierSteps
    <3>3. ResultKept(p)
      BY <1>1, <3>1, Untouched DEF Results
    <3>. QED
      BY <1>1, <1>2, <2>3, <3>1, <3>2, <3>3, GoesOn
  <2>5. CASE Unchanged(p, f)
    <3>1. ResultKept(p)
      BY <1>1, <1>3, <2>5, Untouched DEF Recheck
    <3>2. CASE cursor[p] < Len(Inputs[p])
      <4>1. Goto(p, "recheck", cursor[p] + 1)
        BY <1>3, <2>5, <3>2 DEF Recheck
      <4>2. Place(p, "recheck", cursor[p] + 1)
        BY <1>1, <2>1, <3>2 DEF Place, Steps, Outside, ApplierSteps
      <4>. QED
        BY <1>1, <1>2, <2>3, <3>1, <4>1, <4>2, GoesOn
    <3>3. CASE ~(cursor[p] < Len(Inputs[p]))
      <4>1. Goto(p, "install", 1)
        BY <1>3, <2>5, <3>3 DEF Recheck
      <4>2. Place(p, "install", 1)
        BY <1>1 DEF Place, Steps, Outside, ApplierSteps
      <4>. QED
        BY <1>1, <1>2, <2>3, <3>1, <4>1, <4>2, GoesOn
    <3>. QED
      BY <3>2, <3>3
  <2>. QED
    BY <2>4, <2>5
<1>4. CASE Install(p)
  <2> DEFINE f == Updates[p][cursor[p]]
  <2>1. cursor[p] \in 1..Len(Updates[p]) /\ f \in Paths
    BY <1>1, <1>4, CurrentFile DEF Install, Typed, Phase
  <2>2. unseen' \in [Paths -> SUBSET Edits] /\ files' \in [Paths -> Contents]
    BY <1>1, <1>4, <2>1, LookedFacts, PutFacts, UpdatedType DEF Install
  <2>3. Kept(p) /\ lock' = p
    BY <1>1, <1>2, <1>4, <2>2 DEF Install, Kept, TypeOK, Stagings
  <2>4. CASE cursor[p] < Len(Updates[p])
    <3>1. Goto(p, "install", cursor[p] + 1) /\ UNCHANGED result
      BY <1>4, <2>4 DEF Install
    <3>2. Place(p, "install", cursor[p] + 1) /\ ResultKept(p)
      BY <1>1, <2>1, <2>4, <3>1, Untouched DEF Place, Steps, Outside, ApplierSteps
    <3>. QED
      BY <1>1, <1>2, <2>3, <3>1, <3>2, GoesOn
  <2>5. CASE ~(cursor[p] < Len(Updates[p]))
    <3>1. Goto(p, "cleanup", 1) /\ result' = [result EXCEPT ![p] = "applied"]
      BY <1>4, <2>5 DEF Install
    <3>2. Place(p, "cleanup", 1)
      BY <1>1 DEF Place, Steps, Outside, ApplierSteps
    <3>3. ResultKept(p)
      BY <1>1, <3>1, Untouched DEF Results
    <3>. QED
      BY <1>1, <1>2, <2>3, <3>1, <3>2, <3>3, GoesOn
  <2>. QED
    BY <2>4, <2>5
<1>. QED
  BY <1>3, <1>4

\* A replacement that raises, and the way back.
LEMMA InstallRaisesProper ==
  ASSUME Typed, NEW p \in Appliers, NEW reached \in {"nothing", "attempt", "effect"},
         InstallRaises(p, reached)
  PROVE  Proper(p)
<1> DEFINE f == Updates[p][cursor[p]]
<1>1. /\ TypeOK /\ p \in Processes /\ Len(Updates[p]) \in Nat /\ pc[p] = "install"
      /\ lock = p /\ lock' = p
  BY InputFacts, UpdateFacts, HolderFacts DEF Typed, InstallRaises, Outside
<1>2. cursor[p] \in 1..Len(Updates[p]) /\ f \in Paths
  BY <1>1, CurrentFile DEF Typed, Phase
<1>3. unseen' \in [Paths -> SUBSET Edits] /\ files' \in [Paths -> Contents]
  BY <1>1, <1>2, LookedFacts, PutFacts, UpdatedType DEF InstallRaises, TypeOK
<1>4. Kept(p) /\ ResultKept(p)
  BY <1>1, <1>3, Untouched DEF InstallRaises, Kept, TypeOK, Stagings, Results
<1>5. FirstUnnoted(p, reached) \in 1..Len(Updates[p]) + 1
  BY <1>1, <1>2 DEF FirstUnnoted
<1>. QED
  BY <1>1, <1>4, <1>5, RestoreNextProper DEF InstallRaises

\* The steps of a rollback.
LEMMA RollbackProper ==
  ASSUME Typed, NEW p \in Appliers, Rollback(p) \/ Restore(p)
  PROVE  Proper(p)
<1> DEFINE f == Updates[p][cursor[p]]
<1>1. /\ TypeOK /\ p \in Processes /\ p \notin Starters /\ Len(Updates[p]) \in Nat
      /\ pc[p] \in {"rollback", "restore"} /\ pc[p] \notin Outside /\ lock = p
  BY InputFacts, UpdateFacts, HolderFacts DEF Typed, Rollback, Restore, Outside
<1>2. cursor[p] \in 1..Len(Updates[p]) /\ cursor[p] \in 1..Len(Updates[p]) + 1 /\ f \in Paths
  BY <1>1, CurrentFile DEF Typed, Phase
<1>3. CASE Rollback(p)
  <2>1. unseen' \in [Paths -> SUBSET Edits]
    BY <1>1, <1>2, <1>3, LookedFacts DEF Rollback
  <2>2. Kept(p)
    BY <1>1, <1>3, <2>1 DEF Rollback, Kept, TypeOK, Stagings
  <2>3. CASE RestoreNext(p, cursor[p]) /\ UNCHANGED <<lock, result>>
    BY <1>1, <1>2, <2>2, <2>3, Untouched, RestoreNextProper
  <2>4. CASE End(p, "unrestored")
    BY <1>1, <2>2, <2>4, Ends DEF Results
  <2>5. CASE Goto(p, "restore", cursor[p]) /\ UNCHANGED <<lock, result>>
    <3>1. Place(p, "restore", cursor[p]) /\ ResultKept(p)
      BY <1>1, <1>2, <2>5, Untouched DEF Place, Steps, Outside, ApplierSteps
    <3>. QED
      BY <1>1, <2>2, <2>5, <3>1, GoesOn
  <2>. QED
    BY <1>3, <2>3, <2>4, <2>5 DEF Rollback
<1>4. CASE Restore(p)
  <2>1. originals[p][f] \in Contents
    BY <1>1, <1>2 DEF TypeOK
  <2>2. unseen' \in [Paths -> SUBSET Edits] /\ files' \in [Paths -> Contents]
    BY <1>1, <1>2, <1>4, <2>1, LookedFacts, PutFacts DEF Restore
  <2>3. Kept(p) /\ ResultKept(p)
    BY <1>1, <1>4, <2>2, Untouched DEF Restore, Kept, TypeOK, Stagings
  <2>. QED
    BY <1>1, <1>2, <1>4, <2>3, RestoreNextProper DEF Restore
<1>. QED
  BY <1>3, <1>4

\* The other ways of ending an application.
LEMMA ApplyEndsProper ==
  ASSUME Typed, NEW p \in Appliers, RollbackRaises(p) \/ ApplyRaises(p) \/ Cleanup(p)
  PROVE  Proper(p)
<1>1. /\ TypeOK /\ p \in Processes /\ p \notin Starters
  BY InputFacts DEF Typed
<1>2. pc[p] \notin Outside /\ lock = p /\ result[p] \in Results
  BY <1>1, HolderFacts DEF RollbackRaises, ApplyRaises, Cleanup, Outside, TypeOK, Results
<1>3. CASE RollbackRaises(p)
  <2>1. Kept(p)
    BY <1>1, <1>3 DEF RollbackRaises, StagingAfterRollback, Kept, TypeOK, Stagings
  <2>. QED
    BY <1>1, <1>2, <1>3, <2>1, Ends DEF RollbackRaises, Results
<1>4. CASE ApplyRaises(p)
  <2>1. Kept(p)
    BY <1>1, <1>4, Untouched DEF ApplyRaises
  <2>2. CASE End(p, "failed")
    BY <1>1, <1>2, <2>1, <2>2, Ends DEF Results
  <2>3. CASE Goto(p, "cleanup", 1) /\ result' = [result EXCEPT ![p] = "failed"] /\ UNCHANGED lock
    <3>1. Place(p, "cleanup", 1)
      BY <1>1 DEF Place, Steps, Outside, ApplierSteps
    <3>2. ResultKept(p)
      BY <1>1, <2>3, Untouched DEF Results
    <3>. QED
      BY <1>1, <1>2, <2>1, <2>3, <3>1, <3>2, GoesOn
  <2>. QED
    BY <1>4, <2>2, <2>3 DEF ApplyRaises
<1>5. CASE Cleanup(p)
  <2>1. Kept(p)
    BY <1>1, <1>5, StagingFacts DEF Cleanup, Kept, TypeOK, Stagings
  <2>2. End(p, result[p]) \/ End(p, "failed")
    BY <1>5 DEF Cleanup
  <2>. QED
    BY <1>1, <1>2, <2>1, <2>2, Ends DEF Results
<1>. QED
  BY <1>3, <1>4, <1>5

\* Starting a component.
LEMMA StartProper ==
  ASSUME Typed, NEW p \in Starters, Start(p)
  PROVE  Proper(p)
<1>1. /\ TypeOK /\ p \in Processes /\ p \notin Appliers /\ Source[p] \in Paths /\ Intent \in Paths
  BY StarterFacts DEF Typed
<1>2. pc[p] \notin Outside /\ lock = p
  BY <1>1, HolderFacts
  DEF Start, PrepareStart, InstallSource, InstallIntent, StartRaises, StartInterrupted, RemoveSource, Outside
<1>3. CASE PrepareStart(p)
  <2>1. originals' = [originals EXCEPT ![p][Intent] = files[Intent]]
    BY <1>3 DEF PrepareStart
  <2>2. /\ originals' \in [Processes -> [Paths -> Contents]]
        /\ \A x \in Processes \ {p} : originals'[x] = originals[x]
    BY <1>1, <2>1 DEF TypeOK
  <2>3. Kept(p)
    BY <1>1, <1>3, <2>2 DEF PrepareStart, Kept, TypeOK, Stagings
  <2>4. CASE End(p, "refused")
    BY <1>1, <1>2, <2>3, <2>4, Ends DEF Results
  <2>5. CASE Goto(p, "source", 1) /\ UNCHANGED <<lock, result>>
    <3>1. Place(p, "source", 1) /\ ResultKept(p)
      BY <1>1, <2>5, Untouched DEF Place, Steps, Outside, StarterSteps
    <3>. QED
      BY <1>1, <1>2, <2>3, <2>5, <3>1, GoesOn
  <2>. QED
    BY <1>3, <2>4, <2>5 DEF PrepareStart
<1>4. {p} \in Contents /\ Absent \in Contents /\ Updated(p, Intent) \in Contents
  BY <1>1, UpdatedType DEF Contents, Changes, Absent
<1>5. CASE InstallSource(p)
  <2>1. files' \in [Paths -> Contents]
    BY <1>1, <1>4, <1>5, PutFacts DEF InstallSource
  <2>2. Kept(p) /\ ResultKept(p)
    BY <1>1, <1>5, <2>1, Untouched DEF InstallSource, Kept, TypeOK, Stagings
  <2>3. Place(p, "intent", 1) /\ Goto(p, "intent", 1) /\ lock' = p
    BY <1>1, <1>2, <1>5 DEF InstallSource, Place, Steps, Outside, StarterSteps
  <2>. QED
    BY <1>1, <1>2, <2>2, <2>3, GoesOn
<1>6. CASE InstallIntent(p)
  <2>1. files' \in [Paths -> Contents]
    BY <1>1, <1>4, <1>6, PutFacts DEF InstallIntent
  <2>2. Kept(p) /\ End(p, "applied")
    BY <1>1, <1>6, <2>1 DEF InstallIntent, Kept, TypeOK, Stagings
  <2>. QED
    BY <1>1, <1>2, <2>2, Ends DEF Results
<1>7. CASE StartRaises(p)
  <2>1. Kept(p)
    BY <1>1, <1>7, Untouched DEF StartRaises
  <2>2. CASE End(p, "failed") \/ End(p, "unrestored")
    BY <1>1, <1>2, <2>1, <2>2, Ends DEF Results
  <2>3. CASE Handles(p)
    <3>1. Place(p, "undo", 1)
      BY <1>1 DEF Place, Steps, Outside, StarterSteps
    <3>2. ResultKept(p)
      BY <1>1, <2>3, Untouched DEF Handles, Results
    <3>. QED
      BY <1>1, <1>2, <2>1, <2>3, <3>1, <3>2, GoesOn DEF Handles
  <2>. QED
    BY <1>7, <2>2, <2>3 DEF StartRaises
<1>8. CASE StartInterrupted(p)
  <2>1. files' \in [Paths -> Contents]
    BY <1>1, <1>4, <1>8, PutFacts DEF StartInterrupted, TypeOK
  <2>2. Kept(p) /\ End(p, "interrupted")
    BY <1>1, <1>8, <2>1 DEF StartInterrupted, Kept, TypeOK, Stagings
  <2>. QED
    BY <1>1, <1>2, <2>2, Ends DEF Results
<1>9. CASE RemoveSource(p)
  <2>1. files' \in [Paths -> Contents]
    BY <1>1, <1>4, <1>9, PutFacts DEF RemoveSource
  <2>2. Kept(p) /\ End(p, "failed")
    BY <1>1, <1>9, <2>1 DEF RemoveSource, Kept, TypeOK, Stagings
  <2>. QED
    BY <1>1, <1>2, <2>2, Ends DEF Results
<1>. QED
  BY <1>3, <1>5, <1>6, <1>7, <1>8, <1>9 DEF Start

\* A killed process lets go of the lock.
LEMMA CrashProper ==
  ASSUME Typed, NEW p \in Processes, Crash(p)
  PROVE  Proper(p)
<1>1. TypeOK /\ pc[p] \notin Outside
  BY DEF Typed, Crash, Outside
<1>2. Kept(p)
  <2>1. CASE UNCHANGED staging
    BY <1>1, <2>1, Untouched DEF Crash
  <2>2. CASE pc[p] = "cleanup" /\ staging' = [staging EXCEPT ![p] = "torn"]
    BY <1>1, <2>2 DEF Crash, Kept, TypeOK, Stagings
  <2>. QED
    BY <2>1, <2>2 DEF Crash
<1>. QED
  BY <1>1, <1>2, Ends DEF Crash, Results

\* Every step of a process is proper.
LEMMA StepProper ==
  ASSUME Typed, NEW p \in Processes,
         \/ Begin(p) \/ Crash(p) \/ (p \in Appliers /\ Apply(p)) \/ (p \in Starters /\ Start(p))
  PROVE  Proper(p)
<1>1. CASE p \in Appliers /\ Apply(p)
  BY <1>1, PreparationProper, InstallationProper, InstallRaisesProper, RollbackProper, ApplyEndsProper
  DEF Apply
<1>. QED
  BY <1>1, BeginProper, CrashProper, StartProper

\* An edit, and a stuttering step, leave every process where it is.
LEMMA EditKeepsTyped ==
  ASSUME Typed, (\E e \in Edits, f \in Paths : Edit(e, f)) \/ UNCHANGED vars
  PROVE  Typed'
<1>1. UNCHANGED <<staging, lock, pc, cursor, originals, result>>
  BY DEF Edit, vars
<1>2. files' \in [Paths -> Contents] /\ unseen' \in [Paths -> SUBSET Edits] /\ made' \subseteq Edits
  BY DEF Typed, TypeOK, Edit, Put, vars, Contents, Changes
<1>3. TypeOK'
  BY <1>1, <1>2 DEF Typed, TypeOK
<1>. QED
  BY <1>1, <1>3 DEF Typed, Holding, Phase

\* The initial state.
LEMMA InitTyped == Init => Typed
<1> SUFFICES ASSUME Init PROVE Typed
  OBVIOUS
<1>1. Original \in [Paths -> Contents]
  BY AuthoringAssumption DEF AuthoringAssumption, Contents, Absent
<1>2. TypeOK
  BY <1>1 DEF Init, TypeOK, Steps, Processes
<1>3. Holding
  BY ProcessFacts DEF Init, Holding, Outside
<1>4. \A p \in Processes : Phase(p)
  BY DEF Init, Phase, ApplierSteps, StarterSteps
<1>. QED
  BY <1>2, <1>3, <1>4 DEF Typed

\* Every step.
LEMMA NextKeepsTyped == Typed /\ [Next]_vars => Typed'
<1> SUFFICES ASSUME Typed, [Next]_vars PROVE Typed'
  OBVIOUS
<1>1. \A p \in Appliers \cup Starters : p \in Processes
  BY DEF Processes
<1>. QED
  BY <1>1, StepProper, ProperKeepsTyped, EditKeepsTyped DEF Next

(* The variables keep their types, cursors stay within the files, and the  *)
(* lock is held by whoever is inside a command (apply_component_start,     *)
(* apply_reviewed_component_inputs).                                       *)
THEOREM AuthoringTyped == Spec => []Typed
BY InitTyped, NextKeepsTyped, PTL DEF Spec

(* Type correctness of both commands.                                      *)
THEOREM TypeCorrect == Spec => []TypeOK
<1>1. Typed => TypeOK
  BY DEF Typed
<1>. QED
  BY <1>1, AuthoringTyped, PTL
=============================================================================
