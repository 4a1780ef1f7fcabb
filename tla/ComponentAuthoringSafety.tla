----------------------- MODULE ComponentAuthoringSafety -----------------------
(***************************************************************************)
(* Safety of the authoring transactions, for any number of them: what each *)
(* command has read is still what the others left there, because the lock  *)
(* is held from the first read to the last replacement; what it has        *)
(* replaced so far follows from its position; and recovery data stays as   *)
(* long as some of its files are replaced and others are not.              *)
(***************************************************************************)
EXTENDS ComponentAuthoringProofs

HasRead(p, f) ==
  \/ /\ p \in Appliers /\ pc[p] = "read"
     /\ \E i \in 1..Len(Inputs[p]) : i < cursor[p] /\ f = Inputs[p][i]
  \/ /\ p \in Appliers
     /\ pc[p] \in {"stage", "journal", "recheck", "install", "rollback", "restore", "cleanup"}
     /\ \E i \in 1..Len(Inputs[p]) : f = Inputs[p][i]
  \/ p \in Starters /\ pc[p] \in {"source", "intent", "undo"} /\ f = Intent

\* What p has read says which other commands the file carries now.
Faithful(p) ==
  \A f \in Paths, x \in Processes \ {p} :
    HasRead(p, f) => (Carries(f, x) <=> x \in originals[p][f])

\* What p wants to replace is its own doing only.
Unwritten(p) == \A f \in Paths : p \notin originals[p][f]

EveryFile(p) == \A i \in 1..Len(Updates[p]) : Carries(Updates[p][i], p)
NoFile(p) == \A i \in 1..Len(Updates[p]) : ~Carries(Updates[p][i], p)

\* The files an application has replaced, by its position.
Applied(p) ==
  /\ pc[p] \in {"start", "pending", "read", "stage", "journal", "recheck"}
       => \A f \in Paths : ~Carries(f, p)
  /\ pc[p] = "install"
       => \A i \in 1..Len(Updates[p]) : Carries(Updates[p][i], p) <=> i < cursor[p]
  /\ pc[p] \in {"rollback", "restore"}
       => /\ result[p] = "failed"
          /\ \A i \in 1..Len(Updates[p]) : i > cursor[p] => ~Carries(Updates[p][i], p)
  /\ pc[p] = "cleanup"
       => \/ result[p] = "applied" /\ EveryFile(p)
          \/ result[p] = "failed" /\ NoFile(p)
  /\ pc[p] = "done"
       => /\ result[p] = "applied" => EveryFile(p)
          /\ result[p] \in {"failed", "refused"} /\ staging[p] = "none" => NoFile(p)
          /\ EveryFile(p) \/ NoFile(p) \/ staging[p] = "journalled"

Staged(p) ==
  /\ pc[p] \in {"start", "pending", "read", "stage"} => staging[p] = "none"
  /\ pc[p] \in {"recheck", "install", "rollback", "restore"} => staging[p] = "journalled"

\* Nobody else has left a staging directory behind.
Alone(p) ==
  pc[p] \in {"read", "stage", "journal", "recheck", "install", "rollback", "restore", "cleanup"}
    => \A q \in Appliers \ {p} : staging[q] = "none"

\* Every edit of f is one p has read, or came after its last look at f.
SeenFile(p, f) == \A e \in Edits : Carries(f, e) => e \in originals[p][f] \cup unseen[f]

Seen(p) ==
  /\ pc[p] = "recheck"
       => \A i \in 1..Len(Inputs[p]) : i < cursor[p] => SeenFile(p, Inputs[p][i])
  /\ pc[p] = "install" => \A i \in 1..Len(Inputs[p]) : SeenFile(p, Inputs[p][i])
  /\ pc[p] = "restore" => SeenFile(p, Updates[p][cursor[p]])

\* The files of a start, by its position.
Started(p) ==
  /\ pc[p] \in {"start", "exists", "source"} => \A f \in Paths : ~Carries(f, p)
  /\ pc[p] \in {"source", "intent", "undo"}
       => \A x \in Processes \ {p} : ~Carries(Source[p], x)
  /\ pc[p] \in {"intent", "undo"} => Carries(Source[p], p) /\ ~Carries(Intent, p)
  /\ pc[p] = "done" /\ result[p] \in {"applied", "failed"} => StartedWhole(p)

Own(p) ==
  /\ Faithful(p) /\ Unwritten(p)
  /\ p \in Appliers => Applied(p) /\ Staged(p) /\ Alone(p) /\ Seen(p)
  /\ p \in Starters => Started(p)

Inv == Typed /\ \A p \in Processes : Own(p)

\* A step of p leaves the changes of the others where they are.
OthersKept(p) == \A f \in Paths, x \in Processes \ {p} : Carries(f, x)' <=> Carries(f, x)

-----------------------------------------------------------------------------
\* The changes of the others survive a write that keeps them.
LEMMA WriteKeepsOthers ==
  ASSUME TypeOK, NEW p \in Processes, NEW f \in Paths, NEW c \in Contents, Put(f, c),
         \A x \in Processes \ {p} : x \in c <=> Carries(f, x)
  PROVE  OthersKept(p) /\ files'[f] = c /\ \A g \in Paths \ {f} : files'[g] = files[g]
BY PutFacts DEF OthersKept, Carries

\* So they do when no file changes.
LEMMA SameFiles == ASSUME NEW p, UNCHANGED files PROVE OthersKept(p)
BY DEF OthersKept, Carries

\* Reading stays true while the others' changes stay.
LEMMA FaithfulKept ==
  ASSUME NEW p \in Processes, Faithful(p), OthersKept(p), originals'[p] = originals[p],
         \A f \in Paths : HasRead(p, f)' => HasRead(p, f)
  PROVE  Faithful(p)'
BY DEF Faithful, OthersKept, Carries

\* What is invariant for the others stays so: they are outside their
\* commands, or nothing of theirs changes.
LEMMA OthersOwn ==
  ASSUME Inv, NEW p \in Processes, Proper(p), OthersKept(p),
         lock = p \/ UNCHANGED <<files, staging, unseen>>, NEW x \in Processes \ {p}
  PROVE  Own(x)'
<1>1. /\ pc'[x] = pc[x] /\ cursor'[x] = cursor[x] /\ originals'[x] = originals[x]
      /\ result'[x] = result[x] /\ (x \in Appliers => staging'[x] = staging[x])
  BY DEF Proper, Spares
<1>2. Own(x) /\ Holding
  BY DEF Inv, Typed
<1>3. \A f \in Paths : Carries(f, x)' <=> Carries(f, x)
  BY DEF OthersKept
<1>4. Unwritten(x)'
  BY <1>1, <1>2 DEF Own, Unwritten
<1>5. x \in Starters => Source[x] \in Paths /\ Intent \in Paths
  BY StarterFacts
<1>6. x \in Appliers => \A i \in 1..Len(Updates[x]) : Updates[x][i] \in Paths
  BY UpdateFacts
<1>7. x \in Appliers => Applied(x)' /\ Staged(x)'
  BY <1>1, <1>2, <1>3, <1>6 DEF Own, Applied, Staged, EveryFile, NoFile
<1>8. CASE lock = p
  <2>1. pc[x] \in Outside
    BY <1>2, <1>8 DEF Holding
  <2>2. Faithful(x)'
    BY <1>1, <2>1 DEF Faithful, HasRead, Outside
  <2>3. Alone(x)' /\ Seen(x)'
    BY <1>1, <2>1 DEF Alone, Seen, Outside
  <2>4. x \in Starters => Started(x)'
    BY <1>1, <1>2, <1>3, <1>5, <2>1 DEF Own, Started, StartedWhole, Outside
  <2>. QED
    BY <1>4, <1>7, <2>2, <2>3, <2>4 DEF Own
<1>9. CASE UNCHANGED <<files, staging, unseen>>
  <2>1. Faithful(x)'
    BY <1>1, <1>2, <1>9 DEF Own, Faithful, HasRead, Carries
  <2>2. x \in Appliers => Alone(x)' /\ Seen(x)'
    BY <1>1, <1>2, <1>9 DEF Own, Alone, Seen, SeenFile, Carries
  <2>3. x \in Starters => Started(x)'
    BY <1>1, <1>2, <1>9 DEF Own, Started, StartedWhole, Carries
  <2>. QED
    BY <1>4, <1>7, <2>1, <2>2, <2>3 DEF Own
<1>. QED
  BY <1>8, <1>9

\* A step that keeps p's own invariant and the others' changes.
Good(p) == OthersKept(p) /\ Own(p)' /\ (lock = p \/ UNCHANGED <<files, staging, unseen>>)

\* A proper and good step keeps the invariant.
LEMMA GoodKeepsInv ==
  ASSUME Inv, NEW p \in Processes, Proper(p), Good(p)
  PROVE  Inv'
<1>1. Typed'
  BY ProperKeepsTyped DEF Inv
<1>2. \A x \in Processes \ {p} : Own(x)'
  BY OthersOwn DEF Good
<1>. QED
  BY <1>1, <1>2 DEF Inv, Good

-----------------------------------------------------------------------------
\* Taking the lock.
LEMMA BeginGood == ASSUME Inv, NEW p \in Processes, Begin(p) PROVE Good(p)
<1>1. /\ TypeOK /\ Own(p) /\ pc[p] = "start" /\ UNCHANGED <<files, staging, originals, unseen>>
  BY DEF Inv, Typed, Begin
<1>2. OthersKept(p)
  BY <1>1, SameFiles
<1>3. \/ pc'[p] = "done" /\ result'[p] = "refused"
      \/ pc'[p] = "pending" /\ p \in Appliers
      \/ pc'[p] = "exists" /\ p \notin Appliers
  <2>1. CASE LockFree
    BY <1>1, <2>1, GotoFacts DEF Begin, Steps
  <2>2. CASE ~LockFree
    BY <1>1, <2>2, GotoFacts, ResultFacts DEF Begin, Steps, Results
  <2>. QED
    BY <2>1, <2>2
<1>4. Faithful(p)' /\ Unwritten(p)'
  BY <1>1, <1>3 DEF Own, Faithful, Unwritten, HasRead, Outside
<1>5. p \in Appliers => Applied(p)' /\ Staged(p)' /\ Alone(p)' /\ Seen(p)'
  <2> SUFFICES ASSUME p \in Appliers PROVE Applied(p)' /\ Staged(p)' /\ Alone(p)' /\ Seen(p)'
    OBVIOUS
  <2>1. \A i \in 1..Len(Updates[p]) : Updates[p][i] \in Paths
    BY UpdateFacts
  <2>2. \A f \in Paths : ~Carries(f, p)'
    BY <1>1 DEF Own, Applied, Carries
  <2>3. pc'[p] \in {"done", "pending"} /\ staging'[p] = "none"
    BY <1>1, <1>3 DEF Own, Staged
  <2>4. Applied(p)'
    BY <1>3, <2>1, <2>2, <2>3 DEF Applied, NoFile
  <2>5. Staged(p)' /\ Alone(p)' /\ Seen(p)'
    BY <2>3 DEF Staged, Alone, Seen
  <2>. QED
    BY <2>4, <2>5
<1>6. p \in Starters => Started(p)'
  BY <1>1, <1>3, StarterFacts DEF Own, Started, Carries
<1>. QED
  BY <1>1, <1>2, <1>4, <1>5, <1>6 DEF Good, Own

\* A command that is killed or ends by itself before its first replacement,
\* or between them with its recovery data, or after them.
LEMMA ApplierEndsOwn ==
  ASSUME Inv, NEW p \in Appliers, pc[p] \notin Outside, UNCHANGED <<files, originals>>,
         pc'[p] = "done",
         \/ staging'[p] = staging[p]
         \/ pc[p] = "cleanup" /\ staging'[p] \in {"none", "torn"},
         \/ result'[p] \in {"crashed", "unrestored"}
         \/ /\ pc[p] \in {"pending", "read", "stage"}
            /\ result'[p] \in {"failed", "refused"}
         \/ /\ pc[p] = "cleanup"
            /\ \/ result'[p] = result[p] /\ staging'[p] = "none"
               \/ result'[p] = "failed" /\ staging'[p] = "torn"
  PROVE  OthersKept(p) /\ Own(p)'
<1>1. Own(p) /\ p \in Processes /\ p \notin Starters /\ pc[p] \in ApplierSteps
  BY InputFacts DEF Inv, Typed, Phase
<1>2. \A i \in 1..Len(Updates[p]) : Updates[p][i] \in Paths
  BY UpdateFacts
<1>3. OthersKept(p)
  BY SameFiles
<1>4. Faithful(p)' /\ Unwritten(p)' /\ Staged(p)' /\ Alone(p)' /\ Seen(p)'
  BY <1>1 DEF Own, Faithful, Unwritten, HasRead, Staged, Alone, Seen, Outside
<1>5. CASE pc[p] \in {"pending", "read", "stage", "journal", "recheck"}
  <2>1. NoFile(p)' /\ result'[p] # "applied"
    BY <1>1, <1>2, <1>5 DEF Own, Applied, NoFile, Carries
  <2>. QED
    BY <1>1, <1>3, <1>4, <2>1 DEF Own, Applied
<1>6. CASE pc[p] \in {"install", "rollback", "restore"}
  <2>1. staging'[p] = "journalled" /\ result'[p] \in {"crashed", "unrestored"}
    BY <1>1, <1>6 DEF Own, Staged
  <2>. QED
    BY <1>1, <1>3, <1>4, <2>1 DEF Own, Applied
<1>7. CASE pc[p] = "cleanup"
  <2>1. \/ result[p] = "applied" /\ EveryFile(p)'
        \/ result[p] = "failed" /\ NoFile(p)'
    BY <1>1, <1>7 DEF Own, Applied, EveryFile, NoFile, Carries
  <2>. QED
    BY <1>1, <1>3, <1>4, <1>7, <2>1 DEF Own, Applied
<1>. QED
  BY <1>1, <1>5, <1>6, <1>7 DEF ApplierSteps, Outside

\* What holds of an application.
LEMMA ApplierFacts ==
  ASSUME Inv, NEW p \in Appliers
  PROVE  /\ TypeOK /\ Typed /\ Own(p) /\ Phase(p) /\ p \in Processes /\ p \notin Starters /\ p \notin Edits
         /\ Faithful(p) /\ Unwritten(p) /\ Applied(p) /\ Staged(p) /\ Alone(p) /\ Seen(p)
         /\ pc[p] \notin Outside => lock = p
         /\ cursor[p] \in Nat \ {0} /\ Len(Inputs[p]) \in Nat /\ Len(Updates[p]) \in Nat
<1>1. p \in Processes /\ p \notin Starters /\ Typed /\ Own(p)
  BY InputFacts DEF Inv
<1>2. p \notin Edits /\ (pc[p] \notin Outside => lock = p)
  BY <1>1, ProcessFacts, HolderFacts
<1>. QED
  BY <1>1, <1>2, InputFacts, UpdateFacts DEF Typed, Own, TypeOK

\* Finding no pending application.
LEMMA CheckPendingGood == ASSUME Inv, NEW p \in Appliers, CheckPending(p) PROVE Good(p)
<1>1. pc[p] = "pending" /\ lock = p /\ UNCHANGED <<files, staging, originals, unseen>>
  BY ApplierFacts DEF CheckPending, Outside
<1>2. CASE End(p, "refused")
  <2>1. pc'[p] = "done" /\ result'[p] = "refused"
    BY <1>2, ApplierFacts, EndFacts DEF Results
  <2>. QED
    BY <1>1, <2>1, ApplierEndsOwn DEF Good, Outside
<1>3. CASE Pending = {} /\ Goto(p, "read", 1)
  <2>1. pc'[p] = "read" /\ cursor'[p] = 1
    BY <1>3, ApplierFacts, GotoFacts DEF Steps
  <2>2. OthersKept(p)
    BY <1>1, SameFiles
  <2>3. Faithful(p)' /\ Unwritten(p)'
    BY <1>1, <2>1, ApplierFacts DEF Faithful, HasRead, Unwritten
  <2>4. \A q \in Appliers : staging'[q] = "none"
    BY <1>1, <1>3 DEF Pending
  <2>5. Applied(p)' /\ Staged(p)' /\ Alone(p)' /\ Seen(p)'
    BY <1>1, <2>1, <2>4, ApplierFacts DEF Applied, Staged, Alone, Seen, Carries
  <2>. QED
    BY <1>1, <2>2, <2>3, <2>5, ApplierFacts DEF Good, Own
<1>. QED
  BY <1>2, <1>3 DEF CheckPending

\* Reading an input, after which its content is known.
LEMMA ReadInputGood == ASSUME Inv, NEW p \in Appliers, ReadInput(p) PROVE Good(p)
<1> DEFINE f == Inputs[p][cursor[p]]
<1>1. /\ pc[p] = "read" /\ lock = p /\ UNCHANGED <<files, staging>>
      /\ originals' = [originals EXCEPT ![p][f] = files[f]] /\ cursor[p] <= Len(Inputs[p])
  BY ApplierFacts DEF ReadInput, Outside
<1>2. f \in Paths
  BY <1>1, ApplierFacts, InputFacts
<1>3. pc'[p] = "read" /\ cursor'[p] = cursor[p] + 1
  BY ApplierFacts, GotoFacts DEF ReadInput, Steps
<1>4. originals'[p][f] = files[f] /\ \A g \in Paths \ {f} : originals'[p][g] = originals[p][g]
  BY <1>1, <1>2, ApplierFacts DEF TypeOK
<1>5. OthersKept(p)
  BY <1>1, SameFiles
<1>6. \A g \in Paths : ~Carries(g, p)
  BY <1>1, ApplierFacts DEF Applied
<1>7. Unwritten(p)'
  BY <1>2, <1>4, <1>6, ApplierFacts DEF Unwritten, Carries
<1>8. \A g \in Paths : HasRead(p, g)' => HasRead(p, g) \/ g = f
  BY <1>1, <1>3, ApplierFacts DEF HasRead
<1>9. Faithful(p)'
  BY <1>1, <1>2, <1>4, <1>8, ApplierFacts DEF Faithful, Carries
<1>10. Applied(p)' /\ Staged(p)' /\ Alone(p)' /\ Seen(p)'
  BY <1>1, <1>3, <1>6, ApplierFacts DEF Applied, Staged, Alone, Seen, Carries
<1>. QED
  BY <1>1, <1>5, <1>7, <1>9, <1>10, ApplierFacts DEF Good, Own

\* The baseline, the staging directory and the journal.
LEMMA StagingGood ==
  ASSUME Inv, NEW p \in Appliers, CheckBaseline(p) \/ MakeStaging(p) \/ WriteJournal(p)
  PROVE  Good(p)
<1>1. /\ pc[p] \in {"read", "stage", "journal"} /\ lock = p /\ UNCHANGED <<files, originals, unseen>>
  BY ApplierFacts DEF CheckBaseline, MakeStaging, WriteJournal, Outside
<1>2. OthersKept(p) /\ \A g \in Paths : ~Carries(g, p)
  BY <1>1, SameFiles, ApplierFacts DEF Applied
<1>3. CASE CheckBaseline(p) /\ End(p, "refused")
  <2>1. pc'[p] = "done" /\ result'[p] = "refused"
    BY <1>3, ApplierFacts, EndFacts DEF Results
  <2>. QED
    BY <1>1, <1>3, <2>1, ApplierEndsOwn DEF Good, Outside, CheckBaseline
<1>4. CASE CheckBaseline(p) /\ Goto(p, "stage", 1)
  <2>1. pc'[p] = "stage" /\ pc[p] = "read" /\ cursor[p] > Len(Inputs[p]) /\ UNCHANGED staging
    BY <1>4, ApplierFacts, GotoFacts DEF Steps, CheckBaseline
  <2>2. \A f \in Paths : HasRead(p, f)' => HasRead(p, f)
    BY <2>1, ApplierFacts DEF HasRead
  <2>3. Faithful(p)' /\ Unwritten(p)'
    BY <1>1, <1>2, <2>2, FaithfulKept, ApplierFacts DEF Unwritten
  <2>4. Applied(p)' /\ Staged(p)' /\ Alone(p)' /\ Seen(p)'
    BY <1>1, <1>2, <2>1, ApplierFacts DEF Applied, Staged, Alone, Seen, Carries
  <2>. QED
    BY <1>1, <1>2, <2>3, <2>4, ApplierFacts DEF Good, Own
<1>5. CASE MakeStaging(p)
  <2>1. pc'[p] = "journal" /\ pc[p] = "stage" /\ \A x \in Appliers \ {p} : staging'[x] = staging[x]
    BY <1>5, ApplierFacts, GotoFacts, StagingFacts DEF Steps, MakeStaging, Stagings
  <2>2. \A f \in Paths : HasRead(p, f)' => HasRead(p, f)
    BY <2>1 DEF HasRead
  <2>3. Faithful(p)' /\ Unwritten(p)'
    BY <1>1, <1>2, <2>2, FaithfulKept, ApplierFacts DEF Unwritten
  <2>4. Applied(p)' /\ Staged(p)' /\ Alone(p)' /\ Seen(p)'
    BY <1>1, <1>2, <2>1, ApplierFacts DEF Applied, Staged, Alone, Seen, Carries
  <2>. QED
    BY <1>1, <1>2, <1>5, <2>3, <2>4, ApplierFacts DEF Good, Own
<1>6. CASE WriteJournal(p)
  <2>1. /\ pc'[p] = "recheck" /\ cursor'[p] = 1 /\ pc[p] = "journal"
        /\ staging'[p] = "journalled" /\ \A x \in Appliers \ {p} : staging'[x] = staging[x]
    <3>1. TypeOK /\ p \in Processes /\ "recheck" \in Steps /\ "journalled" \in Stagings
      BY ApplierFacts DEF Steps, Stagings
    <3>2. Goto(p, "recheck", 1) /\ staging' = [staging EXCEPT ![p] = "journalled"] /\ pc[p] = "journal"
      BY <1>6 DEF WriteJournal
    <3>3. pc'[p] = "recheck" /\ cursor'[p] = 1
      BY <3>1, <3>2, GotoFacts
    <3>. QED
      BY <3>1, <3>2, <3>3, StagingFacts
  <2>2. \A f \in Paths : HasRead(p, f)' => HasRead(p, f)
    BY <2>1 DEF HasRead
  <2>3. Faithful(p)' /\ Unwritten(p)'
    BY <1>1, <1>2, <2>2, FaithfulKept, ApplierFacts DEF Unwritten
  <2>4. Applied(p)' /\ Staged(p)' /\ Alone(p)' /\ Seen(p)'
    BY <1>1, <1>2, <2>1, ApplierFacts DEF Applied, Staged, Alone, Seen, Carries
  <2>. QED
    BY <1>1, <1>2, <1>6, <2>3, <2>4, ApplierFacts DEF Good, Own
<1>. QED
  BY <1>3, <1>4, <1>5, <1>6 DEF CheckBaseline

\* The last look at the inputs.
LEMMA RecheckGood == ASSUME Inv, NEW p \in Appliers, Recheck(p) PROVE Good(p)
<1>0. /\ pc[p] = "recheck" /\ lock = p /\ cursor[p] \in 1..Len(Inputs[p])
      /\ Inputs[p][cursor[p]] \in Paths
  BY ApplierFacts, InputFacts DEF Recheck, Outside, Phase
<1>2. PICK f \in Paths : f = Inputs[p][cursor[p]]
  BY <1>0
<1>1. /\ pc[p] = "recheck" /\ lock = p /\ UNCHANGED <<files, originals, staging>> /\ Looked(f)
      /\ cursor[p] \in 1..Len(Inputs[p])
  BY <1>0, <1>2 DEF Recheck
<1>3. OthersKept(p) /\ \A g \in Paths : ~Carries(g, p)
  BY <1>1, SameFiles, ApplierFacts DEF Applied
<1>4. /\ unseen'[f] = {} /\ \A g \in Paths \ {f} : unseen'[g] = unseen[g]
  BY <1>1, <1>2, ApplierFacts, LookedFacts
<1>5. \A i \in 1..Len(Inputs[p]) : Inputs[p][i] \in Paths
  BY InputFacts
<1>6. \A i \in 1..Len(Updates[p]) : Updates[p][i] \in Paths
  BY UpdateFacts
<1>7. CASE ~Unchanged(p, f) /\ Goto(p, "cleanup", 1) /\ result' = [result EXCEPT ![p] = "failed"]
  <2>1. pc'[p] = "cleanup" /\ result'[p] = "failed"
    <3>1. TypeOK /\ p \in Processes /\ "cleanup" \in Steps /\ "failed" \in Results
      BY ApplierFacts DEF Steps, Results
    <3>2. pc'[p] = "cleanup"
      BY <1>7, <3>1, GotoFacts
    <3>. QED
      BY <1>7, <3>1, <3>2, ResultFacts
  <2>2. \A g \in Paths : HasRead(p, g)' => HasRead(p, g)
    BY <1>1, <2>1 DEF HasRead
  <2>3. Faithful(p)' /\ Unwritten(p)'
    BY <1>1, <1>3, <2>2, FaithfulKept, ApplierFacts DEF Unwritten
  <2>4. Applied(p)' /\ Staged(p)' /\ Alone(p)' /\ Seen(p)'
    BY <1>1, <1>3, <1>6, <2>1, ApplierFacts DEF Applied, NoFile, Staged, Alone, Seen, Carries
  <2>. QED
    BY <1>1, <1>3, <2>3, <2>4, ApplierFacts DEF Good, Own
<1>8. CASE Unchanged(p, f) /\ UNCHANGED result
  <2>1. \/ pc'[p] = "recheck" /\ cursor'[p] = cursor[p] + 1
        \/ pc'[p] = "install" /\ cursor'[p] = 1 /\ cursor[p] = Len(Inputs[p])
    BY <1>1, <1>2, <1>8, ApplierFacts, GotoFacts DEF Steps, Recheck
  <2>2. \A g \in Paths : HasRead(p, g)' => HasRead(p, g)
    BY <1>1, <2>1 DEF HasRead
  <2>3. Faithful(p)' /\ Unwritten(p)'
    BY <1>1, <1>3, <2>2, FaithfulKept, ApplierFacts DEF Unwritten
  <2>4. SeenFile(p, f)'
    <3>1. files'[f] = originals'[p][f]
      BY <1>1, <1>8 DEF Unchanged
    <3>. QED
      BY <3>1 DEF SeenFile, Carries
  <2>5. \A g \in Paths \ {f} : SeenFile(p, g) => SeenFile(p, g)'
    BY <1>1, <1>4 DEF SeenFile, Carries
  <2>6. \A i \in 1..Len(Inputs[p]) : i < cursor[p] + 1 => SeenFile(p, Inputs[p][i])'
    <3> TAKE i \in 1..Len(Inputs[p])
    <3> HAVE i < cursor[p] + 1
    <3>1. CASE Inputs[p][i] = f
      BY <2>4, <3>1
    <3>2. CASE Inputs[p][i] # f
      <4>1. i < cursor[p]
        BY <1>2, <3>2, ApplierFacts
      <4>2. SeenFile(p, Inputs[p][i])
        BY <1>1, <4>1, ApplierFacts DEF Seen
      <4>. QED
        BY <1>5, <2>5, <3>2, <4>2
    <3>. QED
      BY <3>1, <3>2
  <2>7. Seen(p)'
    <3>1. CASE pc'[p] = "recheck" /\ cursor'[p] = cursor[p] + 1
      BY <2>6, <3>1 DEF Seen
    <3>2. CASE pc'[p] = "install" /\ cursor[p] = Len(Inputs[p])
      <4>1. \A i \in 1..Len(Inputs[p]) : i < cursor[p] + 1
        BY <3>2, ApplierFacts
      <4>. QED
        BY <2>6, <3>2, <4>1 DEF Seen
    <3>. QED
      BY <2>1, <3>1, <3>2
  <2>8. Applied(p)' /\ Staged(p)' /\ Alone(p)'
    BY <1>1, <1>3, <1>6, <2>1, ApplierFacts DEF Applied, Staged, Alone, Carries
  <2>. QED
    BY <1>1, <1>3, <2>3, <2>7, <2>8, ApplierFacts DEF Good, Own
<1>. QED
  BY <1>2, <1>7, <1>8 DEF Recheck

\* The file a replacement or its rollback has come to.
LEMMA CurrentUpdate ==
  ASSUME Inv, NEW p \in Appliers, pc[p] \in {"install", "rollback", "restore"}
  PROVE  /\ lock = p /\ cursor[p] \in 1..Len(Updates[p])
         /\ \E f \in Paths :
              /\ f = Updates[p][cursor[p]]
              /\ Updated(p, f) \in Contents /\ originals[p][f] \in Contents
              /\ p \notin originals[p][f]
              /\ \A x \in Processes \ {p} : Carries(f, x) <=> x \in originals[p][f]
<1>1. lock = p /\ cursor[p] \in 1..Len(Updates[p])
  BY ApplierFacts DEF Phase, Outside
<1>2. PICK f \in Paths : f = Updates[p][cursor[p]] /\ \E j \in 1..Len(Inputs[p]) : f = Inputs[p][j]
  BY <1>1, UpdateFacts
<1>3. HasRead(p, f)
  BY <1>2 DEF HasRead
<1>4. /\ \A x \in Processes \ {p} : Carries(f, x) <=> x \in originals[p][f]
      /\ p \notin originals[p][f]
  BY <1>3, ApplierFacts DEF Faithful, Unwritten
<1>5. Updated(p, f) \in Contents /\ originals[p][f] \in Contents
  BY ApplierFacts, UpdatedType DEF TypeOK
<1>. QED
  BY <1>1, <1>2, <1>4, <1>5

\* Once it has begun to replace files, an applier keeps what it has read.
LEMMA InstallerReads ==
  ASSUME Inv, NEW p \in Appliers, pc[p] \in {"install", "rollback", "restore"},
         pc'[p] \in {"install", "rollback", "restore", "cleanup"},
         OthersKept(p), originals' = originals, UNCHANGED staging
  PROVE  Faithful(p)' /\ Unwritten(p)' /\ Staged(p)' /\ Alone(p)'
<1>1. \A g \in Paths : HasRead(p, g)' => HasRead(p, g)
  BY DEF HasRead
<1>2. Faithful(p)' /\ Unwritten(p)'
  BY <1>1, FaithfulKept, ApplierFacts DEF Unwritten
<1>3. Staged(p)' /\ Alone(p)'
  BY ApplierFacts DEF Staged, Alone
<1>. QED
  BY <1>2, <1>3

\* Going back to the file before the i-th: those from the i-th on are as
\* they were.
LEMMA BackGood ==
  ASSUME Inv, NEW p \in Appliers, pc[p] \in {"install", "rollback", "restore"},
         NEW i \in 1..Len(Updates[p]) + 1, RestoreNext(p, i), result'[p] = "failed",
         OthersKept(p), originals' = originals, UNCHANGED staging,
         \A j \in 1..Len(Updates[p]) : j >= i => ~Carries(Updates[p][j], p)'
  PROVE  Good(p)
<1>1. i \in Nat \ {0} /\ lock = p
  BY ApplierFacts, CurrentUpdate
<1>2. \/ i = 1 /\ pc'[p] = "cleanup"
      \/ i # 1 /\ pc'[p] = "rollback" /\ cursor'[p] = i - 1
  <2>1. CASE i = 1
    BY <2>1, ApplierFacts, GotoFacts DEF RestoreNext, Steps
  <2>2. CASE i # 1
    BY <1>1, <2>2, ApplierFacts, GotoFacts DEF RestoreNext, Steps
  <2>. QED
    BY <2>1, <2>2
<1>3. Faithful(p)' /\ Unwritten(p)' /\ Staged(p)' /\ Alone(p)'
  BY <1>2, InstallerReads
<1>4. Seen(p)'
  BY <1>2 DEF Seen
<1>5. Applied(p)'
  <2>1. CASE i = 1 /\ pc'[p] = "cleanup"
    <3>1. NoFile(p)'
      BY <2>1, ApplierFacts DEF NoFile
    <3>. QED
      BY <2>1, <3>1 DEF Applied
  <2>2. CASE i # 1 /\ pc'[p] = "rollback" /\ cursor'[p] = i - 1
    <3>1. \A j \in 1..Len(Updates[p]) : j > cursor'[p] => ~Carries(Updates[p][j], p)'
      BY <2>2, ApplierFacts
    <3>. QED
      BY <2>2, <3>1 DEF Applied
  <2>. QED
    BY <1>2, <2>1, <2>2
<1>. QED
  BY <1>1, <1>3, <1>4, <1>5, ApplierFacts DEF Good, Own

\* Replacing a file.
LEMMA InstallGood == ASSUME Inv, NEW p \in Appliers, Install(p) PROVE Good(p)
<1>1. pc[p] = "install" /\ UNCHANGED <<staging, originals>>
  BY DEF Install
<1>2. PICK f \in Paths :
        /\ f = Updates[p][cursor[p]]
        /\ Updated(p, f) \in Contents /\ p \notin originals[p][f]
        /\ \A x \in Processes \ {p} : Carries(f, x) <=> x \in originals[p][f]
  BY <1>1, CurrentUpdate
<1>3. lock = p /\ cursor[p] \in 1..Len(Updates[p])
  BY <1>1, CurrentUpdate
<1>4. Put(f, Updated(p, f)) /\ Looked(f)
  BY <1>2 DEF Install
<1>5. \A x \in Processes \ {p} : x \in Updated(p, f) <=> Carries(f, x)
  BY <1>2 DEF Updated
<1>6. OthersKept(p) /\ files'[f] = Updated(p, f) /\ \A g \in Paths \ {f} : files'[g] = files[g]
  BY <1>2, <1>4, <1>5, WriteKeepsOthers, ApplierFacts
<1>7. \A i \in 1..Len(Updates[p]) : Carries(Updates[p][i], p)' <=> i < cursor[p] + 1
  <2> TAKE i \in 1..Len(Updates[p])
  <2>1. CASE i = cursor[p]
    BY <1>2, <1>6, <2>1, ApplierFacts DEF Carries, Updated
  <2>2. CASE i # cursor[p]
    <3>1. Updates[p][i] \in Paths \ {f}
      BY <1>2, <1>3, <2>2, UpdateFacts
    <3>2. Carries(Updates[p][i], p) <=> i < cursor[p]
      BY <1>1, ApplierFacts DEF Applied
    <3>3. Carries(Updates[p][i], p)' <=> Carries(Updates[p][i], p)
      BY <1>6, <3>1 DEF Carries
    <3>. QED
      BY <2>2, <3>2, <3>3, ApplierFacts
  <2>. QED
    BY <2>1, <2>2
<1>8. \A g \in Paths : SeenFile(p, g) => SeenFile(p, g)'
  <2> TAKE g \in Paths
  <2>1. CASE g = f
    BY <1>1, <1>6, <2>1, ApplierFacts DEF SeenFile, Carries, Updated
  <2>2. CASE g # f
    <3>1. files'[g] = files[g] /\ unseen'[g] = unseen[g]
      BY <1>4, <1>6, <2>2, LookedFacts, ApplierFacts
    <3>. QED
      BY <1>1, <3>1 DEF SeenFile, Carries
  <2>. QED
    BY <2>1, <2>2
<1>9. CASE cursor[p] < Len(Updates[p]) /\ Goto(p, "install", cursor[p] + 1)
  <2>1. pc'[p] = "install" /\ cursor'[p] = cursor[p] + 1
    BY <1>3, <1>9, ApplierFacts, GotoFacts DEF Steps
  <2>2. Applied(p)'
    BY <1>7, <2>1 DEF Applied
  <2>3. Seen(p)'
    BY <1>1, <1>8, <2>1, ApplierFacts, InputFacts DEF Seen
  <2>4. Faithful(p)' /\ Unwritten(p)' /\ Staged(p)' /\ Alone(p)'
    BY <1>1, <1>6, <2>1, InstallerReads
  <2>. QED
    BY <1>3, <1>6, <2>2, <2>3, <2>4, ApplierFacts DEF Good, Own
<1>10. CASE /\ ~(cursor[p] < Len(Updates[p]))
            /\ Goto(p, "cleanup", 1) /\ result' = [result EXCEPT ![p] = "applied"]
  <2>1. pc'[p] = "cleanup"
    BY <1>10, ApplierFacts, GotoFacts DEF Steps
  <2>2. result'[p] = "applied"
    BY <1>10, ApplierFacts, ResultFacts DEF Results
  <2>3. EveryFile(p)'
    BY <1>3, <1>7, <1>10, ApplierFacts DEF EveryFile
  <2>4. Applied(p)' /\ Seen(p)'
    BY <2>1, <2>2, <2>3 DEF Applied, Seen
  <2>5. Faithful(p)' /\ Unwritten(p)' /\ Staged(p)' /\ Alone(p)'
    BY <1>1, <1>6, <2>1, InstallerReads
  <2>. QED
    BY <1>3, <1>6, <2>4, <2>5, ApplierFacts DEF Good, Own
<1>. QED
  BY <1>9, <1>10 DEF Install

\* A replacement that raises, having taken effect or not.
LEMMA InstallRaisesGood ==
  ASSUME Inv, NEW p \in Appliers, NEW reached \in {"nothing", "attempt", "effect"},
         InstallRaises(p, reached)
  PROVE  Good(p)
<1>1. /\ pc[p] = "install" /\ UNCHANGED <<staging, originals>>
      /\ RestoreNext(p, FirstUnnoted(p, reached))
  BY DEF InstallRaises
<1>2. PICK f \in Paths :
        /\ f = Updates[p][cursor[p]]
        /\ Updated(p, f) \in Contents /\ p \notin originals[p][f]
        /\ \A x \in Processes \ {p} : Carries(f, x) <=> x \in originals[p][f]
  BY <1>1, CurrentUpdate
<1>3. lock = p /\ cursor[p] \in 1..Len(Updates[p])
  BY <1>1, CurrentUpdate
<1>4. result'[p] = "failed"
  BY ApplierFacts, ResultFacts DEF InstallRaises, Results
<1>5. \A i \in 1..Len(Updates[p]) : i >= cursor[p] => ~Carries(Updates[p][i], p)
  BY <1>1, <1>3, ApplierFacts DEF Applied
<1>6. CASE reached # "effect"
  <2>1. UNCHANGED files
    BY <1>6 DEF InstallRaises
  <2>2. OthersKept(p)
    BY <2>1, SameFiles
  <2>3. /\ FirstUnnoted(p, reached) \in 1..Len(Updates[p]) + 1
        /\ FirstUnnoted(p, reached) >= cursor[p]
    BY <1>3, ApplierFacts DEF FirstUnnoted
  <2>4. \A i \in 1..Len(Updates[p]) :
          i >= FirstUnnoted(p, reached) => ~Carries(Updates[p][i], p)'
    BY <1>3, <1>5, <2>1, <2>3, ApplierFacts DEF Carries
  <2>. QED
    BY <1>1, <1>4, <2>2, <2>3, <2>4, BackGood
<1>7. CASE reached = "effect"
  <2>1. Put(f, Updated(p, f)) /\ FirstUnnoted(p, reached) = cursor[p] + 1
    BY <1>2, <1>7 DEF InstallRaises, FirstUnnoted
  <2>2. \A x \in Processes \ {p} : x \in Updated(p, f) <=> Carries(f, x)
    BY <1>2 DEF Updated
  <2>3. OthersKept(p) /\ \A g \in Paths \ {f} : files'[g] = files[g]
    BY <1>2, <2>1, <2>2, WriteKeepsOthers, ApplierFacts
  <2>4. ASSUME NEW i \in 1..Len(Updates[p]), i >= cursor[p] + 1
        PROVE  ~Carries(Updates[p][i], p)'
    <3>1. Updates[p][i] \in Paths \ {f} /\ i >= cursor[p]
      BY <1>2, <1>3, <2>4, UpdateFacts, ApplierFacts
    <3>. QED
      BY <1>5, <2>3, <3>1 DEF Carries
  <2>5. cursor[p] + 1 \in 1..Len(Updates[p]) + 1
    BY <1>3, ApplierFacts
  <2>6. RestoreNext(p, cursor[p] + 1)
    BY <1>1, <2>1
  <2>. QED
    BY <1>1, <1>4, <2>3, <2>4, <2>5, <2>6, BackGood
<1>. QED
  BY <1>6, <1>7

\* Looking at a replaced file.
LEMMA RollbackGood == ASSUME Inv, NEW p \in Appliers, Rollback(p) PROVE Good(p)
<1>1. pc[p] = "rollback" /\ UNCHANGED <<files, staging, originals>>
  BY DEF Rollback
<1>2. PICK f \in Paths : f = Updates[p][cursor[p]] /\ p \notin originals[p][f]
  BY <1>1, CurrentUpdate
<1>3. lock = p /\ cursor[p] \in 1..Len(Updates[p])
  BY <1>1, CurrentUpdate
<1>4. /\ result[p] = "failed"
      /\ \A i \in 1..Len(Updates[p]) : i > cursor[p] => ~Carries(Updates[p][i], p)
  BY <1>1, ApplierFacts DEF Applied
<1>5. OthersKept(p)
  BY <1>1, SameFiles
<1>6. CASE Unchanged(p, f) /\ RestoreNext(p, cursor[p]) /\ UNCHANGED result
  <2>1. ~Carries(f, p)
    BY <1>2, <1>6 DEF Unchanged, Carries
  <2>2. \A i \in 1..Len(Updates[p]) : i >= cursor[p] => i > cursor[p] \/ Updates[p][i] = f
    BY <1>2, <1>3, ApplierFacts
  <2>3. \A i \in 1..Len(Updates[p]) : i >= cursor[p] => ~Carries(Updates[p][i], p)'
    BY <1>1, <1>4, <2>1, <2>2 DEF Carries
  <2>4. cursor[p] \in 1..Len(Updates[p]) + 1
    BY <1>3, ApplierFacts
  <2>. QED
    BY <1>1, <1>4, <1>5, <1>6, <2>3, <2>4, BackGood
<1>7. CASE End(p, "unrestored")
  <2>1. pc'[p] = "done" /\ result'[p] = "unrestored"
    BY <1>7, ApplierFacts, EndFacts DEF Results
  <2>. QED
    BY <1>1, <1>3, <2>1, ApplierEndsOwn DEF Good, Outside
<1>8. CASE ~Conflict(p, f) /\ Goto(p, "restore", cursor[p]) /\ UNCHANGED result
  <2>1. pc'[p] = "restore" /\ cursor'[p] = cursor[p]
    BY <1>3, <1>8, ApplierFacts, GotoFacts DEF Steps
  <2>2. Applied(p)'
    BY <1>1, <1>4, <1>8, <2>1 DEF Applied, Carries
  <2>3. SeenFile(p, f)'
    <3>1. files'[f] = originals'[p][f] \cup {p}
      BY <1>1, <1>8 DEF Conflict, Updated
    <3>. QED
      BY <3>1, ApplierFacts DEF SeenFile, Carries
  <2>4. Seen(p)'
    BY <1>2, <2>1, <2>3 DEF Seen
  <2>5. Faithful(p)' /\ Unwritten(p)' /\ Staged(p)' /\ Alone(p)'
    BY <1>1, <1>5, <2>1, InstallerReads
  <2>. QED
    BY <1>3, <1>5, <2>2, <2>4, <2>5, ApplierFacts DEF Good, Own
<1>. QED
  BY <1>2, <1>6, <1>7, <1>8 DEF Rollback

\* Restoring a file.
LEMMA RestoreGood == ASSUME Inv, NEW p \in Appliers, Restore(p) PROVE Good(p)
<1>1. /\ pc[p] = "restore" /\ UNCHANGED <<staging, originals, result>>
      /\ RestoreNext(p, cursor[p])
  BY DEF Restore
<1>2. PICK f \in Paths :
        /\ f = Updates[p][cursor[p]]
        /\ originals[p][f] \in Contents /\ p \notin originals[p][f]
        /\ \A x \in Processes \ {p} : Carries(f, x) <=> x \in originals[p][f]
  BY <1>1, CurrentUpdate
<1>3. cursor[p] \in 1..Len(Updates[p])
  BY <1>1, CurrentUpdate
<1>4. /\ result[p] = "failed"
      /\ \A i \in 1..Len(Updates[p]) : i > cursor[p] => ~Carries(Updates[p][i], p)
  BY <1>1, ApplierFacts DEF Applied
<1>5. Put(f, originals[p][f])
  BY <1>2 DEF Restore
<1>6. OthersKept(p) /\ files'[f] = originals[p][f] /\ \A g \in Paths \ {f} : files'[g] = files[g]
  BY <1>2, <1>5, WriteKeepsOthers, ApplierFacts
<1>7. ASSUME NEW i \in 1..Len(Updates[p]), i >= cursor[p]
      PROVE  ~Carries(Updates[p][i], p)'
  <2>1. CASE i = cursor[p]
    BY <1>2, <1>6, <2>1 DEF Carries
  <2>2. CASE i # cursor[p]
    <3>1. Updates[p][i] \in Paths \ {f} /\ i > cursor[p]
      BY <1>2, <1>3, <1>7, <2>2, UpdateFacts, ApplierFacts
    <3>. QED
      BY <1>4, <1>6, <3>1 DEF Carries
  <2>. QED
    BY <2>1, <2>2
<1>8. cursor[p] \in 1..Len(Updates[p]) + 1
  BY <1>3, ApplierFacts
<1>. QED
  BY <1>1, <1>4, <1>6, <1>7, <1>8, BackGood

\* The ways an application ends.
LEMMA ApplyEndsGood ==
  ASSUME Inv, NEW p \in Appliers, RollbackRaises(p) \/ ApplyRaises(p) \/ Cleanup(p)
  PROVE  Good(p)
<1>1. /\ pc[p] \notin Outside /\ lock = p /\ UNCHANGED <<files, originals, unseen>>
  BY ApplierFacts DEF RollbackRaises, ApplyRaises, Cleanup, Outside
<1>2. OthersKept(p)
  BY <1>1, SameFiles
<1>3. CASE RollbackRaises(p)
  <2>1. pc'[p] = "done" /\ result'[p] = "unrestored"
    BY <1>3, ApplierFacts, EndFacts DEF RollbackRaises, Results
  <2>2. staging' = [staging EXCEPT ![p] = staging[p]]
    BY <1>3 DEF RollbackRaises, StagingAfterRollback
  <2>3. staging'[p] = staging[p]
    BY <2>2, ApplierFacts DEF TypeOK
  <2>. QED
    BY <1>1, <2>1, <2>3, ApplierEndsOwn DEF Good
<1>4. CASE ApplyRaises(p) /\ End(p, "failed") /\ pc[p] \in {"pending", "read", "stage"}
  <2>1. pc'[p] = "done" /\ result'[p] = "failed" /\ UNCHANGED staging
    BY <1>4, ApplierFacts, EndFacts DEF ApplyRaises, Results
  <2>. QED
    BY <1>1, <1>4, <2>1, ApplierEndsOwn DEF Good
<1>5. CASE /\ ApplyRaises(p) /\ pc[p] \in {"journal", "recheck"}
           /\ Goto(p, "cleanup", 1) /\ result' = [result EXCEPT ![p] = "failed"]
  <2>1. pc'[p] = "cleanup" /\ UNCHANGED staging
    BY <1>5, ApplierFacts, GotoFacts DEF ApplyRaises, Steps
  <2>2. result'[p] = "failed"
    BY <1>5, ApplierFacts, ResultFacts DEF Results
  <2>3. NoFile(p)'
    BY <1>1, <1>5, ApplierFacts, UpdateFacts DEF Applied, NoFile, Carries
  <2>4. \A f \in Paths : HasRead(p, f)' => HasRead(p, f)
    BY <1>5, <2>1 DEF HasRead
  <2>5. Faithful(p)' /\ Unwritten(p)'
    BY <1>1, <1>2, <2>4, FaithfulKept, ApplierFacts DEF Unwritten
  <2>6. Applied(p)' /\ Staged(p)' /\ Alone(p)' /\ Seen(p)'
    BY <1>5, <2>1, <2>2, <2>3, ApplierFacts DEF Applied, Staged, Alone, Seen
  <2>. QED
    BY <1>1, <1>2, <2>5, <2>6, ApplierFacts DEF Good, Own
<1>6. CASE Cleanup(p) /\ staging' = [staging EXCEPT ![p] = "none"] /\ End(p, result[p])
  <2>1. result[p] \in Results
    BY ApplierFacts DEF TypeOK, Results
  <2>2. pc'[p] = "done" /\ result'[p] = result[p]
    BY <1>6, <2>1, ApplierFacts, EndFacts
  <2>3. staging'[p] = "none" /\ pc[p] = "cleanup"
    BY <1>6, ApplierFacts DEF TypeOK, Cleanup
  <2>. QED
    BY <1>1, <2>2, <2>3, ApplierEndsOwn DEF Good
<1>7. CASE Cleanup(p) /\ staging' = [staging EXCEPT ![p] = "torn"] /\ End(p, "failed")
  <2>1. pc'[p] = "done" /\ result'[p] = "failed"
    BY <1>7, ApplierFacts, EndFacts DEF Results
  <2>2. staging'[p] = "torn" /\ pc[p] = "cleanup"
    BY <1>7, ApplierFacts DEF TypeOK, Cleanup
  <2>. QED
    BY <1>1, <2>1, <2>2, ApplierEndsOwn DEF Good
<1>. QED
  BY <1>3, <1>4, <1>5, <1>6, <1>7 DEF ApplyRaises, Cleanup

-----------------------------------------------------------------------------
\* What holds of a start.
LEMMA StartFacts ==
  ASSUME Inv, NEW p \in Starters
  PROVE  /\ TypeOK /\ p \in Processes /\ p \notin Appliers /\ pc[p] \in StarterSteps
         /\ Faithful(p) /\ Unwritten(p) /\ Started(p)
         /\ pc[p] \notin Outside => lock = p
         /\ Source[p] \in Paths /\ Intent \in Paths /\ Source[p] # Intent
<1>1. p \in Processes /\ p \notin Appliers /\ Typed /\ Own(p)
  BY StarterFacts DEF Inv
<1>2. Phase(p) /\ (pc[p] \notin Outside => lock = p)
  BY <1>1, HolderFacts DEF Typed
<1>. QED
  BY <1>1, <1>2, StarterFacts DEF Typed, Own, Phase

\* A start that ends, and what it must have left.
LEMMA StartEndsGood ==
  ASSUME Inv, NEW p \in Starters, pc[p] \notin Outside, pc'[p] = "done", OthersKept(p),
         Unwritten(p)', result'[p] \in {"applied", "failed"} => StartedWhole(p)'
  PROVE  Good(p)
<1>1. lock = p /\ p \notin Appliers
  BY StartFacts
<1>2. Faithful(p)' /\ Started(p)'
  BY <1>1 DEF Faithful, HasRead, Started
<1>. QED
  BY <1>1, <1>2 DEF Good, Own

\* The source must not exist yet.
LEMMA PrepareStartGood == ASSUME Inv, NEW p \in Starters, PrepareStart(p) PROVE Good(p)
<1>1. /\ pc[p] = "exists" /\ lock = p /\ UNCHANGED files
      /\ originals' = [originals EXCEPT ![p][Intent] = files[Intent]]
  BY StartFacts DEF PrepareStart, Outside
<1>2. OthersKept(p) /\ \A f \in Paths : ~Carries(f, p)
  BY <1>1, SameFiles, StartFacts DEF Started
<1>3. /\ originals'[p][Intent] = files[Intent]
      /\ \A f \in Paths \ {Intent} : originals'[p][f] = originals[p][f]
  BY <1>1, StartFacts DEF TypeOK
<1>4. Unwritten(p)'
  BY <1>2, <1>3, StartFacts DEF Unwritten, Carries
<1>5. CASE End(p, "refused")
  <2>1. pc'[p] = "done" /\ result'[p] = "refused"
    BY <1>5, StartFacts, EndFacts DEF Results
  <2>. QED
    BY <1>1, <1>2, <1>4, <2>1, StartEndsGood DEF Outside
<1>6. CASE files[Source[p]] = Absent /\ Goto(p, "source", 1)
  <2>1. pc'[p] = "source"
    BY <1>6, StartFacts, GotoFacts DEF Steps
  <2>2. \A f \in Paths : HasRead(p, f)' => f = Intent
    BY <2>1, StartFacts DEF HasRead
  <2>3. Faithful(p)'
    BY <1>1, <1>3, <2>2 DEF Faithful, Carries
  <2>4. Started(p)'
    BY <1>1, <1>2, <1>6, <2>1 DEF Started, Carries, Absent
  <2>. QED
    BY <1>1, <1>2, <1>4, <2>3, <2>4, StartFacts DEF Good, Own
<1>. QED
  BY <1>5, <1>6 DEF PrepareStart

\* Writing the source disturbs nobody.
LEMMA SourceWritten ==
  ASSUME Inv, NEW p \in Starters, pc[p] = "source", Put(Source[p], {p})
  PROVE  OthersKept(p) /\ Carries(Source[p], p)' /\ ~Carries(Intent, p)'
<1>1. /\ {p} \in Contents /\ Source[p] \in Paths /\ Intent \in Paths \ {Source[p]}
      /\ p \in Processes /\ TypeOK
  BY StartFacts, ProcessFacts DEF Contents
<1>2. \A x \in Processes \ {p} : x \in {p} <=> Carries(Source[p], x)
  BY StartFacts DEF Started
<1>3. /\ OthersKept(p) /\ files'[Source[p]] = {p}
      /\ \A g \in Paths \ {Source[p]} : files'[g] = files[g]
  BY <1>1, <1>2, WriteKeepsOthers
<1>4. ~Carries(Intent, p)
  BY StartFacts DEF Started
<1>. QED
  BY <1>1, <1>3, <1>4 DEF Carries

\* Neither does writing the intent.
LEMMA IntentWritten ==
  ASSUME Inv, NEW p \in Starters, pc[p] = "intent", Put(Intent, Updated(p, Intent))
  PROVE  OthersKept(p) /\ StartedWhole(p)'
<1>1. /\ Updated(p, Intent) \in Contents /\ Intent \in Paths /\ Source[p] \in Paths \ {Intent}
      /\ p \in Processes /\ TypeOK
  BY StartFacts, UpdatedType
<1>2. HasRead(p, Intent)
  BY StartFacts DEF HasRead
<1>3. \A x \in Processes \ {p} : x \in Updated(p, Intent) <=> Carries(Intent, x)
  BY <1>1, <1>2, StartFacts DEF Faithful, Updated
<1>4. /\ OthersKept(p) /\ files'[Intent] = Updated(p, Intent)
      /\ \A g \in Paths \ {Intent} : files'[g] = files[g]
  BY <1>1, <1>3, WriteKeepsOthers
<1>5. Carries(Source[p], p)
  BY StartFacts DEF Started
<1>. QED
  BY <1>1, <1>4, <1>5 DEF StartedWhole, Carries, Updated

\* The two replacements of a start.
LEMMA StartInstallsGood ==
  ASSUME Inv, NEW p \in Starters, InstallSource(p) \/ InstallIntent(p)
  PROVE  Good(p)
<1>1. UNCHANGED originals /\ pc[p] \in {"source", "intent"} /\ lock = p
  BY StartFacts DEF InstallSource, InstallIntent, Outside
<1>2. Unwritten(p)'
  BY <1>1, StartFacts DEF Unwritten
<1>3. CASE InstallSource(p)
  <2>1. pc[p] = "source" /\ pc'[p] = "intent"
    BY <1>3, StartFacts, GotoFacts DEF InstallSource, Steps
  <2>2. OthersKept(p) /\ Carries(Source[p], p)' /\ ~Carries(Intent, p)'
    BY <1>3, <2>1, SourceWritten DEF InstallSource
  <2>3. \A f \in Paths : HasRead(p, f)' => HasRead(p, f)
    BY <2>1, StartFacts DEF HasRead
  <2>4. Faithful(p)'
    BY <1>1, <2>2, <2>3, FaithfulKept, StartFacts
  <2>5. Started(p)'
    BY <2>1, <2>2, StartFacts DEF Started, OthersKept
  <2>. QED
    BY <1>1, <1>2, <2>2, <2>4, <2>5, StartFacts DEF Good, Own
<1>4. CASE InstallIntent(p)
  <2>1. pc[p] = "intent" /\ pc'[p] = "done"
    BY <1>4, StartFacts, EndFacts DEF InstallIntent, Results
  <2>2. OthersKept(p) /\ StartedWhole(p)'
    BY <1>4, <2>1, IntentWritten DEF InstallIntent
  <2>. QED
    BY <1>2, <2>1, <2>2, StartEndsGood DEF Outside
<1>. QED
  BY <1>3, <1>4

\* Failures of a start and its rollback.
LEMMA StartRaisesGood == ASSUME Inv, NEW p \in Starters, StartRaises(p) PROVE Good(p)
<1>1. pc[p] \notin Outside /\ lock = p /\ UNCHANGED <<files, originals>>
  BY StartFacts DEF StartRaises, Outside
<1>2. OthersKept(p) /\ Unwritten(p)'
  BY <1>1, SameFiles, StartFacts DEF Unwritten
<1>3. CASE pc[p] \in {"exists", "source"} /\ End(p, "failed")
  <2>1. pc'[p] = "done"
    BY <1>3, StartFacts, EndFacts DEF Results
  <2>2. StartedWhole(p)'
    BY <1>1, <1>3, StartFacts DEF Started, StartedWhole, Carries
  <2>. QED
    BY <1>1, <1>2, <2>1, <2>2, StartEndsGood
<1>4. CASE pc[p] = "intent" /\ Handles(p)
  <2>1. pc'[p] = "undo"
    BY <1>4, StartFacts, GotoFacts DEF Handles, Steps
  <2>2. \A f \in Paths : HasRead(p, f)' => HasRead(p, f)
    BY <1>4, <2>1 DEF HasRead
  <2>3. Faithful(p)'
    BY <1>1, <1>2, <2>2, FaithfulKept, StartFacts
  <2>4. Started(p)'
    BY <1>1, <1>4, <2>1, StartFacts DEF Started, Carries
  <2>. QED
    BY <1>1, <1>2, <2>3, <2>4, StartFacts DEF Good, Own
<1>5. CASE End(p, "unrestored")
  <2>1. pc'[p] = "done" /\ result'[p] = "unrestored"
    BY <1>5, StartFacts, EndFacts DEF Results
  <2>. QED
    BY <1>1, <1>2, <2>1, StartEndsGood
<1>. QED
  BY <1>3, <1>4, <1>5 DEF StartRaises

\* An interrupted start has no obligation but towards the others.
LEMMA StartInterruptedGood == ASSUME Inv, NEW p \in Starters, StartInterrupted(p) PROVE Good(p)
<1>1. pc[p] \notin Outside /\ Unwritten(p)'
  BY StartFacts DEF StartInterrupted, Outside, Unwritten
<1>2. pc'[p] = "done" /\ result'[p] = "interrupted"
  BY StartFacts, EndFacts DEF StartInterrupted, Results
<1>3. OthersKept(p)
  BY SameFiles, SourceWritten, IntentWritten DEF StartInterrupted
<1>. QED
  BY <1>1, <1>2, <1>3, StartEndsGood

\* A rolled back start leaves neither half.
LEMMA RemoveSourceGood == ASSUME Inv, NEW p \in Starters, RemoveSource(p) PROVE Good(p)
<1>1. pc[p] = "undo" /\ Unwritten(p)' /\ Put(Source[p], Absent)
  BY StartFacts DEF RemoveSource, Unwritten
<1>2. pc'[p] = "done"
  BY StartFacts, EndFacts DEF RemoveSource, Results
<1>3. \A x \in Processes \ {p} : x \in Absent <=> Carries(Source[p], x)
  BY <1>1, StartFacts DEF Started, Absent
<1>4. /\ OthersKept(p) /\ files'[Source[p]] = Absent
      /\ \A g \in Paths \ {Source[p]} : files'[g] = files[g]
  BY <1>1, <1>3, WriteKeepsOthers, StartFacts DEF Absent, Contents
<1>5. StartedWhole(p)'
  BY <1>1, <1>4, StartFacts DEF Started, StartedWhole, Carries, Absent
<1>. QED
  BY <1>1, <1>2, <1>4, <1>5, StartEndsGood DEF Outside

-----------------------------------------------------------------------------
\* A killed process.
LEMMA CrashGood == ASSUME Inv, NEW p \in Processes, Crash(p) PROVE Good(p)
<1>1. TypeOK /\ pc[p] \notin Outside /\ lock = p /\ UNCHANGED <<files, originals>>
  BY HolderFacts DEF Inv, Typed, Crash, Outside
<1>2. pc'[p] = "done" /\ result'[p] = "crashed"
  BY <1>1, EndFacts DEF Crash, Results
<1>3. CASE p \in Appliers
  <2>1. \/ staging'[p] = staging[p]
        \/ pc[p] = "cleanup" /\ staging'[p] \in {"none", "torn"}
    BY <1>1, <1>3 DEF Crash, TypeOK
  <2>. QED
    BY <1>1, <1>2, <1>3, <2>1, ApplierEndsOwn DEF Good
<1>4. CASE p \in Starters
  <2>1. OthersKept(p) /\ Unwritten(p)'
    BY <1>1, <1>4, SameFiles, StartFacts DEF Unwritten
  <2>. QED
    BY <1>1, <1>2, <1>4, <2>1, StartEndsGood
<1>. QED
  BY <1>3, <1>4 DEF Processes

StepOf(p) == Begin(p) \/ Crash(p) \/ (p \in Appliers /\ Apply(p)) \/ (p \in Starters /\ Start(p))

\* Every step of a process is good.
LEMMA StepGood == ASSUME Inv, NEW p \in Processes, StepOf(p) PROVE Good(p)
<1>1. CASE Begin(p) \/ Crash(p)
  BY <1>1, BeginGood, CrashGood
<1>2. CASE p \in Appliers /\ Apply(p)
  BY <1>2, CheckPendingGood, ReadInputGood, StagingGood, RecheckGood, InstallGood,
     InstallRaisesGood, RollbackGood, RestoreGood, ApplyEndsGood DEF Apply
<1>3. CASE p \in Starters /\ Start(p)
  BY <1>3, PrepareStartGood, StartInstallsGood, StartRaisesGood, StartInterruptedGood,
     RemoveSourceGood DEF Start
<1>. QED
  BY <1>1, <1>2, <1>3 DEF StepOf

\* An edit, and a stuttering step, change nothing a process relies on.
LEMMA EditKeepsInv ==
  ASSUME Inv, (\E e \in Edits, f \in Paths : Edit(e, f)) \/ UNCHANGED vars
  PROVE  Inv'
<1>1. Typed' /\ TypeOK
  BY EditKeepsTyped DEF Inv, Typed
<1>2. UNCHANGED <<staging, lock, pc, cursor, originals, result>>
  BY DEF Edit, vars
<1>3. \A x \in Processes, f \in Paths : Carries(f, x)' <=> Carries(f, x)
  BY <1>1, ProcessFacts DEF Edit, Put, vars, Carries, TypeOK
<1>4. ASSUME NEW x \in Processes, NEW f \in Paths, SeenFile(x, f) PROVE SeenFile(x, f)'
  <2> SUFFICES ASSUME NEW c \in Edits, Carries(f, c)' PROVE c \in (originals[x][f] \cup unseen[f])'
    BY DEF SeenFile
  <2>1. unseen[f] \subseteq unseen'[f]
    BY <1>1 DEF Edit, vars, TypeOK
  <2>2. CASE Carries(f, c)
    BY <1>2, <1>4, <2>1, <2>2 DEF SeenFile
  <2>3. CASE ~Carries(f, c)
    <3>1. PICK e \in Edits, g \in Paths : Edit(e, g)
      BY <2>3 DEF vars, Carries
    <3>2. f = g /\ c = e
      BY <1>1, <2>3, <3>1 DEF Edit, Put, Carries, TypeOK
    <3>3. c \in unseen'[f]
      BY <1>1, <3>1, <3>2 DEF Edit, TypeOK
    <3>. QED
      BY <3>3
  <2>. QED
    BY <2>2, <2>3
<1>5. ASSUME NEW x \in Processes PROVE Own(x)'
  <2>1. Own(x)
    BY DEF Inv
  <2>2. Faithful(x)' /\ Unwritten(x)'
    BY <1>2, <1>3, <2>1 DEF Own, Faithful, HasRead, Unwritten
  <2>3. x \in Appliers => Applied(x)' /\ Staged(x)' /\ Alone(x)'
    BY <1>2, <1>3, <2>1, UpdateFacts DEF Own, Applied, EveryFile, NoFile, Staged, Alone
  <2>4. x \in Appliers => Seen(x)'
    <3> SUFFICES ASSUME x \in Appliers PROVE Seen(x)'
      OBVIOUS
    <3>1. pc[x] = "restore" => Updates[x][cursor[x]] \in Paths
      BY CurrentFile DEF Inv
    <3>. QED
      BY <1>2, <1>4, <2>1, <3>1, InputFacts DEF Own, Seen
  <2>5. x \in Starters => Started(x)'
    BY <1>2, <1>3, <2>1, StarterFacts DEF Own, Started, StartedWhole
  <2>. QED
    BY <2>2, <2>3, <2>4, <2>5 DEF Own
<1>. QED
  BY <1>1, <1>5 DEF Inv

\* The initial state.
LEMMA InitInv == Init => Inv
<1> SUFFICES ASSUME Init PROVE Inv
  OBVIOUS
<1>1. Typed
  BY InitTyped
<1>2. \A x \in Processes, f \in Paths : x \notin Original[f]
  BY ProcessFacts, AuthoringAssumption DEF AuthoringAssumption, Absent
<1>3. ASSUME NEW x \in Processes PROVE Own(x)
  <2>1. /\ pc[x] = "start" /\ originals[x] = Original
        /\ (x \in Appliers => staging[x] = "none") /\ \A f \in Paths : ~Carries(f, x)
    BY <1>2 DEF Init, Carries
  <2>2. Faithful(x) /\ Unwritten(x)
    BY <1>2, <2>1 DEF Faithful, HasRead, Unwritten
  <2>3. x \in Appliers => Applied(x) /\ Staged(x) /\ Alone(x) /\ Seen(x)
    BY <2>1 DEF Applied, Staged, Alone, Seen
  <2>4. Started(x)
    BY <2>1 DEF Started
  <2>. QED
    BY <2>2, <2>3, <2>4 DEF Own
<1>. QED
  BY <1>1, <1>3 DEF Inv

\* The step of a specification is one of a process, an edit or a stutter.
LEMMA StepCases ==
  ASSUME [Next]_vars
  PROVE  \/ \E p \in Processes : StepOf(p)
         \/ (\E e \in Edits, f \in Paths : Edit(e, f)) \/ UNCHANGED vars
BY DEF Next, StepOf, Processes

\* Every step keeps the invariant.
LEMMA NextKeepsInv == Inv /\ [Next]_vars => Inv'
<1> SUFFICES ASSUME Inv, [Next]_vars PROVE Inv'
  OBVIOUS
<1>1. ASSUME NEW p \in Processes, StepOf(p) PROVE Inv'
  <2>1. Proper(p)
    BY <1>1, StepProper DEF StepOf, Inv
  <2>. QED
    BY <1>1, <2>1, StepGood, GoodKeepsInv
<1>. QED
  BY <1>1, EditKeepsInv, StepCases

(* The invariant of the two commands holds in every state.                 *)
THEOREM AuthoringInvariant == Spec => []Inv
BY InitInv, NextKeepsInv, PTL DEF Spec

-----------------------------------------------------------------------------
\* All or none of the files of an application.
LEMMA FilesByIndex ==
  ASSUME NEW p \in Appliers
  PROVE  /\ EveryFile(p) <=> \A f \in UpdatedFiles(p) : Carries(f, p)
         /\ NoFile(p) <=> \A f \in UpdatedFiles(p) : ~Carries(f, p)
<1>1. UpdatedFiles(p) = {Updates[p][i] : i \in 1..Len(Updates[p])}
  BY UpdateFacts DEF UpdatedFiles, Range
<1>. QED
  BY <1>1 DEF EveryFile, NoFile

\* Where an application has replaced a part, its journal is there.
LEMMA InvPartial == Inv => PartialHasRecovery
<1> SUFFICES ASSUME Inv, NEW p \in Appliers, staging[p] # "journalled" PROVE Whole(p)
  BY DEF PartialHasRecovery
<1>1. pc[p] \in ApplierSteps /\ Applied(p) /\ Staged(p)
  BY ApplierFacts DEF Phase
<1>2. EveryFile(p) \/ NoFile(p)
  BY <1>1, UpdateFacts DEF Applied, Staged, NoFile, ApplierSteps
<1>. QED
  BY <1>2, FilesByIndex DEF Whole

(* A partial application always has its recovery data (_apply_files), for  *)
(* any number of files and commands.                                       *)
THEOREM RecoveryKept == Spec => []PartialHasRecovery
BY AuthoringInvariant, InvPartial, PTL

\* The invariant covers what an application reports.
LEMMA InvReports == Inv => ReportsTruth
<1> SUFFICES ASSUME Inv, NEW p \in Appliers, pc[p] = "done"
             PROVE  /\ result[p] = "applied" => EveryFile(p)
                    /\ result[p] \in {"failed", "refused"} /\ staging[p] = "none" => NoFile(p)
  BY FilesByIndex DEF ReportsTruth
<1>. QED
  BY ApplierFacts DEF Applied

(* What an application reports is what happened (_apply_files,             *)
(* apply_reviewed_component_inputs).                                       *)
THEOREM ReportsProved == Spec => []ReportsTruth
BY AuthoringInvariant, InvReports, PTL

\* The invariant covers how a start ends.
LEMMA InvStarted == Inv => StartAllOrNothing
BY StartFacts DEF StartAllOrNothing, Started

(* A start that was not interrupted leaves both halves or neither          *)
(* (apply_component_start).                                                *)
THEOREM StartsWhole == Spec => []StartAllOrNothing
BY AuthoringInvariant, InvStarted, PTL

-----------------------------------------------------------------------------
\* The changes of a command that has ended survive every step.
LEMMA StepKeepsApplied ==
  ASSUME Inv, [Next]_vars, NEW p \in Processes, NEW f \in Paths, pc[p] = "done", Carries(f, p)
  PROVE  Carries(f, p)'
<1>1. CASE \E q \in Processes : StepOf(q)
  <2>1. PICK q \in Processes : StepOf(q)
    BY <1>1
  <2>2. OthersKept(q) /\ (lock = q \/ UNCHANGED files)
    BY <2>1, StepGood DEF Good
  <2>3. lock # p
    BY DEF Inv, Typed, Holding, Outside
  <2>. QED
    BY <2>2, <2>3 DEF OthersKept, Carries
<1>2. CASE (\E e \in Edits, g \in Paths : Edit(e, g)) \/ UNCHANGED vars
  BY <1>2 DEF Inv, Typed, TypeOK, Edit, Put, vars, Carries
<1>. QED
  BY <1>1, <1>2, StepCases

(* No command undoes another that has succeeded: the shared lock spans the *)
(* reads of each and its replacements.                                     *)
THEOREM UpdatesSurvive == Spec => CooperatingUpdatesSurvive
<1> DEFINE Survive == \A p \in Processes, f \in Paths :
             result[p] = "applied" /\ pc[p] = "done" /\ Carries(f, p) => Carries(f, p)'
<1>1. Inv /\ [Next]_vars => Survive
  BY StepKeepsApplied
<1>2. Spec => [][Inv /\ Next]_vars
  BY AuthoringInvariant, PTL DEF Spec
<1>3. [Inv /\ Next]_vars => [Survive]_vars
  BY <1>1
<1>. QED
  BY <1>2, <1>3, PTL DEF CooperatingUpdatesSurvive

(* Nothing is installed on top of a partial application: the search for    *)
(* pending staging directories finds every one (_pending_review_staging).  *)
THEOREM WholeUnderneath == Spec => BuildsOnWhole
<1> DEFINE Builds == \A p \in Appliers : Install(p) => \A q \in Appliers \ {p} : Whole(q)
<1>1. ASSUME Inv PROVE Builds
  <2> SUFFICES ASSUME NEW p \in Appliers, Install(p), NEW q \in Appliers \ {p} PROVE Whole(q)
    OBVIOUS
  <2>1. staging[q] = "none"
    BY <1>1, ApplierFacts DEF Install, Alone
  <2>. QED
    BY <1>1, <2>1, InvPartial DEF PartialHasRecovery
<1>2. Spec => [][Inv /\ Next]_vars
  BY AuthoringInvariant, PTL DEF Spec
<1>3. [Inv /\ Next]_vars => [Builds]_vars
  BY <1>1
<1>. QED
  BY <1>2, <1>3, PTL DEF BuildsOnWhole

\* What an application writes keeps the edits it has seen.
LEMMA ApplierKeepsEdits ==
  ASSUME Inv, NEW p \in Appliers, Apply(p), NEW e \in Edits, NEW f \in Paths,
         Carries(f, e), ~Carries(f, e)'
  PROVE  e \in unseen[f]
<1>1. TypeOK
  BY ApplierFacts
<1>2. PICK c : /\ \/ pc[p] = "install" /\ c = Updated(p, Updates[p][cursor[p]])
                  \/ pc[p] = "restore" /\ c = originals[p][Updates[p][cursor[p]]]
               /\ Put(Updates[p][cursor[p]], c)
  <2>1. files' # files
    BY DEF Carries
  <2>2. Install(p) \/ Restore(p)
        \/ \E reached \in {"nothing", "attempt", "effect"} : InstallRaises(p, reached)
    BY <2>1 DEF Apply, CheckPending, ReadInput, CheckBaseline, MakeStaging, WriteJournal,
       Recheck, Rollback, RollbackRaises, ApplyRaises, Cleanup
  <2>. QED
    BY <2>1, <2>2 DEF Install, Restore, InstallRaises
<1>3. PICK g \in Paths : g = Updates[p][cursor[p]]
  BY <1>2, CurrentUpdate
<1>4. f = g /\ e \notin c
  BY <1>1, <1>2, <1>3 DEF Put, Carries, TypeOK
<1>5. SeenFile(p, g)
  <2>1. CASE pc[p] = "install"
    BY <1>2, <1>3, <2>1, CurrentUpdate, UpdateFacts, ApplierFacts DEF Seen
  <2>2. CASE pc[p] = "restore"
    BY <1>3, <2>2, ApplierFacts DEF Seen
  <2>. QED
    BY <1>2, <2>1, <2>2
<1>6. e \notin originals[p][f]
  BY <1>2, <1>3, <1>4 DEF Updated
<1>. QED
  BY <1>4, <1>5, <1>6 DEF SeenFile

\* A start that writes moves on.
LEMMA StartMoves ==
  ASSUME Inv, NEW p \in Starters, Start(p), files' # files
  PROVE  pc'[p] # pc[p]
<1>1. CASE InstallSource(p)
  BY <1>1, StartFacts, GotoFacts DEF InstallSource, Steps
<1>2. CASE InstallIntent(p)
  BY <1>2, StartFacts, EndFacts DEF InstallIntent, Results
<1>3. CASE StartInterrupted(p)
  BY <1>3, StartFacts, EndFacts DEF StartInterrupted, Results
<1>4. CASE RemoveSource(p)
  BY <1>4, StartFacts, EndFacts DEF RemoveSource, Results
<1>. QED
  BY <1>1, <1>2, <1>3, <1>4 DEF Start, PrepareStart, StartRaises

(* An edit that an application or its rollback overwrites came after its   *)
(* last look at the file (_apply_files, _rollback_files).                  *)
THEOREM SeenEditsSurvive == Spec => EditsSeenSurvive
<1> DEFINE Survive == \A e \in Edits, f \in Paths :
             Carries(f, e) /\ ~Carries(f, e)' =>
               e \in unseen[f] \/ \E p \in Starters : pc[p] # pc'[p]
<1>1. ASSUME Inv, [Next]_vars PROVE Survive
  <2> SUFFICES ASSUME NEW e \in Edits, NEW f \in Paths, Carries(f, e), ~Carries(f, e)'
               PROVE  e \in unseen[f] \/ \E p \in Starters : pc[p] # pc'[p]
    OBVIOUS
  <2>1. files' # files
    BY DEF Carries
  <2>2. CASE \E p \in Processes : StepOf(p)
    <3>1. PICK p \in Processes : StepOf(p)
      BY <2>2
    <3>2. ~Begin(p) /\ ~Crash(p)
      BY <2>1 DEF Begin, Crash
    <3>. QED
      BY <1>1, <2>1, <3>1, <3>2, ApplierKeepsEdits, StartMoves DEF StepOf
  <2>3. CASE (\E d \in Edits, g \in Paths : Edit(d, g)) \/ UNCHANGED vars
    BY <1>1, <2>3 DEF Inv, Typed, TypeOK, Edit, Put, vars, Carries
  <2>. QED
    BY <1>1, <2>2, <2>3, StepCases
<1>2. Spec => [][Inv /\ Next]_vars
  BY AuthoringInvariant, PTL DEF Spec
<1>3. [Inv /\ Next]_vars => [Survive]_vars
  BY <1>1
<1>. QED
  BY <1>2, <1>3, PTL DEF EditsSeenSurvive

=============================================================================
