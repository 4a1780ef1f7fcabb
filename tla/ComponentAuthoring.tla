------------------------ MODULE ComponentAuthoring ------------------------
(***************************************************************************)
(* The authoring transactions of one target bundle: `boundary adopt        *)
(* --apply' merges a reviewed component into the bundle's declarations,    *)
(* `component start --apply' installs a component source and names it in   *)
(* the lifting intent.  Both hold one process lock, stage their files next *)
(* to the bundle and replace them one at a time.  Editors that know        *)
(* nothing of the lock change files meanwhile, any file operation may      *)
(* fail, and a process may be killed between any two of them.              *)
(*                                                                         *)
(* The content of a file is the set of changes it carries: Base for what   *)
(* was there at first, the name of each transaction, the name of each      *)
(* edit.  A file that carries nothing does not exist.  Every step is one   *)
(* file operation of one process.  An applier has something to change: one *)
(* that has not returns before it stages.                                  *)
(***************************************************************************)
EXTENDS Sequences, Integers, FiniteSets, Functions

CONSTANTS
  Appliers,       \* processes that apply a reviewed component
  Starters,       \* processes that start a component
  Edits,          \* changes made by an editor, each at most once
  Paths,          \* files of the bundle
  Base,           \* what a file carries that existed at first
  Nobody,         \* holder of a free lock
  Original,       \* path -> the content that was reviewed
  Inputs,         \* applier -> sequence of the files it reads, in order
  Updates,        \* applier -> sequence of those it replaces, in order
  Reviewed,       \* applier -> the files whose reviewed baseline is checked
  Intent,         \* the lifting intent
  Source,         \* starter -> the component source it installs
  Interruptible   \* processes that may get a KeyboardInterrupt

Processes == Appliers \cup Starters
Changes == Processes \cup Edits
Contents == SUBSET (Changes \cup {Base})
Absent == {}

ASSUME AuthoringAssumption ==
  /\ Appliers \cap Starters = {} /\ Processes \cap Edits = {}
  /\ Base \notin Changes /\ Nobody \notin Processes
  /\ Original \in [Paths -> {{Base}, Absent}]
  /\ Inputs \in [Appliers -> Seq(Paths)] /\ Updates \in [Appliers -> Seq(Paths)]
  /\ \A p \in Appliers :
       /\ IsInjective(Inputs[p]) /\ IsInjective(Updates[p])
       /\ Updates[p] # <<>> /\ Range(Updates[p]) \subseteq Range(Inputs[p])
  /\ Reviewed \in [Appliers -> SUBSET Paths]
  /\ Source \in [Starters -> Paths \ {Intent}]
  /\ Intent \in Paths /\ Original[Intent] = {Base}
  /\ \A p \in Starters : Original[Source[p]] = Absent
  /\ Interruptible \subseteq Processes

VARIABLES
  files,      \* path -> content
  staging,    \* applier -> what its .component-review-* directory holds
  lock,       \* holder of the component-start lock file
  pc, cursor, \* per process: the next file operation
  originals,  \* per process: what it read of each file
  result,     \* per process: how its command ended
  made,       \* the edits made so far
  unseen      \* history: edits of a file since the lock holder looked at it

vars == <<files, staging, lock, pc, cursor, originals, result, made, unseen>>

Steps == {"start", "pending", "read", "stage", "journal", "recheck", "install",
          "rollback", "restore", "cleanup", "exists", "source", "intent",
          "undo", "done"}

TypeOK ==
  /\ files \in [Paths -> Contents]
  /\ staging \in [Appliers -> {"none", "partial", "journalled", "torn"}]
  /\ lock \in Processes \cup {Nobody}
  /\ pc \in [Processes -> Steps]
  /\ cursor \in [Processes -> Nat \ {0}]
  /\ originals \in [Processes -> [Paths -> Contents]]
  /\ result \in [Processes -> {"none", "applied", "failed", "refused",
                            "interrupted", "unrestored", "crashed"}]
  /\ made \subseteq Edits
  /\ unseen \in [Paths -> SUBSET Edits]

Init ==
  /\ files = Original
  /\ staging = [p \in Appliers |-> "none"]
  /\ lock = Nobody
  /\ pc = [p \in Processes |-> "start"]
  /\ cursor = [p \in Processes |-> 1]
  /\ originals = [p \in Processes |-> Original]
  /\ result = [p \in Processes |-> "none"]
  /\ made = {}
  /\ unseen = [f \in Paths |-> {}]

-----------------------------------------------------------------------------
Carries(f, x) == x \in files[f]

\* The content p derives from what it read of f.
Updated(p, f) == originals[p][f] \cup {p}

Goto(p, step, i) ==
  /\ pc' = [pc EXCEPT ![p] = step]
  /\ cursor' = [cursor EXCEPT ![p] = i]

\* The command ends; leaving the with-statement releases the lock.
End(p, r) ==
  /\ Goto(p, "done", 1)
  /\ result' = [result EXCEPT ![p] = r]
  /\ lock' = Nobody

Put(f, content) == files' = [files EXCEPT ![f] = content]
Looked(f) == unseen' = [unseen EXCEPT ![f] = {}]

-----------------------------------------------------------------------------
\* Mutated form: a command goes on without the lock.
LockIgnored == TRUE

LockFree == lock = Nobody

(* Both commands take the lock without waiting for it.                     *)
Begin(p) ==
  /\ pc[p] = "start"
  /\ IF LockFree
       THEN /\ lock' = p
            /\ Goto(p, IF p \in Appliers THEN "pending" ELSE "exists", 1)
            /\ UNCHANGED result
       ELSE /\ Goto(p, "done", 1)
            /\ result' = [result EXCEPT ![p] = "refused"]
            /\ UNCHANGED lock
  /\ UNCHANGED <<files, staging, originals, made, unseen>>

\* Mutated form: interrupted applications are not looked for.
PendingIgnored == {}

Pending == {p \in Appliers : staging[p] # "none"}

(* apply_reviewed_component_inputs: an interrupted application must be     *)
(* recovered first.                                                        *)
CheckPending(p) ==
  /\ pc[p] = "pending"
  /\ IF Pending # {} THEN End(p, "refused")
     ELSE Goto(p, "read", 1) /\ UNCHANGED <<lock, result>>
  /\ UNCHANGED <<files, staging, originals, made, unseen>>

(* _apply_locked: read the inputs one by one, then refuse a stale baseline.*)
ReadInput(p) ==
  /\ pc[p] = "read"
  /\ cursor[p] <= Len(Inputs[p])
  /\ LET f == Inputs[p][cursor[p]]
     IN  /\ originals' = [originals EXCEPT ![p][f] = files[f]]
         /\ Looked(f)
  /\ Goto(p, "read", cursor[p] + 1)
  /\ UNCHANGED <<files, staging, lock, result, made>>

CheckBaseline(p) ==
  /\ pc[p] = "read"
  /\ cursor[p] > Len(Inputs[p])
  /\ IF \E f \in Reviewed[p] : originals[p][f] # Original[f]
       THEN End(p, "refused")
       ELSE Goto(p, "stage", 1) /\ UNCHANGED <<lock, result>>
  /\ UNCHANGED <<files, staging, originals, made, unseen>>

(* _apply_files: the staging directory, then in it every new file, every   *)
(* original and the journal.                                               *)
MakeStaging(p) ==
  /\ pc[p] = "stage"
  /\ staging' = [staging EXCEPT ![p] = "partial"]
  /\ Goto(p, "journal", 1)
  /\ UNCHANGED <<files, lock, originals, result, made, unseen>>

WriteJournal(p) ==
  /\ pc[p] = "journal"
  /\ staging' = [staging EXCEPT ![p] = "journalled"]
  /\ Goto(p, "recheck", 1)
  /\ UNCHANGED <<files, lock, originals, result, made, unseen>>

Unchanged(p, f) == files[f] = originals[p][f]

\* All the inputs must still be what was read, one file at a time.
Recheck(p) ==
  /\ pc[p] = "recheck"
  /\ LET f == Inputs[p][cursor[p]]
     IN  /\ Looked(f)
         /\ IF ~Unchanged(p, f)
              THEN Goto(p, "cleanup", 1) /\ result' = [result EXCEPT ![p] = "failed"]
              ELSE /\ IF cursor[p] < Len(Inputs[p]) THEN Goto(p, "recheck", cursor[p] + 1)
                                                   ELSE Goto(p, "install", 1)
                   /\ UNCHANGED result
  /\ UNCHANGED <<files, staging, lock, originals, made>>

Install(p) ==
  /\ pc[p] = "install"
  /\ LET f == Updates[p][cursor[p]]
     IN  Put(f, Updated(p, f)) /\ Looked(f)
  /\ IF cursor[p] < Len(Updates[p])
       THEN Goto(p, "install", cursor[p] + 1) /\ UNCHANGED result
       ELSE Goto(p, "cleanup", 1) /\ result' = [result EXCEPT ![p] = "applied"]
  /\ UNCHANGED <<staging, lock, originals, made>>

\* Mutated form: the rollback goes on below the first file.
RestoreNextUnbounded(p, i) == Goto(p, "rollback", i - 1)

\* The rollback comes to the file before the i-th, or is over.
RestoreNext(p, i) == IF i = 1 THEN Goto(p, "cleanup", 1) ELSE Goto(p, "rollback", i - 1)

\* Mutated form: a file is noted as installed after its replacement.
FirstUnnotedLate(p, reached) == cursor[p]

\* The first file that is not noted as installed: it is noted before its
\* replacement is attempted.
FirstUnnoted(p, reached) == IF reached = "nothing" THEN cursor[p] ELSE cursor[p] + 1

(* The installation of a file raises before its replacement, instead of it *)
(* or, when interrupted, after it took effect.                             *)
InstallRaises(p, reached) ==
  /\ pc[p] = "install"
  /\ reached = "effect" => p \in Interruptible
  /\ LET f == Updates[p][cursor[p]]
     IN  IF reached = "effect" THEN Put(f, Updated(p, f)) /\ Looked(f)
                               ELSE UNCHANGED <<files, unseen>>
  /\ RestoreNext(p, FirstUnnoted(p, reached))
  /\ result' = [result EXCEPT ![p] = "failed"]
  /\ UNCHANGED <<staging, lock, originals, made>>

\* Mutated form: an edit made after the replacement is undone with it.
ConflictIgnored(p, f) == FALSE

Conflict(p, f) == files[f] # Updated(p, f)

(* Look at a replaced file: its replacement may not have taken effect, and *)
(* an editor's change ends the rollback, keeping the recovery data.        *)
Rollback(p) ==
  /\ pc[p] = "rollback"
  /\ LET f == Updates[p][cursor[p]]
     IN  /\ Looked(f)
         /\ \/ /\ Unchanged(p, f)
               /\ RestoreNext(p, cursor[p])
               /\ UNCHANGED <<lock, result>>
            \/ /\ ~Unchanged(p, f) /\ Conflict(p, f)
               /\ End(p, "unrestored")
            \/ /\ ~Unchanged(p, f) /\ ~Conflict(p, f)
               /\ Goto(p, "restore", cursor[p])
               /\ UNCHANGED <<lock, result>>
  /\ UNCHANGED <<files, staging, originals, made>>

Restore(p) ==
  /\ pc[p] = "restore"
  /\ LET f == Updates[p][cursor[p]]
     IN  Put(f, originals[p][f]) /\ Looked(f)
  /\ RestoreNext(p, cursor[p])
  /\ UNCHANGED <<staging, lock, originals, result, made>>

\* Mutated form: a failed rollback removes the recovery data.
StagingAfterRollbackRemoved(p) == "none"

StagingAfterRollback(p) == staging[p]

\* A failure or an interrupt of the rollback itself keeps the recovery data.
RollbackRaises(p) ==
  /\ pc[p] \in {"rollback", "restore"}
  /\ staging' = [staging EXCEPT ![p] = StagingAfterRollback(p)]
  /\ End(p, "unrestored")
  /\ UNCHANGED <<files, originals, made, unseen>>

\* Before the first replacement a failure leaves the bundle alone.
ApplyRaises(p) ==
  /\ \/ pc[p] \in {"pending", "read", "stage"} /\ End(p, "failed")
     \/ /\ pc[p] \in {"journal", "recheck"}
        /\ Goto(p, "cleanup", 1)
        /\ result' = [result EXCEPT ![p] = "failed"]
        /\ UNCHANGED lock
  /\ UNCHANGED <<files, staging, originals, made, unseen>>

\* The staging directory goes; its removal may stop half way.
Cleanup(p) ==
  /\ pc[p] = "cleanup"
  /\ \/ /\ staging' = [staging EXCEPT ![p] = "none"]
        /\ End(p, result[p])
     \/ /\ staging' = [staging EXCEPT ![p] = "torn"]
        /\ End(p, "failed")
  /\ UNCHANGED <<files, originals, made, unseen>>

-----------------------------------------------------------------------------
(* apply_component_start: the source must not exist and the intent must    *)
(* not name one.                                                           *)
PrepareStart(p) ==
  /\ pc[p] = "exists"
  /\ originals' = [originals EXCEPT ![p][Intent] = files[Intent]]
  /\ IF \/ files[Source[p]] # Absent
        \/ \E q \in Starters : Source[q] = Source[p] /\ Carries(Intent, q)
       THEN End(p, "refused")
       ELSE Goto(p, "source", 1) /\ UNCHANGED <<lock, result>>
  /\ UNCHANGED <<files, staging, made, unseen>>

InstallSource(p) ==
  /\ pc[p] = "source"
  /\ Put(Source[p], {p})
  /\ Goto(p, "intent", 1)
  /\ UNCHANGED <<staging, lock, originals, result, made, unseen>>

InstallIntent(p) ==
  /\ pc[p] = "intent"
  /\ Put(Intent, Updated(p, Intent))
  /\ End(p, "applied")
  /\ UNCHANGED <<staging, originals, made, unseen>>

\* Mutated form: a failed start leaves its source behind.
HandlesNothing(p) == End(p, "failed")

\* The handler of a replacement of the intent that raised.
Handles(p) ==
  /\ Goto(p, "undo", 1)
  /\ result' = [result EXCEPT ![p] = "failed"]
  /\ UNCHANGED lock

StartRaises(p) ==
  /\ \/ pc[p] \in {"exists", "source"} /\ End(p, "failed")
     \/ pc[p] = "intent" /\ Handles(p)
     \/ pc[p] = "undo" /\ End(p, "unrestored")
  /\ UNCHANGED <<files, staging, originals, made, unseen>>

(* A KeyboardInterrupt is no Exception: it passes the handler by, before   *)
(* or after the replacement took effect.                                   *)
StartInterrupted(p) ==
  /\ p \in Interruptible
  /\ \/ pc[p] \in {"source", "intent"} /\ UNCHANGED files
     \/ pc[p] = "source" /\ Put(Source[p], {p})
     \/ pc[p] = "intent" /\ Put(Intent, Updated(p, Intent))
  /\ End(p, "interrupted")
  /\ UNCHANGED <<staging, originals, made, unseen>>

RemoveSource(p) ==
  /\ pc[p] = "undo"
  /\ Put(Source[p], Absent)
  /\ End(p, "failed")
  /\ UNCHANGED <<staging, originals, made, unseen>>

-----------------------------------------------------------------------------
(* The process is killed: the kernel drops its lock, its files stay, and   *)
(* the removal of its staging directory may have begun.                    *)
Crash(p) ==
  /\ pc[p] \notin {"start", "done"}
  /\ End(p, "crashed")
  /\ \/ UNCHANGED staging
     \/ pc[p] = "cleanup" /\ staging' = [staging EXCEPT ![p] = "torn"]
  /\ UNCHANGED <<files, originals, made, unseen>>

\* Someone changes or creates a file of the bundle without taking the lock.
Edit(e, f) ==
  /\ e \notin made
  /\ made' = made \cup {e}
  /\ Put(f, files[f] \cup {e})
  /\ unseen' = [unseen EXCEPT ![f] = @ \cup {e}]
  /\ UNCHANGED <<staging, lock, pc, cursor, originals, result>>

Apply(p) ==
  \/ CheckPending(p) \/ ReadInput(p) \/ CheckBaseline(p) \/ MakeStaging(p)
  \/ WriteJournal(p) \/ Recheck(p) \/ Install(p) \/ Rollback(p) \/ Restore(p)
  \/ RollbackRaises(p) \/ ApplyRaises(p) \/ Cleanup(p)
  \/ \E reached \in {"nothing", "attempt", "effect"} : InstallRaises(p, reached)

Start(p) ==
  \/ PrepareStart(p) \/ InstallSource(p) \/ InstallIntent(p)
  \/ StartRaises(p) \/ StartInterrupted(p) \/ RemoveSource(p)

Next ==
  \/ \E p \in Processes : Begin(p) \/ Crash(p)
  \/ \E p \in Appliers : Apply(p)
  \/ \E p \in Starters : Start(p)
  \/ \E e \in Edits, f \in Paths : Edit(e, f)

Spec == Init /\ [][Next]_vars

-----------------------------------------------------------------------------
UpdatedFiles(p) == Range(Updates[p])

Whole(p) ==
  \/ \A f \in UpdatedFiles(p) : Carries(f, p)
  \/ \A f \in UpdatedFiles(p) : ~Carries(f, p)

(* An application that replaced some of its files and not the others, for  *)
(* whatever reason and however it ended, has a complete journal and all    *)
(* the originals in its staging directory (_apply_files).                  *)
PartialHasRecovery ==
  \A p \in Appliers : ~Whole(p) => staging[p] = "journalled"

(* What an application reports is what happened: success means that every  *)
(* file is replaced, a failure that left no staging directory means that   *)
(* none is (_apply_files, apply_reviewed_component_inputs).                *)
ReportsTruth ==
  \A p \in Appliers :
    pc[p] = "done" =>
      /\ result[p] = "applied" => \A f \in UpdatedFiles(p) : Carries(f, p)
      /\ result[p] \in {"failed", "refused"} /\ staging[p] = "none"
           => \A f \in UpdatedFiles(p) : ~Carries(f, p)

(* Once a command has succeeded no other command undoes it: none restores  *)
(* or derives a file from what it read before (the shared lock).           *)
CooperatingUpdatesSurvive ==
  [][\A p \in Processes, f \in Paths :
       result[p] = "applied" /\ pc[p] = "done" /\ Carries(f, p) => Carries(f, p)']_vars

(* A component is never applied on top of another's partial application    *)
(* (the search for pending staging in apply_reviewed_component_inputs).    *)
BuildsOnWhole ==
  [][\A p \in Appliers :
       Install(p) => \A q \in Appliers \ {p} : Whole(q)]_vars

(* The only edits an application or its rollback overwrites are those made *)
(* between its last look at the file and its replacement of it (a start    *)
(* does not look again at what it replaces).                               *)
EditsSeenSurvive ==
  [][\A e \in Edits, f \in Paths :
       Carries(f, e) /\ ~Carries(f, e)' =>
         e \in unseen[f] \/ \E p \in Starters : pc[p] # pc'[p]]_vars

StartedWhole(p) == Carries(Source[p], p) <=> Carries(Intent, p)

(* A started component is named in the intent exactly when its source is   *)
(* installed, unless the command was interrupted or killed or its own      *)
(* rollback failed (apply_component_start).                                *)
StartAllOrNothing ==
  \A p \in Starters :
    pc[p] = "done" /\ result[p] \in {"applied", "failed"} => StartedWhole(p)

(* ... and an interrupted command, which still runs its finally clauses,   *)
(* leaves no half of it either (the rollback of apply_component_start).    *)
InterruptedStartUndone ==
  \A p \in Starters :
    pc[p] = "done" /\ result[p] = "interrupted" => StartedWhole(p)
=============================================================================
