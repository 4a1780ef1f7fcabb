# A TLA+ development for spaghetti-extractor

`spaghetti-extractor` helps an operator reconstruct 32-bit Windows PE programs
as C, one component at a time. Most of its 300 000 lines of Python are
sequential transformations of immutable artifacts. The parts whose correctness
depends on *order* (who runs when, what fails half way, what is left behind)
are few, and these modules are about them. The largest is not Python that runs
but C that the Python emits: the runtime linked into every generated candidate
through which host threads enter lifted functions. The second is an analysis, the
execution closure, whose result must not depend on the order in which it works
and decides what a module may execute.

Paths below are relative to the repository; `candidate/`, `commands/` and
`transfer/` are directories of `src/spaghetti_extractor/`.

## 1. Inventory

### Components with interesting state

| Part | State it keeps | Operations | Interacts with |
|---|---|---|---|
| Native ingress runtime, capabilities (`candidate/native_ingress_runtime_source.py`, `_capabilities.py`, `_compact.py`, `_model.py`) | per code capability a table of 64 generation slots under a spin lock; a global generation counter; the owner of each compact callback target | authorize, activate/publish, commit, revoke, replace, expire (thread, ingress, event, process), claim a compact target | called by every ingress and every outgoing call, from any host thread |
| Native ingress runtime, frames (`_source.py`, `_assembly.py`, `_exception.py`) | per thread a TLS block: header (generation counter, image generation), stack of ingress frames, TEB stack bounds; globally `image_active`, `image_generation` | prepare, dispatch, finish, SEH dispatch and recovery, unwind notification, attach/detach/thread detach | host code re-enters it from inside outgoing calls; the loader calls it for `DllMain` and TLS callbacks |
| Module runtime (`candidate/module_runtime_render.py`) | the capability lent by the outgoing call in progress | outgoing call, settlement of its callback, publication of a registered code result | calls the capability operations |
| Runtime core (`candidate/runtime_render_core.py`) | loader-target table (compare-exchange), bounded object tables, native memory | bind, resolve, allocate, release | module runtime |
| Component authoring (`commands/component_apply.py`, `commands/component_start.py`) | the target bundle's declaration files; a lock file; `.component-review-*` staging directories | apply a reviewed component (multi-file replacement with journal and rollback), start a component (two-file replacement) | each other through the lock and the intent file; editors that know neither |
| Comparison history (`operator/comparison_history.py`) | a chain of comparison results and a `latest` link | look up, publish after a second look | concurrent comparisons |
| Artifact publication (`artifacts/`), source project application (`candidate/source_project_apply.py`) | staged files or directories, backup | stage, recheck, rename, roll back | operator commands |
| Component comparison (`components/comparison_*.py`), test kit (`testkit/`) | compile cache, case deadlines, manifests | reuse, run, time out, retain | external compilers, Wine, emulators |
| Transfer closure (`transfer/closure_fixed_point.py`, `closure_calls.py`, `closure_model.py`, `closure_io.py`, `provenance_*.py`) | a worklist of (transfer, function context) with a joined abstract state each; branch edges kept back; return summaries and who waits for them; active call frames; resolutions of indirect sites; failures and blockers | visit a key, flush the branch edges, decide; replay the artifact | the plan compiler before it; the host, which executes the module when the closure is complete; the native kernel, which must agree |

Purely functional or external parts (extraction, symbolic execution, semantic
linking, contracts, PE parsing, ABI solving, ISA catalogue, Lean development,
Nix build, Wine shims) are listed one by one, with the reason they are not
modelled, in `PROJECT.json`.

### Which behaviours are hard

* **Re-entry.** A lifted function calls out; the host calls back in on the same
  thread before the call returns, up to `SPX_NATIVE_MAX_INGRESS_DEPTH` deep. Each
  nesting lends and takes back permissions (capability generations).
* **Several threads over one registry.** Slots are matched by thread address,
  by ingress number and by generation; each operation locks one capability at a
  time, and a scan over all capabilities is not atomic.
* **Abnormal exits.** A frame ends by an ordinary finish, by a failed dispatch, by
  a hardware exception recovered at an outer frame, or by a host unwind.
* **Counters.** The capability counter and the per-thread ingress counter are
  32-bit and 0 means "none" in both.
* **Loader order.** Process detach expires, deactivates and retires in three
  steps while other threads may be inside.
* **A fixed point in any order.** The closure reads summaries, frames and resolutions
  that later visits change; each must bring its readers back, branch edges are
  delayed, and a failure of one visit may be cured by the next. The worklist's
  priorities differ between the reference and the native kernel, the result may not.
* **What is analysed against what runs.** Faults with unwind functions and
  resumptions, nonlocal returns, callbacks and several roots make paths that no
  single visit sees.
* **Multi-file transactions** stopped between any two file operations by an
  exception, a `KeyboardInterrupt` or a kill, next to editors that take no lock.

`PROJECT.json` lists every hazard at its line with the properties that
cover it, or the reason why none does.

## 2. Modules

```
CapabilityTable          one capability: slots and locked critical sections (operators)
  NativeIngress          EXTENDS it: threads, frames, calls, exceptions, loader
    MCNativeIngress      instances for TLC (5 cfg files)
  CapabilityTableProofs  lemmas about the operators
    NativeIngressProofs  type correctness
      NativeIngressSafety  ownership of uncommitted generations, no eviction,
                           compact targets, uniqueness of generations
        NativeIngressStack  frame stack, admissions, detach, lent capabilities
ComponentAuthoring       the two authoring transactions
  MCComponentAuthoring   instances for TLC (2 cfg files)
  ComponentAuthoringProofs  type correctness and exclusion by the lock
    ComponentAuthoringSafety  the inductive invariant and its six properties
ExecutionAuthority       abstract: what a closure promises to whoever executes a module
TransferClosure          the worklist of the closure (refines it: Discovery)
  ClosedExecution        EXTENDS it: the guest that runs under the closure, and replay
    MCClosedExecution    module images for TLC in families (5 cfg files)
  TransferClosureProofs  reachability is grounded; types; what is visited is settled;
                         the construction is a Discovery
    ClosedExecutionProofs  a complete closure is settled; the guest is simulated;
                           construction, replay and execution implement ExecutionAuthority
```

### CapabilityTable

One operator per critical section of the generated C: each takes the slot table
of one capability and returns the new one. The code scans slots in index order
and stops at the first match, so `First` picks the least index. A critical
section calls nothing that takes another lock and runs to its unlock, so one
operator is one atomic step.

### NativeIngress

| Variable | Code |
|---|---|
| `slots`, `next_generation` | `spx_native_capabilities[]`, `spx_native_next_capability_generation` |
| `assignments` | `spx_native_compact_target_assignments` (the count means "free") |
| `image_active`, `image_generation` | the two globals of the loader lifecycle |
| `header`, `frames` | the TLS block: `spx_native_thread_header` and the frames below `depth` |
| `bounds` | what the TEB's stack fields describe: the host stack or the private one |
| `pc`, `op` | the runtime operation the thread is inside, with its loop index and arguments |
| `loader` | external: whether the loader has run the attach |
| `publisher` | history: who published each slot (used by properties and proofs only) |

Actions are named for the code: `Enter`, `CheckImage`, `AuthorizeCapability`,
`RefuseStack`, `PushFrame` are `spx_native_ingress_prepare`, cut at each access to
shared state; `Preflight`, `GuestReturns`, `GuestFails` and the detach steps
(`ExpireOwner`, `ExpireProcess`, `DeactivateImage`, `RetireImage`) are the dispatch;
`ActivateCapability`, `PublishCapability`, `CommitResult`, `RevokeResult`,
`ClearReplaced`, `CallReturns`, `CallAborts` are activation and settlement;
`StartFinish`, `Fault`, `Unwind`, `ExpireTop`, `PopTop` are the ways of leaving,
which all expire the frame's uncommitted generations capability by
capability *before* they pop it. What guest code and the host do is chosen
freely: any call, any result, any fault at any point, within `HostAllows`, which states
the loader lock and the order of loader callbacks.

Steps that are merged, and why nothing is lost:

* `CheckImage` and `Preflight` read `image_active` and then `image_generation`. The
  image generation only grows and a mismatch of either refuses, so the pair
  has the outcome of one read at the second access.
* A compact target is claimed once and never given back, so the claim and the
  read of `image_active` that follows it in an activation are one step; a refused
  activation still claims (`ActivationRefused`).
* The initial read of `image_generation` by a new thread header is part of `Enter`.
* A synthesized fault that the dispatch recovers within its own frame abandons no
  frame; it is part of the guest step.

Left out of this module, and planned as the next one: the exception registers of
the header (`exceptional`, the recovery portal's outcome 4), interface-callback
bindings, register and x87 projections, and the failure of
`spx_native_runtime_restore_execution`. A fault is recovered at *any* frame whose
bridge has a handler, which is more behaviour than the code has.

### ComponentAuthoring

The content of a file is the set of changes it carries, and a file that carries
nothing does not exist. A transaction derives each new content from what it read
at its beginning, as the code does (`originals`), so a lost update is a change
that disappears from the set. One action is one file operation. The rollback is
modelled with the code's own look-then-write steps: a file is noted in `installed`
*before* its replacement is attempted, and on the way back a file that still has
its original content is skipped, one that has neither content is a conflict
that keeps the staging directory.

`InstallRaises` has three forms: the step fails before the file is noted (creating
a parent directory), the replacement fails, or an interrupt arrives after the
replacement took effect. `Crash` may follow any step; `flock` is released by the
kernel. `Edit` is an editor that takes no lock, and `unseen` remembers which edits
landed after the lock holder last looked at the file. Left out: symbolic-link
and schema checks, created directories and file modes (they only add ways of
failing that are modelled already), an application with nothing to change
(returns before staging), and the plan and package copies of `component start`.

### ExecutionAuthority, TransferClosure, ClosedExecution

`TransferClosure` is `build_module_execution_closure_v1`. `Visit(key)` is one turn
of its loop, `Flush` the branch that follows the delayed branch edges when
nothing else is pending, `Decide` everything after the loop.

| Variable | Code |
|---|---|
| `program` | the transfer plan (`by_rva`), chosen once |
| `states`, `queued`, `steps` | `states`, `pending`/`queued`, `steps` |
| `deferred` | `deferred_direct_edges` |
| `edges` | `reachable_edges` |
| `summaries`, `dependents` | `return_summaries`, `return_dependents` |
| `frames` | `active_call_frames` |
| `escapes`, `indirect` | `callback_contexts`, `indirect_contexts` as the artifact lists them |
| `failures`, `blockers` | what a later visit may take back, and what none does |
| `verdict` | `status` and `authorizes_execution` |

A visit is one definition per concern of the loop's body: `Waiting` and `Out` (the call and
the summaries behind it), `FaultEdges` (unwind functions, handler, resumption, each
from the summary of the one before), `NonlocalEdges` (the chain of frames from
`_resolve_nonlocal_transition_v1`), `CallbackEdges`, `Successors` and `KeptBack`,
`JumpResolution` and `IndirectEdges`, `CallEdges`, `SummariesAfter`. `StatesAfter`
is `enqueue` for all edges of the visit at once, which is the same because a join
is a union cut at a limit.

What is abstract: a transfer has one data effect, at most one fault, one call and
a terminator. A reference state is one register, one global cell with
"written since the function began", and the frame bindings. The cut to unknown at
`AlternativeLimit`, the suffix of the call string, the write effects of a
summary, the value of an unwritten cell in the image and the difference between a scalar, an
external function and code are kept. `Unknown` is both the unknown scalar and the conflict: neither has
a target, and only the comparison with the image's value (`Explicit`) tells them apart. It
cannot go wrong where the image's value is known. Where it is a conflict, `ConflictAssumption`
admits no store of an unknown scalar, so that an `Unknown` cell is always a conflict. A cell for which
the image has no value (`UNKNOWN_SCALAR`) is not modelled. Left out: flags and the refinement of states at
a branch, stack cells and what is projected from them to a callee, allocation
identities, summaries that cannot be instantiated, write footprints of external
functions, and numeric collisions of unwind call strings (the code adds an rva and two
indices; the model keeps them apart). The heap of the worklist is a set: every order of
visits is a behaviour, among them those of the reference and of the native kernel.

`ClosedExecution` adds what the closure is for. `Enter` is the host, which under a
complete closure enters a root, or code the guest has given to an external function.
`Call`, `Advance`, `Return`, `Fault`, `Nonlocally` and `Leave` execute one transfer with a concrete
register and cell. They are external: the module under the host, as the effects and
edges of `src/` describe it (so an external function keeps to the authority of its transfer, and one
reached by a tail jump returns for its caller only if it returns at all). Each activation
carries the function context the closure gives it, so `Simulated` can compare the two. `Replay` is
`check_module_execution_closure_v1`: the construction starts again, and `first`
remembers what it returned before.

`ExecutionAuthority` is the promise: units and edges that only grow until they are
decided, once; execution only under a complete decision, from a root or from code that was
given away; and afterwards only along edges. `AuthorityHolds` says that
`ClosedExecution` implements it, by the mapping at the end of that module
(a replay maps to a stutter, since the authority in force is the first one's).

The six families of images in `MCClosedExecution` are: an indirect call through
a global in a loop with recursion, nonlocal returns over one or two calls, handled faults
with up to two unwind functions, callbacks, boundary exits with stray edges and
conflicting authorities, and tail calls of external functions. Each fixes a
few units and varies the rest. The construction was compared with the Python
function on all 662 images (built as real transfer plans): the same verdict, edges,
indirect targets and callbacks in every one.

## 3. Runs

| Run | Instance | Distinct states | Shows |
|---|---|---|---|
| `ingress_nested` | 1 thread, depth 3, during-call and one-shot capability, exceptions and unwinds | 990 342 | frame stack, stack bounds and lent capabilities stay in step |
| `ingress_threads` | 2 threads, some thread always steps; 4 capabilities, one per lifetime, two of them for one compact target | 480 440 | ownership of provisional generations, one-shot admission, unique generations, one claimant of a compact target, runtime operations keep returning |
| `ingress_loader` | 2 threads, DllMain and TLS, two rounds | 877 943 (symmetry) | a quiesced detach is final |
| `authoring` | 2 appliers over shared files, 2 starts of one component, 1 edit, all interruptible | 492 043 (symmetry of the starts) | recovery data, truthful results, no lost update, no build on a partial application, edits survive, a start is all or nothing unless interrupted |
| `closure` | 662 module images of 8 units, 2 roots | 171 363 | the closure is a fixed point in every order, and every execution under a complete closure stays inside it |
| `ingress_foreign_expiry`, `ingress_rearm`, `authoring_interrupted`, `closure_shared_cell`, `closure_resumption`, `closure_noreturn`, `closure_recursion` | | | the findings of section 4 |

### What the properties say

* `ProvisionalHasLiveOwner`, `DuringCallHasLiveOwner`: what an ingress lent and
  never committed dies with it; a thread that inherits the TLS address of
  a dead one inherits no permission.
* `DuringCallAdmissionNested`: a callback admitted by a during-call generation runs
  above the frame that lent it, which is still inside its call.
* `OneShotAdmitsOnce`, `UniqueGenerations`: no two admissions by one one-shot
  generation; settlement by generation number hits one publication.
* `LentUntilReturn` (one thread): nothing takes a lent permission away early.
* `FramesOrdered`, `LeavingSparesOthers`: inner ingresses leave without touching what
  outer ones own.
* `StackBoundsFollowFrames`: finish restores the bounds a frame saved, abandoning
  restores them only at depth 0; every mix leaves the TEB right.
* `NeverEvicts`: a full table refuses. `DetachLeavesNothing`: see the run.
* `CompactTargetExclusive`: the loser of the claim is refused for good.
* `OperationsKeepReturning` (liveness): as long as threads stay inside the runtime, operations
  return, again and again; the scans over the capabilities end whoever wins the locks. An
  operation that no other competes with returns, then; one among others is promised nothing.
* `PartialHasRecovery`, `ReportsTruth`, `CooperatingUpdatesSurvive`, `BuildsOnWhole`,
  `EditsSeenSurvive`, `StartAllOrNothing`: the promises of the authoring commands.
  `InterruptedStartUndone` is the same for a start that an interrupt ends, and fails.
* `Simulated`: wherever the guest is, the closure has a state for its unit and
  context, and that state covers its register and its cell. This is the soundness of
  every join, summary and call string together.
* `MayReach`: the same without data; every unit that runs and every edge that is taken is
  in the artifact.
* `TargetsResolved`: under a complete closure the guest has no indirect target that the
  closure could not resolve.
* `Settled`: visiting any key of a complete closure again changes nothing. Something that
  changed without bringing back its readers shows here even when no execution notices.
* `Converges`, `Replays`: the worklist empties before its limit in every order, and every
  order gives a complete artifact of the same content.
* `AuthorityHolds`: the refinement of `ExecutionAuthority`.

### Bounds, and why they are enough

`SlotCount` 1 or 2 stands for 64: `ingress_nested` allows three registrations over
two slots, so a full table and the reuse of a freed slot both happen. Depth 2 or 3
has an outermost, a middle and a top frame, which are all the cases
`PopTop` and `Fault` tell apart. Two threads suffice for every property, each of which
relates two frames or two slots. `MaxCapabilityGeneration`,
`MaxIngressGeneration` and `MaxImageGeneration` are guards that stop activation,
entry and attach; they only cut behaviours short, and the cfgs choose
moduli above them so that no counter wraps (section 5 says what a wrap does). For the authoring runs, three files replaced in
order have a first, a middle and a last replacement; the second applier shares
one of them; each process runs one command and each edit happens once, so every
state where nobody can move is one where all commands have ended, and the deadlock
check is off there. It is on in every ingress run.

In the closure runs eight units give each family its callers, callees, handlers and
continuations. `AlternativeLimit` 2 lets two targets be resolved and the third join
become unknown; `CallStringLimit` 1 makes recursion and calls from two sites share a
context. `MaximumWorklistSteps` 60 is never reached, which `Converges` checks.
`MaxStack` 4 and `MaxEntries` 2 bound the guest: an activation, its callee, the callee's
callee and an unwind function; a root and a callback, or a root twice. Two constants exclude what section 4 reports,
so that the rest can be checked: with `EnterAfterStore` FALSE the host enters only
when the cell is as the closure starts from, and with `FaultInCallee` FALSE only
an activation that the host entered faults. No image of the six families has a call site
with one callee that returns and one that does not; that is `closure_noreturn`. All six hold a known
value in the cell; a recursion left by a nonlocal transfer over a cell whose image word is a conflict
is `closure_recursion`, on an image of its own (`RecursionPrograms`). The guest
may stop anywhere and a closure ends, so the deadlock check is off.

### Fairness

`FairSpec` (run `ingress_threads`) has weak fairness of `\E t \in Threads : Runtime(t)`: as long as some
thread is at a step in which neither the guest nor the host chooses anything, some
thread takes such a step. The only waiting in these operations is the spin on a
capability's lock (`native_ingress_runtime_capabilities.py:6-16`), an exchange in a loop without a
queue. The operating system schedules every thread, and the holder runs straight-line code
that takes no other lock; so the lock is released, and the exchange of somebody succeeds. It
need not be a given thread's, which may lose every race: no fairness of `Runtime(t)`
for each thread is assumed. A locked section is one step, taken when the exchange succeeds;
the failed exchanges before it change nothing and are no steps. Nothing is assumed about
guest code, outgoing calls or the host, which may never return. The authoring commands never wait (the lock is
taken with `LOCK_NB`), so no liveness is stated about them. The closure is one loop
that always can go on: that it ends is the safety property `Converges`, and its limit of steps.

## 4. Findings

Each is a run that TLC ends with a counterexample.

1. **Ingress numbers are not global** (`ingress_foreign_expiry`).
   `spx_native_capability_expire_ingress` matches a slot by `owner_ingress` alone
   (`native_ingress_runtime_source.py:1963`), but every thread numbers its ingresses
   from 1. Thread B finishing its ingress 1 expires what thread A lent in *its*
   ingress 1: A's callback is refused and its outgoing call fails when settled.
2. **A re-armed one-shot callback** (`ingress_rearm`). A one-shot callback used
   before its registering call returns frees its slot uncommitted; if it registers
   itself again it overwrites that slot, and the outer commit finds nothing: a
   successful call is reported as failed.
3. **Ctrl-C during `component start`** (`authoring_interrupted`). The handler catches
   `Exception`, so an interrupt between the two replacements leaves the source
   without its intent row and every later start is refused; `docs/components.md`
   calls the application an atomic command-level transaction. The sibling
   transaction in `component_apply.py` catches `BaseException`.
4. **Roots that share a global** (`closure_shared_cell`). Every root of the closure starts from the
   image, with the file's contents in writable sections too, and what one root stores
   reaches another only along edges. The host enters roots one after the other. If the
   first stores code in a global and the second calls through it, the second
   leaves a closure that is complete and authorizes execution. The same holds for a
   callback, which starts from the memory at its registration. `docs/architecture.md`
   calls the closure a conservative may-reach closure.
5. **Resumption in a called function** (`closure_resumption`). Handlers and resumptions get a
   context without a call string, so the return of resumed code is not a summary
   of the function that faulted: its caller waits for good, without a blocker.
6. **A callee that never returns** (`closure_noreturn`). A call of several known targets goes on
   only when all have a summary. One that loops or ends the process keeps
   what follows the others out of the closure, without a blocker. Here the artifact also
   depends on the order of visits, since a callee may be found before or after the
   continuation was visited.
7. **A nonlocal transfer out of a recursion** (`closure_recursion`). The search for the
   activation to land in visits no context twice (`closure_fixed_point.py:464`), so with a recursion the chain
   of frames it finds is a shortcut past activations. What those stored is restored from the
   frames on the shortcut, unless the state says it. It does not when the joined value is what
   the image holds in the cell anyway (`_normalize_reference_memory_v1`, `closure_model.py:580-608`,
   leaves such a value out). A word of the image that is the address of an object and a
   code address as well is a conflict (`provenance_model.py:506-507`), and every join with a
   conflict is one. In `closure_recursion` the state of the recursion is such a join: it is left
   out, the landing gets the value from before the recursion, and the target that the recursion
   stored is missing behind it from a complete closure. `build_module_execution_closure_v1` does
   the same on this image, with a conflict for the cell in `initial_memory` and the default
   `call_string_limit` of 1; with a greater limit it does so when the recursion goes through as
   many calls. It does not where the image has no value for the cell: then the baseline is
   an unknown scalar (`closure_model.py:572-577`), a joined conflict differs from it, stays in the
   state, and leaves the target unresolved and the closure incomplete.

## 5. Proofs

Checked by TLAPS for every number of threads, bridges, capabilities and slots, any depth
and any moduli, from `ConfigurationAssumption`, `NoThreadAssumption` and
`SlotCountAssumption` only. No property of the bounds in the cfgs is used.

* `TypeCorrect`: `Spec => []TypeOK`. `TypeOK` is not inductive by itself: a step
  that settles a grant needs the grant to name a capability, a pop needs a
  frame, an authorization needs a bridge. `Typed` adds `Shape(t)`, which says what
  each operation in progress relies on. One lemma per action (or group of
  actions that change the same variables) shows that it preserves `Typed`.
* `UncommittedDiesWithItsIngress`: `Spec => []ProvisionalHasLiveOwner`. The danger is the
  pop: the scan that expires a frame's generations releases the lock between
  capabilities, and other threads publish meanwhile. The strengthening `Ownership`
  adds `Swept(t)`: what the scan of `t` has passed holds nothing that `t` published for
  the frame it is leaving. It survives because only `t` publishes for `t`'s ingresses
  and `t` is busy scanning. All other actions are *quiet*: they keep the
  frames of every thread (up to rewriting the top without its generation) and
  only narrow the slots, and one lemma treats them all. No assumption on wrapping is
  needed: a wrapped number can only expire too much, and number 0 is excluded in the
  statement (which is why `DuringCallHasLiveOwner` does fail once that counter has wrapped).
* `PublishingNeverEvicts`: `Spec => NeverEvicts`, from the same classification of steps.
* `TargetsHaveOneCapability`: `Spec => []CompactTargetExclusive`. `TargetsClaimed` says that a
  capability with an active slot, *or about to be published*, owns its target;
  `ClaimsStay` that an assignment is never overwritten.
* `BoundsFollowFrames`: `Spec => []StackBoundsFollowFrames`, inductive with `Typed`. `StackKinds`
  classifies what a step may do to a frame stack (nothing, push, pop the top, cut to an
  inner part, rewrite the top), and the rest of `NativeIngressStack` goes through it.

The others hold until a counter wraps. Both counters are 32-bit in the code; the model's
bounds `MaxCapabilityGeneration` and `MaxIngressGeneration` stop activations and entries, so
"before it wraps" is a hypothesis that relates a bound to a modulus and says nothing
else: `NoCapabilityWrap` and `NoIngressWrap`. Neither can be dropped. The capability counter skips
0 when it wraps (`native_ingress_runtime_source.py:1862`), the ingress counter (`:1194`) does not, and
`expire_ingress(0)` returns at once (`:1957`): with the constants of `ingress_threads` and a 2-bit ingress
counter TLC finds `DuringCallHasLiveOwner` violated. And two generations of equal number are
one to a settlement.

* `GenerationsUnique` (`NoCapabilityWrap`): `[]UniqueGenerations`. `Fresh` adds that a generation
  which was drawn but is not yet published is at most the counter and different from every active
  one and from what every other thread is about to publish. The window is real: the counter and
  the slot are under different locks.
* `NestedIngressesOrdered` (`NoIngressWrap`): `[]FramesOrdered`. `FramesStacked` adds that the
  header was initialized before the first frame, that its counter is positive and still below the
  modulus during an entry, and that all frames but the top are inside an outgoing call.
* `LeavingTakesOnlyItsOwn` (`NoIngressWrap`): the action property `LeavingSparesOthers`,
  from `FramesStacked`: the frame that is left has a generation different from those below it.
* `LocalsHaveLiveOwners` (`NoIngressWrap`): `[]DuringCallHasLiveOwner`, from `Lent`, the
  conjunction of `Ownership`, `FramesStacked`, `GrantsFit` (a grant in progress or kept by a frame
  escapes exactly when the lifetime of its capability does) and `LocalsOwned` (the same of an active
  slot; one that does not escape has a nonzero owner ingress in its publisher's thread).
* `LocalAdmissionsNested` (`NoIngressWrap`): `[]DuringCallAdmissionNested`. `AdmissionsNested`
  follows the admission from the authorization through `PushFrame` (`Holding(t)` counts the
  frame that is still being pushed) and needs `Lent` at the moment of authorization.
* `OneShotsAdmitOnce` (`NoCapabilityWrap`): `[]OneShotAdmitsOnce`. `Spent` says of each admission,
  those in progress included, that its generation is not newer than the counter, that nobody is about
  to publish it, that no slot of a one-shot capability has it, and that nobody else
  holds it. It needs `Fresh`: a generation drawn later is a different one.
* `LentUntilCallReturns` (both, `OneThread`, `NeverDetaches`, `ReplacesEscaped`): `[]LentUntilReturn`.
  The other hypotheses name what takes a lent generation away: a second thread whose ingress has
  the same number (finding 1), and, on purpose, a thread or process detach from inside the call and
  the replacement of a `during_call` capability. `LentKept` says of each lent generation that
  its slot is active *and owned by the ingress of the frame that lent it*, which is what the scans of inner
  ingresses spare; `Drawn` that the generations lent by the calls of a thread were drawn in the order of its
  frames, so that a call which returns revokes no outer one's; `Confined` that a result that is
  revoked, or a capability that is cleared, escapes.
* `DetachIsFinal` (`HostQuiescesDetach`): `[]DetachLeavesNothing`. `Quiesced` adds that
  a detach is the outermost and only entry (`DetachesAlone`), how far the teardown has
  come (`TearsDown`), and for an inactive image that no thread is in an ordinary ingress or past
  the image check (`Outside`). The code has no lock that keeps other threads out of the teardown:
  it is the loader's rule that threads have left, so it is the theorem's
  hypothesis, and `HostAllows` in the model.

`CapabilityTableProofs` has the lemmas about the table operators: every settlement
and expiry only *narrows* a table (a slot stays as it is, is deactivated, or is
committed), publication fills exactly one free slot, and a full scan of
`ExpireIngress` leaves nothing owned by that ingress.

The authoring transactions are proved for any number of appliers, starters, files and
edits, from `AuthoringAssumption` only (an applier replaces files it has read, each once; a
component's source does not exist at first):

* `ComponentAuthoringProofs.TypeCorrect`: `TypeOK` with `Holding` (the lock belongs to the one process
  that is between its first and last step) and `Phase` (cursors stay within the files, which a
  rollback that starts at `FirstUnnoted` has to respect).
* `AuthoringInvariant`: `Spec => []Inv`, where `Inv` gives every process `p` its own part,
  `Own(p)`. None of the properties is inductive, for they speak of how commands end.
  `Applied` and `Started` say what has been written, by position, and `Staged` which recovery data
  goes with it; both depend on `Faithful`: what `p` has read of a file says exactly
  which *other* commands that file carries now. `Alone` keeps the search for
  interrupted applications true until the end, `Seen` follows the second look at the inputs.
  Every step is `Good`: it keeps its own part and the changes of the others, and
  either holds the lock or writes nothing; `OthersOwn` then carries the parts of all the others,
  who are outside their commands. An editor changes no part, as editors are not commands.
* From it `RecoveryKept`, `ReportsProved`, `StartsWhole` (invariants) and
  `UpdatesSurvive`, `WholeUnderneath`, `SeenEditsSurvive` (action properties).

The closure's theorems hold for every set of images, units and roots and every limit, from
`ClosureAssumption` only:

* `ClosureGrounded`: `Spec => []Grounded`. That the units are the roots and the ends of
  edges follows from each step; that every edge *starts* at a reachable unit does
  not, because an unwind or a resumption edge starts at a function whose summary the
  visit read, a nonlocal edge ends in the context of a frame, and a delayed edge
  is followed later. `IInv` adds that summaries belong to contexts in use, that the entry of every
  context in use is reached, that frames and dependents name keys with a state, and that
  delayed edges start at reached units.
* `ClosureBuildsAuthority`: `Spec => Discovery!Spec`, from the same invariant.
* `ClosureTyped`: `Spec => []TypeOK`. The types of a visit rest on `Grounded` (what a visit reads
  names a key with a state). Contexts are typed with entries outside the units, since the
  context of an edge out of the universe is formed before the edge is refused.
  `Continuation` composes the summaries of unwind functions by recursion on their position. That
  the recursion has a solution (`ComposeUnfolds`) and stays a state is proved by the least position
  where it would fail (`LeastNumber`, `Climb`), as induction on a predicate is out of reach.
* `ClosureSettles`: `Spec => []Settling`, and from it `CompleteIsSettled`:
  `AllSpec => [](~HasNonlocal => Settled)`. A complete closure of an image without nonlocal
  transfers is a fixed point: to visit any of its keys again changes nothing, in whatever order the
  worklist was taken. `Settling` says that each key that is not queued is `Visited`: its edges are
  absorbed by the states of their targets or wait among the deferred ones, what it
  returns, awaits and resolves is recorded, and it is a dependent of every summary it awaits.
  A visit of another key either leaves all that key reads alone (`Stays`), and then its
  edges are the same and stay absorbed since states only grow, or changes it and queues
  the key. A join is absorbed because it is cut to unknown at the limit, and unknown is above
  all; the cut is why `Normal` is part of the invariant.
* `GuestIsSimulated`, `GuestStaysWithinReach`, `GuestTargetsResolved`: `[]Simulated`, `[]MayReach` and
  `[]TargetsResolved`, for any number of entries and any depth of the guest's stack. See below.
* `ReachIsAuthority`: `AllSpec /\ []MayReach => AuthorityHolds`. The step from "every unit
  and every edge taken is listed" to the promise of `ExecutionAuthority`. `EInv` adds to `IInv`
  the shape of the guest's activations, that execution runs only under a complete decision and
  before any replay (so the authority stands still), and that what was given away is the end of a
  `callback_escape` edge: without the last, an entry through a callback could not be mapped.
* `ExecutionIsAuthorized`: `AuthorityHolds` without `MayReach` as a hypothesis, from the two before.

The theorems on the guest have as hypotheses exactly the places where the code loses an execution:

| Hypothesis | Why |
|---|---|
| `~EnterAfterStore` | finding 4: a root entered after another one has stored |
| `~FaultInCallee` | finding 5: a fault in a function that another one waits for |
| `[]CallsReturn` | finding 6: a call site with one callee that returns and one that does not |
| `[]NonlocalExact`, `KnownImage` | finding 7: an image with nonlocal transfers that holds a conflict in the cell |
| `[]NonlocalExact`, `Settled` | an image with nonlocal transfers whose complete closure is no fixed point, see below |

`NonlocalExact` says `HasNonlocal => KnownImage /\ Settled`: of an image without nonlocal transfers it asks
nothing. Without any one of the first four TLC has a counterexample, which is the finding. The run
`closure` meets all of them: its cfg sets the first two, its families have `CallsReturn`, its cell holds
one known value, and `Settled` is one of its properties. The inductive invariant is `Simulation`. Every activation on the guest's stack has
a key with a state (`At`). The running one's register and cell are covered by the state, or after
its call by `Out`. Each activation is `Linked` to the next: by a callee context of its call, or by the
function of its fault that runs now, whose predecessors all have summaries that compose. The hard
part is the cell of an activation that *waits*: when its callee comes back, the closure continues
with the caller's cell if the summary says the callee did not write, and with the callee's otherwise.
So `Tracks` demands that a waiting activation covers the present cell as long as *nothing
above it has written* (`Silent`); it speaks of all of the stack at once, since a callee may not have
written while what it calls has, and of the unwind functions of a fault through the state they
continue from (`Held`). `Awaits` says that code which was given away has a root state that covers
the cell of the moment at which it was given. A step of the guest then goes over an edge of its
key (`Visited`, by `ClosureSettles`), and the state of the edge covers what the guest carries.

Nonlocal transfers. The closure lands such a transfer in the one activation that its chain of
frames leads to, and restores the cell frame by frame (`Restored`). Three facts carry the proof
(`NonlocallyTracks`):

* `LandingChain`: where a complete closure is settled, each call on the guest's stack has its frame, so the
  calls between the landing and the running activation are a walk over frames. A shortest walk
  passes no context twice (`SimpleWalk`, by the least length), so it is one of the chains that the closure
  searches, and a complete closure has exactly one: the landing is the right one.
* `RestoredCovers`: the shortest walk may leave activations out, and with them what they wrote. A state
  that is not `Explicit` about the cell says that it holds the image's value. With `KnownImage` that
  value is one known `v`, and then so does every state of the caller: what flows into the
  entry of a callee comes from its callers (`Flows`, `CalleeEntry`), and nothing known is above
  any other value than itself (`BelowKnown`). So a frame that was left out had nothing to say.
* `LowerKnown`: the same argument below the landing, for the activations that wait there.

`Flows` is the conjunct of `Tracks` that was needed for this: an activation that has not written holds
what the entry of its context holds. Without `KnownImage` the second fact is false, which is finding 7.
Chains are finite in number and length because the universe is (`IsFiniteSet(Units)`, of
`ClosureAssumption`) and each visit adds the frames of finitely many callees (`FramesStayFinite`).

Why `Settled`. A frame says whether anything was written since the call
(`active_call_frames`, `closure_fixed_point.py:1321`), and the nonlocal transfer that has read it is
not brought back when that changes. A complete closure is then not always a fixed point:
with `r` branching to `a` and `b`, where `a` stores what the cell holds already and jumps to `k`,
`b` jumps to `k`, `k` calls `f` to return to `h`, and `f` stores `h` and transfers nonlocally, the
order of visits decides whether the frame of `k` is seen as written. Where the image knows the
cell, no such image was found to miss a unit or an edge; where the image's word is a conflict, some do,
see finding 7.

### Only model-checked

* `OperationsKeepReturning`: liveness under fairness and `ENABLED` are outside the prover.
* `Settled` for images with nonlocal transfers (it does not hold for all, see above), which the
  theorems on the guest have as a hypothesis for such images.
* `Replays`: that all orders of visits end in the same artifact needs every join to be monotone, and
  what a visit does is not: a summary that appears ends a wait, and a state that reaches the limit
  takes back what it resolved before (finding 6 is a case where the order shows).
* `Converges`: it relates the number of visits to a limit, which the height of the states does
  not bound within the limits the code uses; that is arithmetic over recursive data.

## 6. Plan

In this order:

1. `IngressExceptions`: `header.exceptional`, outcomes 1 and 4 of the recovery portal,
   nested recovery and the raise-exception gateway
   (`native_ingress_runtime_exception.py`), composed with the frames of `NativeIngress`.
   Hazards are listed already.
2. An abstract capability registry (a set of grants with an owner and a state) and
   a refinement from `NativeIngress`, at first for one thread, where finding 1
   does not apply.
3. `ComparisonHistory` (two comparisons publish the `latest` link) and the
   rename-and-backup publication of `candidate/source_project_apply.py`, both with
   crashes between steps.
4. Closure: several calls and faults per transfer, branch refinement, and the projection of stack
   cells to a callee; then the loader-target compare-exchange and object tables of
   `runtime_render_core.py`, and deadlines of the test kit's runner.
5. Proofs: which images with nonlocal transfers have a settled closure: a frame
   may change after it was read only where the state of the reader stays as it was.

## 7. Not modelled, and why

Everything listed `not_modelled` in `PROJECT.json`. Symbolic execution, contracts,
semantic linking and PE composition are deterministic functions of large immutable
inputs: their difficulty is in the data, and the repository has Lean, CBMC and
replay checks for it. Drivers of external processes (Wine, emulators, compilers) keep
almost no state of their own between calls. Memory ordering below the level of
the generated code's atomics is not modelled: the locks and the compare-exchange are
sequentially consistent, as the intrinsics the code uses are on x86.

## Running

```
tlc -workers 2 -config MCIngressNested.cfg MCNativeIngress
tlc -workers 2 -config MCAuthoring.cfg MCComponentAuthoring
tlc -workers 2 -config MCClosure.cfg MCClosedExecution
tlapm NativeIngressSafety.tla
tlapm NativeIngressStack.tla
tlapm ComponentAuthoringSafety.tla
tlapm ClosedExecutionProofs.tla
```

Definitions commented "Mutated form" are never used by the specifications. Each is a
plausible bug in the definition that follows it; with it in place TLC finds the
property that `PROJECT.json` pairs it with violated, which shows that the property
constrains the code.
