--------------------------- MODULE NativeIngress ---------------------------
(***************************************************************************)
(* The native ingress runtime of a generated candidate: host threads enter *)
(* lifted functions through bridges, guest code lends code capabilities to *)
(* the host while it makes outgoing calls, hardware exceptions and unwinds *)
(* abandon frames, and the loader attaches and detaches the image.         *)
(*                                                                         *)
(* A thread runs one operation of the runtime at a time; pc and op hold    *)
(* where it is.  Every step is one lock-protected critical section, one    *)
(* atomic access to a shared variable, or code that touches only the       *)
(* thread's own TLS block, so interleaving the steps of Next is            *)
(* interleaving the threads of the program.  The exception registers of    *)
(* the thread header (exceptional and its parameters) are abstracted away: *)
(* a fault is recovered at any frame whose bridge has a handler.           *)
(***************************************************************************)
EXTENDS CapabilityTable, Sequences

CONSTANTS
  CapabilityCount,        \* capabilities are 0 .. CapabilityCount - 1
  Lifetime,               \* capability -> lifetime mode
  EndEvent,               \* capability -> the event that ends it (mode 3)
  Target,                 \* capability -> compact callback target it claims
  NoTarget,               \* Target of a capability that is not compact
  Bridges, NoBridge,      \* ingress descriptors
  BridgeCapabilities,     \* bridge -> sequence of capabilities authorizing it
  Permanent,              \* bridges that are permanently callable
  ProcessRoots,           \* bridges entered before any loader lifecycle
  LifecycleMode,          \* bridge -> "none", "dllmain" or "tls"
  Recovering,             \* bridges with an SEH handler in their inventory
  SehGateway,             \* the image has SEH protocols, so bridges register
  Registrations,          \* capabilities lent by an outgoing call
  Results,                \* capabilities lent as a registered code result
  Replacements,           \* pairs <<old, new>> given to `replace'
  MaxIngressDepth,        \* SPX_NATIVE_MAX_INGRESS_DEPTH
  CapabilityModulus,      \* 2^32: width of the capability generation counter
  IngressModulus,         \* 2^32: width of a thread's ingress generation
  HostQuiescesDetach,     \* the host detaches only when no thread is inside
  MaxCapabilityGeneration,\* bound: activations stop at this generation
  MaxIngressGeneration,   \* bound: a thread stops entering at this generation
  MaxImageGeneration      \* bound: the loader stops attaching

Capabilities == 0 .. (CapabilityCount - 1)
Reasons == {"none", "attach", "thread_attach", "thread_detach", "detach"}

ASSUME ConfigurationAssumption ==
  /\ CapabilityCount \in Nat
  /\ Lifetime \in [Capabilities -> LifetimeModes]
  /\ BridgeCapabilities \in [Bridges -> Seq(Capabilities)]
  /\ LifecycleMode \in [Bridges -> {"none", "dllmain", "tls"}]
  /\ Registrations \cup Results \subseteq Capabilities
  /\ Replacements \subseteq Capabilities \X Capabilities
  /\ NoBridge \notin Bridges
  /\ HostQuiescesDetach \in BOOLEAN /\ SehGateway \in BOOLEAN
  /\ SehGateway \/ Recovering = {}
  /\ MaxIngressDepth \in Nat
  /\ CapabilityModulus \in Nat \ {0, 1}
  /\ IngressModulus \in Nat \ {0, 1}
  /\ MaxIngressGeneration \in 1 .. IngressModulus

VARIABLES
  slots,             \* spx_native_capabilities[].generations
  next_generation,   \* spx_native_next_capability_generation
  assignments,       \* spx_native_compact_target_assignments
  image_active,      \* spx_native_image_active
  image_generation,  \* spx_native_image_generation
  header,            \* per thread: the TLS thread header
  frames,            \* per thread: the ingress frames below header.depth
  bounds,            \* per thread: the stack the TEB bounds describe
  pc, op,            \* per thread: the runtime operation in progress
  loader,            \* external: whether the loader has the image attached
  publisher          \* history: the thread that published each slot

shared == <<slots, next_generation, assignments, image_active,
            image_generation, publisher>>
vars == <<slots, next_generation, assignments, image_active,
          image_generation, header, frames, bounds, pc, op, loader, publisher>>

-----------------------------------------------------------------------------
(* A grant names one generation; owner is the ingress that published it,   *)
(* as the slot recorded it when the grant was taken.  Generation 0 is none.*)
Grant == [capability : Nat, generation : Nat, escaped : BOOLEAN, owner : Nat]
NoGrant == [capability |-> 0, generation |-> 0, escaped |-> TRUE, owner |-> 0]

Phases == {"entered", "guest", "call", "done"}

Frame == [bridge     : Bridges,
          reason     : Reasons,   \* the loader's argument, "none" otherwise
          generation : Nat,
          admitted   : Grant,     \* what authorized the entry
          phase      : Phases,
          pending    : Grant,     \* lent by the outgoing call in progress
          recovered  : BOOLEAN,   \* the recovery portal will finish it
          saved      : {"host", "private"}]

Header == [magic : BOOLEAN, generation : Nat, image_generation : Nat]
NoHeader == [magic |-> FALSE, generation |-> 0, image_generation |-> 0]

\* What an operation is for: how its caller goes on when it returns.
Uses == {"none", "call", "result", "replace", "finish", "recover", "unwind"}

Op == [bridge : Bridges \cup {NoBridge}, reason : Reasons,
       cursor : Nat, target : Nat, grant : Grant, use : Uses]
NoOp == [bridge |-> NoBridge, reason |-> "none", cursor |-> 0, target |-> 0,
         grant |-> NoGrant, use |-> "none"]

Steps == {"run", "prepare", "authorize", "push", "publish", "commit", "revoke",
          "clear", "event", "thread", "process", "deactivate", "retire",
          "expire"}

Escapes(c) == Lifetime[c] # "during_call"
Depth(t) == Len(frames[t])
Top(t) == frames[t][Depth(t)]
SetTop(t, f) == frames' = [frames EXCEPT ![t][Depth(t)] = f]
Goto(t, step, o) == pc' = [pc EXCEPT ![t] = step] /\ op' = [op EXCEPT ![t] = o]
Return(t) == Goto(t, "run", NoOp)

\* Mutated form: a scan does not move to the next capability.
AdvanceNowhere(t) == Goto(t, pc[t], op[t])

\* A scan over the capabilities moves to the next one.
Advance(t) == Goto(t, pc[t], [op[t] EXCEPT !.cursor = @ + 1])

Idle(t) == pc[t] = "run" /\ frames[t] = <<>>
InPhase(t, phase) == pc[t] = "run" /\ frames[t] # <<>> /\ Top(t).phase = phase

Init ==
  /\ slots = [c \in Capabilities |-> [i \in SlotIds |-> EmptySlot]]
  /\ next_generation = 1
  /\ assignments = [g \in {Target[c] : c \in Capabilities} |-> CapabilityCount]
  /\ image_active = (\A b \in Bridges : LifecycleMode[b] = "none")
  /\ image_generation = 1
  /\ header = [t \in Threads |-> NoHeader]
  /\ frames = [t \in Threads |-> <<>>]
  /\ bounds = [t \in Threads |-> "host"]
  /\ pc = [t \in Threads |-> "run"]
  /\ op = [t \in Threads |-> NoOp]
  /\ loader = "unloaded"
  /\ publisher = [c \in Capabilities |-> [i \in SlotIds |-> NoThread]]

-----------------------------------------------------------------------------
(* The host and the loader: who may call which bridge when.  The loader    *)
(* lock serializes lifecycle entries; DllMain is attached once and then    *)
(* detached, TLS callbacks run before the attach and after the detach.     *)
InLoader(t) ==
  \/ \E i \in 1 .. Depth(t) : frames[t][i].reason # "none"
  \/ op[t].reason # "none"

Detaching(t) ==
  \/ \E i \in 1 .. Depth(t) : frames[t][i].reason = "detach"
  \/ op[t].reason = "detach"

LoaderOrder(b, r) ==
  \/ LifecycleMode[b] = "none" /\ r = "none"
  \/ /\ LifecycleMode[b] = "dllmain" /\ r = "attach"
     /\ loader = "unloaded" /\ image_generation <= MaxImageGeneration
  \/ /\ LifecycleMode[b] = "dllmain" /\ r \in {"thread_attach", "thread_detach", "detach"}
     /\ loader = "loaded"
  \/ /\ LifecycleMode[b] = "tls" /\ r \in {"attach", "detach"}
     /\ loader = "unloaded" /\ (r = "attach" => image_generation <= MaxImageGeneration)
  \/ LifecycleMode[b] = "tls" /\ r \in {"thread_attach", "thread_detach"} /\ loader = "loaded"

HostAllows(t, b, r) ==
  /\ LoaderOrder(b, r)
  /\ r # "none" => \A u \in Threads \ {t} : ~InLoader(u)
  /\ HostQuiescesDetach =>
       /\ \A u \in Threads \ {t} : ~Detaching(u)
       /\ r = "detach" => frames[t] = <<>> /\ \A u \in Threads \ {t} : Idle(u)

(* spx_native_ingress_prepare, up to the first shared read that can refuse:*)
(* the first entry of a thread initializes its header.                     *)
Enter(t, b, r) ==
  /\ Idle(t) \/ InPhase(t, "call")
  /\ HostAllows(t, b, r)
  /\ Depth(t) < MaxIngressDepth
  /\ header[t].generation < MaxIngressGeneration
  /\ header' = [header EXCEPT ![t] =
       IF @.magic THEN @
       ELSE [magic |-> TRUE, generation |-> 1,
             image_generation |-> image_generation]]
  /\ loader' = IF LifecycleMode[b] # "dllmain" THEN loader
               ELSE CASE r = "attach" -> "loaded"
                      [] r = "detach" -> "unloaded"
                      [] OTHER -> loader
  /\ Goto(t, "prepare", [NoOp EXCEPT !.bridge = b, !.reason = r])
  /\ UNCHANGED <<shared, frames, bounds>>

ImageAdmits(t) ==
  image_active /\ header[t].image_generation = image_generation

(* The image cut: ordinary bridges need the generation the thread knows.   *)
CheckImage(t) ==
  /\ pc[t] = "prepare"
  /\ IF /\ LifecycleMode[op[t].bridge] = "none"
        /\ op[t].bridge \notin ProcessRoots
        /\ ~ImageAdmits(t)
       THEN Return(t)
       ELSE Goto(t, IF op[t].bridge \in Permanent THEN "push" ELSE "authorize",
                 [op[t] EXCEPT !.cursor = 1])
  /\ UNCHANGED <<shared, header, frames, bounds, loader>>

(* spx_native_capability_authorize, once per capability of the bridge      *)
(* until one authorizes; running out of capabilities refuses the entry.    *)
AuthorizeCapability(t) ==
  /\ pc[t] = "authorize"
  /\ LET list == BridgeCapabilities[op[t].bridge]
         c == list[op[t].cursor]
         s == slots[c][First(Admitting(slots[c], t))]
     IN  \/ /\ op[t].cursor > Len(list)
            /\ Return(t)
            /\ UNCHANGED slots
         \/ /\ op[t].cursor <= Len(list)
            /\ Admitting(slots[c], t) = {}
            /\ Advance(t)
            /\ UNCHANGED slots
         \/ /\ op[t].cursor <= Len(list)
            /\ Admitting(slots[c], t) # {}
            /\ slots' = [slots EXCEPT ![c] = Authorize(@, Lifetime[c], t)]
            /\ Goto(t, "push", [op[t] EXCEPT !.grant =
                 [capability |-> c, generation |-> s.generation,
                  escaped |-> s.escaped, owner |-> s.owner_ingress]])
  /\ UNCHANGED <<next_generation, assignments, image_active, image_generation,
                 publisher, header, frames, bounds, loader>>

(* The stack checks may still refuse a nested entry, whose authorization   *)
(* is then already spent: it must arrive on the private stack, above the   *)
(* part the frames below use.                                              *)
RefuseStack(t) ==
  /\ pc[t] = "push"
  /\ frames[t] # <<>>
  /\ Return(t)
  /\ UNCHANGED <<shared, header, frames, bounds, loader>>

\* Mutated form: the ingress generation is used but not advanced.
NextIngressStuck(g) == g

\* Mutated form: the counter is a signed integer.
NextIngressSigned(g) ==
  IF g + 1 < IngressModulus \div 2 THEN g + 1 ELSE g + 1 - IngressModulus

NextIngress(g) == (g + 1) % IngressModulus

(* The frame records the bounds to restore and takes the thread's next     *)
(* ingress generation; the TEB moves to the private stack.                 *)
PushFrame(t) ==
  /\ pc[t] = "push"
  /\ frames[t] = <<>> \/ bounds[t] = "private"
  /\ frames' = [frames EXCEPT ![t] = Append(@,
       [bridge     |-> op[t].bridge,
        reason     |-> op[t].reason,
        generation |-> header[t].generation,
        admitted   |-> op[t].grant,
        phase      |-> "entered",
        pending    |-> NoGrant,
        recovered  |-> FALSE,
        saved      |-> bounds[t]])]
  /\ header' = [header EXCEPT ![t].generation = NextIngress(@)]
  /\ bounds' = [bounds EXCEPT ![t] = "private"]
  /\ Return(t)
  /\ UNCHANGED <<shared, loader>>

(* spx_native_ingress_dispatch: the loader lifecycle preflight.            *)
PreflightAdmits(t) ==
  LET mode == LifecycleMode[Top(t).bridge]
      reason == Top(t).reason
  IN  \/ mode = "none"
      \/ reason = "attach"
      \/ mode = "tls" /\ reason \in {"detach", "thread_detach"}
      \/ ImageAdmits(t)

Preflight(t) ==
  /\ InPhase(t, "entered")
  /\ SetTop(t, [Top(t) EXCEPT !.phase =
       IF PreflightAdmits(t) THEN "guest" ELSE "done"])
  /\ UNCHANGED <<shared, header, bounds, pc, op, loader>>

-----------------------------------------------------------------------------
(* Guest code: outgoing calls and the capabilities they lend.              *)

\* An outgoing call that lends nothing.
StartCall(t) ==
  /\ InPhase(t, "guest")
  /\ SetTop(t, [Top(t) EXCEPT !.phase = "call"])
  /\ UNCHANGED <<shared, header, bounds, pc, op, loader>>

\* Mutated form: the assignment of the target is not compared.
ClaimsAlways(c) == TRUE

(* spx_native_compact_callback_activate claims its target first: one       *)
(* capability owns a compact target for the life of the process.           *)
Claims(c) == Target[c] = NoTarget \/ assignments[Target[c]] \in {c, CapabilityCount}

Claim(c) ==
  assignments' = IF Target[c] # NoTarget /\ assignments[Target[c]] = CapabilityCount
                 THEN [assignments EXCEPT ![Target[c]] = c] ELSE assignments

\* Mutated form: the counter is read but not advanced.
NextGenerationStuck(g) == g

NextGeneration(g) == IF g + 1 < CapabilityModulus THEN g + 1 ELSE 1

(* The ways guest code activates a capability.                             *)
Activations ==
  {<<"call", c, c>>   : c \in Registrations} \cup
  {<<"result", c, c>> : c \in Results} \cup
  {<<"replace", p[2], p[1]>> : p \in {q \in Replacements : Lifetime[q[2]] = "until_replaced"}}

(* spx_native_capability_activate: read image_active, draw a generation.   *)
ActivateCapability(t, a) ==
  LET g == NextGeneration(next_generation)
  IN  /\ InPhase(t, "guest")
      /\ Claims(a[2]) /\ Claim(a[2])
      /\ image_active
      /\ next_generation < MaxCapabilityGeneration
      /\ next_generation' = g
      /\ Goto(t, "publish",
           [NoOp EXCEPT !.use = a[1], !.target = a[3],
              !.grant = [capability |-> a[2], generation |-> g,
                         escaped |-> Escapes(a[2]), owner |-> Top(t).generation]])
      /\ UNCHANGED <<slots, image_active, image_generation, publisher, header,
                     frames, bounds, loader>>

\* A refused activation fails the call or the result that asked for it;
\* `replace' reports it to its caller.
ActivationRefused(t, a) ==
  /\ InPhase(t, "guest")
  /\ ~Claims(a[2]) \/ ~image_active
  /\ Claim(a[2])
  /\ SetTop(t, [Top(t) EXCEPT !.phase = IF a[1] = "replace" THEN @ ELSE "done"])
  /\ UNCHANGED <<slots, next_generation, image_active, image_generation,
                 publisher, header, bounds, pc, op, loader>>

(* spx_native_capability_publish, then what its caller does with it: the   *)
(* outgoing call starts, an escaped result is committed at once, `replace' *)
(* goes on to clear the capability it replaces.                            *)
PublishCapability(t) ==
  LET g == op[t].grant
      c == g.capability
  IN  /\ pc[t] = "publish"
      /\ Free(slots[c], Lifetime[c]) # {}
      /\ slots' = [slots EXCEPT ![c] =
           Publish(@, Lifetime[c], g.generation, g.escaped, t, Top(t).generation)]
      /\ publisher' = [publisher EXCEPT ![c][First(Free(slots[c], Lifetime[c]))] = t]
      /\ \/ /\ op[t].use = "call"
            /\ SetTop(t, [Top(t) EXCEPT !.phase = "call", !.pending = g])
            /\ Return(t)
         \/ /\ op[t].use = "result"
            /\ IF g.escaped THEN Goto(t, "commit", op[t]) ELSE Return(t)
            /\ UNCHANGED frames
         \/ /\ op[t].use = "replace"
            /\ IF op[t].target # c THEN Goto(t, "clear", op[t]) ELSE Return(t)
            /\ UNCHANGED frames
      /\ UNCHANGED <<next_generation, assignments, image_active,
                     image_generation, header, bounds, loader>>

\* All slots taken: activation returns 0 and nothing is evicted.
PublishRefused(t) ==
  /\ pc[t] = "publish"
  /\ Free(slots[op[t].grant.capability], Lifetime[op[t].grant.capability]) = {}
  /\ SetTop(t, [Top(t) EXCEPT !.phase = "done"])
  /\ Return(t)
  /\ UNCHANGED <<shared, header, bounds, loader>>

(* spx_native_publish_registered_code_result: commit, or else revoke.      *)
CommitResult(t) ==
  LET g == op[t].grant
      c == g.capability
  IN  /\ pc[t] = "commit"
      /\ slots' = [slots EXCEPT ![c] = Commit(@, g.generation)]
      /\ IF Provisional(slots[c], g.generation) # {} THEN Return(t)
         ELSE Goto(t, "revoke", op[t])
      /\ UNCHANGED <<next_generation, assignments, image_active,
                     image_generation, publisher, header, frames, bounds, loader>>

RevokeResult(t) ==
  LET g == op[t].grant
  IN  /\ pc[t] = "revoke"
      /\ slots' = [slots EXCEPT ![g.capability] = Revoke(@, g.generation)]
      /\ SetTop(t, [Top(t) EXCEPT !.phase = "done"])
      /\ Return(t)
      /\ UNCHANGED <<next_generation, assignments, image_active,
                     image_generation, publisher, header, bounds, loader>>

(* spx_native_capability_replace: the second lock clears every generation  *)
(* of the capability that was replaced.                                    *)
ClearReplaced(t) ==
  /\ pc[t] = "clear"
  /\ slots' = [slots EXCEPT ![op[t].target] = ExpireAll(@)]
  /\ Return(t)
  /\ UNCHANGED <<next_generation, assignments, image_active, image_generation,
                 publisher, header, frames, bounds, loader>>

(* The outgoing call returns with its native status: a successful escaped  *)
(* registration is committed, any other one revoked, and a commit or       *)
(* revocation that finds nothing fails the call.                           *)
CallReturns(t, ok) ==
  LET g == Top(t).pending
      c == g.capability
      settled == IF ok /\ g.escaped THEN Provisional(slots[c], g.generation) # {}
                 ELSE Live(slots[c], g.generation) # {}
  IN  /\ InPhase(t, "call")
      /\ \/ /\ g.generation = 0
            /\ SetTop(t, [Top(t) EXCEPT !.phase = IF ok THEN "guest" ELSE "done"])
            /\ UNCHANGED slots
         \/ /\ g.generation # 0
            /\ slots' = [slots EXCEPT ![c] =
                 IF ok /\ g.escaped THEN Commit(@, g.generation)
                                    ELSE Revoke(@, g.generation)]
            /\ SetTop(t, [Top(t) EXCEPT !.pending = NoGrant,
                 !.phase = IF ok /\ settled THEN "guest" ELSE "done"])
      /\ UNCHANGED <<next_generation, assignments, image_active,
                     image_generation, publisher, header, bounds, pc, op, loader>>

\* The callback argument cannot be patched: the call fails unsettled.
CallAborts(t) ==
  /\ InPhase(t, "call")
  /\ Top(t).pending.generation # 0
  /\ SetTop(t, [Top(t) EXCEPT !.pending = NoGrant, !.phase = "done"])
  /\ UNCHANGED <<shared, header, bounds, pc, op, loader>>

\* spx_native_capability_expire_event visits the capabilities in order.
StartEvent(t, e) ==
  /\ InPhase(t, "guest")
  /\ \E c \in Capabilities :
       /\ Lifetime[c] = "until_event" /\ EndEvent[c] = e
       /\ \A d \in Capabilities : Lifetime[d] = "until_event" /\ EndEvent[d] = e => c <= d
       /\ Goto(t, "event", [NoOp EXCEPT !.cursor = c, !.target = c])
  /\ UNCHANGED <<shared, header, frames, bounds, loader>>

ExpireEvent(t) ==
  LET c == op[t].cursor
  IN  /\ pc[t] = "event"
      /\ \/ /\ c < CapabilityCount
            /\ slots' = IF Lifetime[c] = "until_event" /\ EndEvent[c] = EndEvent[op[t].target]
                        THEN [slots EXCEPT ![c] = ExpireAll(@)] ELSE slots
            /\ Advance(t)
         \/ /\ c = CapabilityCount
            /\ Return(t)
            /\ UNCHANGED slots
      /\ UNCHANGED <<next_generation, assignments, image_active,
                     image_generation, publisher, header, frames, bounds, loader>>

-----------------------------------------------------------------------------
(* The guest function returns; the loader lifecycle is applied only after  *)
(* a successful return to the dispatch.  The recovery portal finishes its  *)
(* frame without going back to the dispatch, so it applies none.           *)
GuestReturns(t) ==
  LET b == Top(t).bridge
      r == IF Top(t).recovered THEN "none" ELSE Top(t).reason
      done == [Top(t) EXCEPT !.phase = "done"]
  IN  /\ InPhase(t, "guest")
      /\ SetTop(t, done)
      /\ \/ /\ r = "attach"
            /\ header' = [header EXCEPT ![t].image_generation = image_generation]
            /\ image_active' = TRUE
            /\ UNCHANGED <<pc, op>>
         \/ /\ LifecycleMode[b] = "dllmain" /\ r = "thread_detach"
            /\ Goto(t, "thread", NoOp)
            /\ UNCHANGED <<header, image_active>>
         \/ /\ LifecycleMode[b] = "dllmain" /\ r = "detach"
            /\ Goto(t, "process", NoOp)
            /\ UNCHANGED <<header, image_active>>
         \/ /\ r \in {"none", "thread_attach"} \/ (LifecycleMode[b] = "tls" /\ r # "attach")
            /\ UNCHANGED <<header, image_active, pc, op>>
      /\ UNCHANGED <<slots, next_generation, assignments, image_generation,
                     publisher, bounds, loader>>

\* Any failure of the dispatch: no lifecycle effect.
GuestFails(t) ==
  /\ InPhase(t, "entered") \/ InPhase(t, "guest")
  /\ SetTop(t, [Top(t) EXCEPT !.phase = "done"])
  /\ UNCHANGED <<shared, header, bounds, pc, op, loader>>

ExpireOwner(t) ==
  /\ pc[t] = "thread"
  /\ \/ /\ op[t].cursor < CapabilityCount
        /\ slots' = [slots EXCEPT ![op[t].cursor] = ExpireThread(@, t)]
        /\ Advance(t)
     \/ /\ op[t].cursor = CapabilityCount
        /\ Return(t)
        /\ UNCHANGED slots
  /\ UNCHANGED <<next_generation, assignments, image_active, image_generation,
                 publisher, header, frames, bounds, loader>>

ExpireProcess(t) ==
  /\ pc[t] = "process"
  /\ \/ /\ op[t].cursor < CapabilityCount
        /\ slots' = [slots EXCEPT ![op[t].cursor] = ExpireAll(@)]
        /\ Advance(t)
     \/ /\ op[t].cursor = CapabilityCount
        /\ Goto(t, "deactivate", NoOp)
        /\ UNCHANGED slots
  /\ UNCHANGED <<next_generation, assignments, image_active, image_generation,
                 publisher, header, frames, bounds, loader>>

DeactivateImage(t) ==
  /\ pc[t] = "deactivate"
  /\ image_active' = FALSE
  /\ Goto(t, "retire", NoOp)
  /\ UNCHANGED <<slots, next_generation, assignments, image_generation,
                 publisher, header, frames, bounds, loader>>

RetireImage(t) ==
  /\ pc[t] = "retire"
  /\ image_generation' = image_generation + 1
  /\ Return(t)
  /\ UNCHANGED <<slots, next_generation, assignments, image_active, publisher,
                 header, frames, bounds, loader>>

-----------------------------------------------------------------------------
(* Leaving frames.  spx_native_ingress_finish, the recovery of a hardware  *)
(* exception and an unwind notification all expire the uncommitted         *)
(* generations of the frame, one capability at a time, before popping it.  *)
Leave(t, use, depth) ==
  Goto(t, "expire", [NoOp EXCEPT !.use = use, !.target = depth])

StartFinish(t) ==
  /\ InPhase(t, "done")
  /\ Leave(t, "finish", Depth(t) - 1)
  /\ UNCHANGED <<shared, header, frames, bounds, loader>>

(* spx_native_seh_dispatch finds frame k willing to handle a fault raised  *)
(* by the top frame; recovery abandons the frames above it and runs the    *)
(* handler there.  The call frame k was making is gone with its callee.    *)
HandlerRuns(f) ==
  [f EXCEPT !.phase = "guest", !.pending = NoGrant, !.recovered = TRUE]

Fault(t, k) ==
  /\ InPhase(t, "guest") \/ InPhase(t, "call")
  /\ frames[t][k].bridge \in Recovering
  /\ IF k = Depth(t)
       THEN SetTop(t, HandlerRuns(Top(t))) /\ UNCHANGED <<pc, op>>
       ELSE /\ Leave(t, "recover", k)
            /\ UNCHANGED frames
  /\ UNCHANGED <<shared, header, bounds, loader>>

(* A host frame above ingress frame k catches an exception: the unwind     *)
(* notifies, and thereby abandons, every ingress frame below it.           *)
Unwind(t, k) ==
  /\ InPhase(t, "guest") \/ InPhase(t, "call")
  /\ SehGateway
  /\ k < Depth(t)
  /\ Leave(t, "unwind", k)
  /\ UNCHANGED <<shared, header, frames, bounds, loader>>

\* spx_native_capability_expire_ingress.
ExpireTop(t) ==
  /\ pc[t] = "expire"
  /\ op[t].cursor < CapabilityCount
  /\ slots' = [slots EXCEPT ![op[t].cursor] = ExpireIngress(@, Top(t).generation)]
  /\ Advance(t)
  /\ UNCHANGED <<next_generation, assignments, image_active, image_generation,
                 publisher, header, frames, bounds, loader>>

\* Mutated form: abandoning never restores the bounds.
RestoresOnFinish(use, depth) == use = "finish"

(* Finishing restores the bounds the frame saved; abandoning restores them *)
(* only when the last frame goes.                                          *)
RestoresBounds(use, depth) == use = "finish" \/ depth = 0

PopTop(t) ==
  LET depth == Depth(t) - 1
      below == SubSeq(frames[t], 1, depth)
  IN  /\ pc[t] = "expire"
      /\ op[t].cursor = CapabilityCount
      /\ bounds' = IF RestoresBounds(op[t].use, depth)
                   THEN [bounds EXCEPT ![t] = Top(t).saved] ELSE bounds
      /\ \/ /\ depth > op[t].target
            /\ frames' = [frames EXCEPT ![t] = below]
            /\ Goto(t, "expire", [op[t] EXCEPT !.cursor = 0])
         \/ /\ depth = op[t].target /\ op[t].use # "recover"
            /\ frames' = [frames EXCEPT ![t] = below]
            /\ Return(t)
         \/ /\ depth = op[t].target /\ op[t].use = "recover"
            /\ frames' = [frames EXCEPT ![t] =
                 [below EXCEPT ![depth] = HandlerRuns(below[depth])]]
            /\ Return(t)
      /\ UNCHANGED <<shared, header, loader>>

(* The thread exits outside the image and a new one is given a zeroed TLS  *)
(* block at the same address.                                              *)
ThreadExits(t) ==
  /\ Idle(t)
  /\ header[t].magic
  /\ header' = [header EXCEPT ![t] = NoHeader]
  /\ UNCHANGED <<shared, frames, bounds, pc, op, loader>>

-----------------------------------------------------------------------------
(* What a thread does inside the runtime without the guest or the host     *)
(* choosing anything: the steps fairness is about.                         *)
Runtime(t) ==
  \/ CheckImage(t) \/ AuthorizeCapability(t) \/ PushFrame(t) \/ RefuseStack(t)
  \/ Preflight(t) \/ PublishCapability(t) \/ PublishRefused(t)
  \/ CommitResult(t) \/ RevokeResult(t) \/ ClearReplaced(t)
  \/ ExpireEvent(t) \/ ExpireOwner(t) \/ ExpireProcess(t)
  \/ DeactivateImage(t) \/ RetireImage(t)
  \/ StartFinish(t) \/ ExpireTop(t) \/ PopTop(t)

Guest(t) ==
  \/ StartCall(t) \/ CallAborts(t) \/ GuestReturns(t) \/ GuestFails(t)
  \/ \E a \in Activations : ActivateCapability(t, a) \/ ActivationRefused(t, a)
  \/ \E ok \in BOOLEAN : CallReturns(t, ok)
  \/ \E c \in Capabilities : StartEvent(t, EndEvent[c])
  \/ \E k \in 1 .. Depth(t) : Fault(t, k)
  \/ \E k \in 0 .. Depth(t) : Unwind(t, k)

Host(t) ==
  \/ \E b \in Bridges, r \in Reasons : Enter(t, b, r)
  \/ ThreadExits(t)

Next == \E t \in Threads : Runtime(t) \/ Guest(t) \/ Host(t)

Spec == Init /\ [][Next]_vars

(* The capability locks are test-and-set spin locks, without a queue: a    *)
(* thread may lose the race for one again and again, so no single thread   *)
(* is promised a step.  But its holder runs straight-line code that takes  *)
(* no other lock, and is scheduled; the lock is released, and the exchange *)
(* of somebody who spins on it succeeds.  As long as threads are inside    *)
(* the runtime, some thread steps.                                         *)
FairSpec == Spec /\ WF_vars(\E t \in Threads : Runtime(t))

-----------------------------------------------------------------------------
\* Every variable keeps its type; the bounds of the cfg are not used.
TypeOK ==
  /\ slots \in [Capabilities -> Table]
  /\ next_generation \in Nat
  /\ assignments \in [{Target[c] : c \in Capabilities} -> 0 .. CapabilityCount]
  /\ image_active \in BOOLEAN
  /\ image_generation \in Nat
  /\ header \in [Threads -> Header]
  /\ frames \in [Threads -> Seq(Frame)]
  /\ bounds \in [Threads -> {"host", "private"}]
  /\ pc \in [Threads -> Steps]
  /\ op \in [Threads -> Op]
  /\ loader \in {"unloaded", "loaded"}
  /\ publisher \in [Capabilities -> [SlotIds -> Threads \cup {NoThread}]]

(* A generation that was never committed does not outlive the ingress that *)
(* published it, however that ingress ends: normal or failed finish,       *)
(* recovered exception, or unwind (expire_ingress before depth--).         *)
ProvisionalHasLiveOwner ==
  \A c \in Capabilities : \A i \in SlotIds :
    slots[c][i].active /\ slots[c][i].owner_ingress # 0 =>
      \E k \in 1 .. Depth(publisher[c][i]) :
        frames[publisher[c][i]][k].generation = slots[c][i].owner_ingress

(* A during-call generation is only ever active while a frame of the very  *)
(* thread it admits is inside the ingress that lent it.  A thread that     *)
(* inherits the TLS block of a dead one therefore inherits no permission.  *)
DuringCallHasLiveOwner ==
  \A c \in Capabilities : \A i \in SlotIds :
    slots[c][i].active /\ ~slots[c][i].escaped =>
      \E k \in 1 .. Depth(slots[c][i].owner_thread) :
        frames[slots[c][i].owner_thread][k].generation = slots[c][i].owner_ingress

(* A callback admitted by a during-call generation runs above the frame    *)
(* that lent it, in the same thread, while that frame is inside a call.    *)
DuringCallAdmissionNested ==
  \A t \in Threads : \A i \in 1 .. Depth(t) :
    frames[t][i].admitted.generation # 0 /\ ~frames[t][i].admitted.escaped =>
      \E j \in 1 .. (i - 1) :
        /\ frames[t][j].generation = frames[t][i].admitted.owner
        /\ frames[t][j].phase = "call"

(* One-shot admission is atomic: no two live frames, of one thread or of   *)
(* two, were admitted by the same one-shot generation.                     *)
OneShotAdmitsOnce ==
  \A t, u \in Threads : \A i \in 1 .. Depth(t), j \in 1 .. Depth(u) :
    LET f == frames[t][i].admitted
        g == frames[u][j].admitted
    IN  f.generation # 0 /\ f.generation = g.generation
          /\ Lifetime[f.capability] = "one_shot" => t = u /\ i = j

(* A generation identifies one publication: no two slots of any two        *)
(* capabilities are active with the same one, so a revoke or a commit by   *)
(* generation can only hit what its caller published.                      *)
UniqueGenerations ==
  \A c, d \in Capabilities : \A i, j \in SlotIds :
    slots[c][i].active /\ slots[d][j].active
      /\ slots[c][i].generation = slots[d][j].generation => c = d /\ i = j

(* With a host that detaches only when nothing else runs in the image,     *)
(* process detach is final: while the image is inactive no generation is   *)
(* active or about to be published and no ordinary ingress is inside.      *)
DetachLeavesNothing ==
  ~image_active =>
    /\ \A c \in Capabilities : \A i \in SlotIds : ~slots[c][i].active
    /\ \A t \in Threads :
         /\ pc[t] # "publish"
         /\ \A i \in 1 .. Depth(t) :
              LifecycleMode[frames[t][i].bridge] = "none" =>
                frames[t][i].bridge \in ProcessRoots

(* The TEB describes the private stack exactly while a frame is live, and  *)
(* only the outermost frame holds the host's own bounds, whichever mix of  *)
(* finishes, recoveries and unwinds emptied the frame stack.               *)
StackBoundsFollowFrames ==
  \A t \in Threads :
    /\ bounds[t] = "host" <=> frames[t] = <<>>
    /\ \A i \in 1 .. Depth(t) : frames[t][i].saved = "host" <=> i = 1

(* Nested ingresses of one thread have increasing generations, all below   *)
(* the next: the inner one leaving cannot expire what an outer one owns.   *)
FramesOrdered ==
  \A t \in Threads : \A i \in 1 .. Depth(t) :
    /\ 0 < frames[t][i].generation
    /\ frames[t][i].generation < header[t].generation
    /\ \A j \in 1 .. (i - 1) : frames[t][j].generation < frames[t][i].generation

(* Frame k of thread t is inside an outgoing call that lent a capability:  *)
(* the call is over once the frame itself is being left.                   *)
Lending(t, k) ==
  frames[t][k].pending.generation # 0 /\ (pc[t] = "expire" => k < Depth(t))

(* "A newly activated generation is owned by the current ingress until the *)
(* checked outgoing call commits it": while an outgoing call that lent a   *)
(* during-call capability is in progress, that generation stays active.    *)
LentUntilReturn ==
  \A t \in Threads : \A k \in 1 .. Depth(t) :
    LET g == frames[t][k].pending
    IN  Lending(t, k) /\ ~g.escaped =>
          \E i \in SlotIds : /\ slots[g.capability][i].active
                             /\ slots[g.capability][i].generation = g.generation

(* "Successful escaped registrations are explicitly committed": while the  *)
(* registering call is in progress, the slot its commit will look for is   *)
(* still there, whether or not the callback has already been used.         *)
EscapedStaysCommittable ==
  \A t \in Threads : \A k \in 1 .. Depth(t) :
    LET g == frames[t][k].pending
    IN  Lending(t, k) /\ g.escaped =>
          Provisional(slots[g.capability], g.generation) # {}

(* One compact callback target has one capability: two capabilities that   *)
(* share a target are never both active, even when two threads race to     *)
(* claim it.                                                               *)
CompactTargetExclusive ==
  \A c, d \in Capabilities : \A i, j \in SlotIds :
    Target[c] # NoTarget /\ Target[c] = Target[d]
      /\ slots[c][i].active /\ slots[d][j].active => c = d

(* A full table refuses: publishing never evicts an active generation,     *)
(* except of a capability whose lifetime is to be replaced.                *)
NeverEvicts ==
  [][\A c \in Capabilities : \A i \in SlotIds :
       Lifetime[c] # "until_replaced" /\ slots[c][i].active /\ slots'[c][i].active
         => slots'[c][i].generation = slots[c][i].generation]_vars

(* Leaving an ingress never takes a committed generation, or one of an     *)
(* outer ingress of the same thread, with it.                              *)
LeavingSparesOthers ==
  [][\A t \in Threads : pc[t] = "expire" /\ op'[t] # op[t] =>
       \A c \in Capabilities : \A i \in SlotIds :
         \/ slots[c][i].owner_ingress = 0
         \/ \E k \in 1 .. (Depth(t) - 1) :
              frames[t][k].generation = slots[c][i].owner_ingress
         => slots'[c][i] = slots[c][i]]_vars

(* While threads stay inside the runtime, operations keep returning to     *)
(* their callers, whoever wins the locks: a scan over the capabilities     *)
(* takes lock after lock and ends, in every thread.  An operation that     *)
(* nobody competes with any more returns, then.  That one operation among  *)
(* others returns is not said: its thread may lose every race.             *)
OperationReturns == \E t \in Threads : pc[t] # "run" /\ pc'[t] = "run"
OperationsKeepReturning ==
  <>[](\E t \in Threads : pc[t] # "run") => []<><<OperationReturns>>_vars
=============================================================================
