------------------------- MODULE CapabilityTable -------------------------
(***************************************************************************)
(* The generation table of one native code capability, and the locked      *)
(* critical sections that read and write it.                               *)
(*                                                                         *)
(* A code capability is the permission for the host to call one lifted     *)
(* function through its native bridge.  Every activation of a capability   *)
(* publishes a fresh generation in a slot of this table; the table is      *)
(* guarded by a spin lock that no critical section holds across another    *)
(* call, so each operator below is one atomic step of the runtime.         *)
(* Slots are scanned in index order, which First makes explicit.           *)
(***************************************************************************)
EXTENDS Integers

CONSTANTS
  Threads,    \* host threads, identified by the address of their TLS block
  NoThread,   \* owner_thread of an escaped generation (0 in the code)
  SlotCount   \* MAX_CAPABILITY_GENERATIONS

ASSUME NoThreadAssumption == NoThread \notin Threads
ASSUME SlotCountAssumption == SlotCount \in Nat \ {0}

SlotIds == 0 .. (SlotCount - 1)

(* owner_ingress is 0 once a generation is committed: it then survives the *)
(* ingress frame that published it.                                        *)
Slot == [generation    : Nat,
         active        : BOOLEAN,
         escaped       : BOOLEAN,
         owner_thread  : Threads \cup {NoThread},
         owner_ingress : Nat]

Table == [SlotIds -> Slot]

\* The zero-initialised static storage of a slot.
EmptySlot == [generation |-> 0, active |-> FALSE, escaped |-> FALSE,
              owner_thread |-> NoThread, owner_ingress |-> 0]

LifetimeModes == {"during_call", "one_shot", "until_replaced", "until_event"}

First(S) == CHOOSE i \in S : \A j \in S : i <= j

-----------------------------------------------------------------------------
(* Slots that authorize an entry by thread t, and the consumption of the   *)
(* first of them when the capability is one-shot.                          *)
Admitting(table, t) ==
  {i \in SlotIds : /\ table[i].active
                   /\ table[i].generation # 0
                   /\ table[i].escaped \/ table[i].owner_thread = t}

\* Mutated form: a one-shot admission is not consumed.
AuthorizeUnconsumed(table, mode, t) ==
  [table EXCEPT ![First(Admitting(table, t))].active = TRUE]

Authorize(table, mode, t) ==
  [table EXCEPT ![First(Admitting(table, t))].active = (mode # "one_shot")]

(* Slots a new generation may take: a replaced capability owns one slot,   *)
(* every other capability takes the first inactive one.                    *)
\* Mutated form: every capability reuses its first slot.
FreeFirstSlot(table, mode) == {0}

Free(table, mode) ==
  IF mode = "until_replaced" THEN {0} ELSE {i \in SlotIds : ~table[i].active}

\* Mutated form: only escaped generations record the owning ingress.
PublishUnowned(table, mode, g, escaped, t, ingress) ==
  [table EXCEPT ![First(Free(table, mode))] =
     [generation |-> g, active |-> TRUE, escaped |-> escaped,
      owner_thread  |-> IF escaped THEN NoThread ELSE t,
      owner_ingress |-> IF escaped THEN ingress ELSE 0]]

Publish(table, mode, g, escaped, t, ingress) ==
  [table EXCEPT ![First(Free(table, mode))] =
     [generation    |-> g,
      active        |-> TRUE,
      escaped       |-> escaped,
      owner_thread  |-> IF escaped THEN NoThread ELSE t,
      owner_ingress |-> ingress]]

\* The slots `revoke' and `commit' look for.
Live(table, g) == {i \in SlotIds : table[i].active /\ table[i].generation = g}

Provisional(table, g) ==
  {i \in SlotIds : table[i].generation = g /\ table[i].owner_ingress # 0}

Revoke(table, g) ==
  IF Live(table, g) = {} THEN table
  ELSE [table EXCEPT ![First(Live(table, g))].active = FALSE]

Commit(table, g) ==
  IF Provisional(table, g) = {} THEN table
  ELSE [table EXCEPT ![First(Provisional(table, g))].owner_ingress = 0]

-----------------------------------------------------------------------------
(* Expiry.                                                                 *)
\* Mutated form: escaped generations survive.
ExpireAllLocal(table) ==
  [i \in SlotIds |-> [table[i] EXCEPT !.active = @ /\ table[i].escaped]]

ExpireAll(table) ==
  [i \in SlotIds |-> [table[i] EXCEPT !.active = FALSE]]

ExpireThread(table, t) ==
  [i \in SlotIds |->
     IF table[i].active /\ ~table[i].escaped /\ table[i].owner_thread = t
       THEN [table[i] EXCEPT !.active = FALSE]
       ELSE table[i]]

\* Mutated form: the owner is forgotten but the generation stays active.
ExpireIngressForget(table, ingress) ==
  [i \in SlotIds |->
     IF ingress # 0 /\ table[i].owner_ingress = ingress
       THEN [table[i] EXCEPT !.owner_ingress = 0] ELSE table[i]]

\* Mutated form: every older ingress expires with the one that leaves.
ExpireIngressOlder(table, ingress) ==
  [i \in SlotIds |->
     IF ingress # 0 /\ table[i].owner_ingress <= ingress
       THEN [table[i] EXCEPT !.active = FALSE, !.owner_ingress = 0]
       ELSE table[i]]

\* Mutated form: the scan stops at the first generation it expires.
ExpireIngressOnce(table, ingress) ==
  LET owned == {i \in SlotIds : ingress # 0 /\ table[i].owner_ingress = ingress}
  IN  IF owned = {} THEN table
      ELSE [table EXCEPT ![First(owned)] = [@ EXCEPT !.active = FALSE, !.owner_ingress = 0]]

\* Ingress generation 0 owns nothing: the code returns before any lock.
ExpireIngress(table, ingress) ==
  [i \in SlotIds |->
     IF ingress # 0 /\ table[i].owner_ingress = ingress
       THEN [table[i] EXCEPT !.active = FALSE, !.owner_ingress = 0]
       ELSE table[i]]
=============================================================================
