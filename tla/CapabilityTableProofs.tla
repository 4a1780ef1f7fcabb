---------------------- MODULE CapabilityTableProofs ----------------------
(***************************************************************************)
(* What the critical sections of the capability table return.  All of them *)
(* but Publish only narrow the table: they deactivate generations or give  *)
(* them up by their owner, and change nothing else.                        *)
(***************************************************************************)
EXTENDS CapabilityTable, WellFoundedInduction, TLAPS

(* The table `new' has the slots of `old', some inactive or committed.     *)
Narrows(new, old) ==
  \A i \in SlotIds :
    /\ new[i].active => old[i].active
    /\ new[i].generation = old[i].generation
    /\ new[i].escaped = old[i].escaped
    /\ new[i].owner_thread = old[i].owner_thread
    /\ new[i].owner_ingress \in {old[i].owner_ingress, 0}

(* The scan of a non-empty set of slots stops at one of them.              *)
LEMMA FirstInSet ==
  ASSUME NEW S, S \subseteq SlotIds, S # {}
  PROVE  First(S) \in S
<1> DEFINE Before == {p \in Nat \X Nat : p[1] < p[2]}
<1>1. S \subseteq Nat
  BY SlotCountAssumption DEF SlotIds
<1>2. IsWellFoundedOn(Before, Nat)
  BY NatLessThanWellFounded DEF OpToRel
<1>3. \E n \in S : \A m \in S : <<m, n>> \notin Before
  <2> HIDE DEF Before
  <2> QED BY <1>1, <1>2, WFMin
<1>4. ASSUME NEW m \in Nat, NEW n \in Nat, <<m, n>> \notin Before
      PROVE  n <= m
  <2>1. ~(m < n)
    BY <1>4
  <2>2. QED
    BY <2>1
<1>5. \E n \in S : \A m \in S : n <= m
  <2> HIDE DEF Before
  <2> QED BY <1>1, <1>3, <1>4
<1>6. QED
  BY <1>5 DEF First

-----------------------------------------------------------------------------
(* Replacing one slot of a table by another slot is a table.               *)
LEMMA SlotReplaced ==
  ASSUME NEW table \in Table, NEW i \in SlotIds, NEW s \in Slot
  PROVE  [table EXCEPT ![i] = s] \in Table
BY DEF Table

(* ... and a narrower one, if the slot is.                                 *)
LEMMA SlotNarrowed ==
  ASSUME NEW table \in Table, NEW i \in SlotIds, NEW s \in Slot,
         s.active => table[i].active,
         s.generation = table[i].generation,
         s.escaped = table[i].escaped,
         s.owner_thread = table[i].owner_thread,
         s.owner_ingress \in {table[i].owner_ingress, 0}
  PROVE  /\ [table EXCEPT ![i] = s] \in Table
         /\ Narrows([table EXCEPT ![i] = s], table)
BY SlotReplaced DEF Narrows, Table

(* An admission that is spent, or that leaves its slot as it is.           *)
LEMMA AuthorizeNarrows ==
  ASSUME NEW table \in Table, NEW mode, NEW t, Admitting(table, t) # {}
  PROVE  /\ First(Admitting(table, t)) \in Admitting(table, t)
         /\ Authorize(table, mode, t) \in Table
         /\ Narrows(Authorize(table, mode, t), table)
<1> DEFINE i == First(Admitting(table, t))
<1>1. i \in Admitting(table, t)
  BY FirstInSet DEF Admitting
<1>2. i \in SlotIds /\ table[i].active
  BY <1>1 DEF Admitting
<1>3. Authorize(table, mode, t) =
        [table EXCEPT ![i] = [table[i] EXCEPT !.active = (mode # "one_shot")]]
  BY DEF Authorize, Table
<1>4. [table[i] EXCEPT !.active = (mode # "one_shot")] \in Slot
  BY <1>2 DEF Table, Slot
<1> HIDE DEF i
<1>5. QED
  BY <1>1, <1>2, <1>3, <1>4 DEF Narrows, Table, Slot, i

\* Revoking narrows.
LEMMA RevokeNarrows ==
  ASSUME NEW table \in Table, NEW g
  PROVE  Revoke(table, g) \in Table /\ Narrows(Revoke(table, g), table)
<1>1. CASE Live(table, g) = {}
  BY <1>1 DEF Revoke, Narrows, Table, Slot
<1>2. CASE Live(table, g) # {}
  <2> DEFINE i == First(Live(table, g))
  <2>1. i \in SlotIds
    BY <1>2, FirstInSet DEF Live
  <2> DEFINE s == [table[i] EXCEPT !.active = FALSE]
  <2>2. Revoke(table, g) = [table EXCEPT ![i] = s]
    BY <1>2 DEF Revoke
  <2>3. /\ s \in Slot
        /\ s.active => table[i].active
        /\ s.generation = table[i].generation
        /\ s.escaped = table[i].escaped
        /\ s.owner_thread = table[i].owner_thread
        /\ s.owner_ingress \in {table[i].owner_ingress, 0}
    BY <2>1 DEF Table, Slot
  <2> HIDE DEF i, s
  <2>4. QED
    BY <2>1, <2>2, <2>3, SlotNarrowed
<1>3. QED
  BY <1>1, <1>2

\* Committing narrows.
LEMMA CommitNarrows ==
  ASSUME NEW table \in Table, NEW g
  PROVE  Commit(table, g) \in Table /\ Narrows(Commit(table, g), table)
<1>1. CASE Provisional(table, g) = {}
  BY <1>1 DEF Commit, Narrows, Table, Slot
<1>2. CASE Provisional(table, g) # {}
  <2> DEFINE i == First(Provisional(table, g))
  <2>1. i \in SlotIds
    BY <1>2, FirstInSet DEF Provisional
  <2> DEFINE s == [table[i] EXCEPT !.owner_ingress = 0]
  <2>2. Commit(table, g) = [table EXCEPT ![i] = s]
    BY <1>2 DEF Commit
  <2>3. /\ s \in Slot
        /\ s.active => table[i].active
        /\ s.generation = table[i].generation
        /\ s.escaped = table[i].escaped
        /\ s.owner_thread = table[i].owner_thread
        /\ s.owner_ingress \in {table[i].owner_ingress, 0}
    BY <2>1 DEF Table, Slot
  <2> HIDE DEF i, s
  <2>4. QED
    BY <2>1, <2>2, <2>3, SlotNarrowed
<1>3. QED
  BY <1>1, <1>2

\* Expiring every generation narrows.
LEMMA ExpireAllNarrows ==
  ASSUME NEW table \in Table
  PROVE  ExpireAll(table) \in Table /\ Narrows(ExpireAll(table), table)
BY DEF ExpireAll, Narrows, Table, Slot

\* Expiring what a thread was lent narrows.
LEMMA ExpireThreadNarrows ==
  ASSUME NEW table \in Table, NEW t
  PROVE  ExpireThread(table, t) \in Table /\ Narrows(ExpireThread(table, t), table)
BY DEF ExpireThread, Narrows, Table, Slot

(* After the scan nothing is owned by the ingress.                         *)
LEMMA ExpireIngressNarrows ==
  ASSUME NEW table \in Table, NEW ingress \in Nat
  PROVE  /\ ExpireIngress(table, ingress) \in Table
         /\ Narrows(ExpireIngress(table, ingress), table)
         /\ \A i \in SlotIds : ExpireIngress(table, ingress)[i].active
              /\ ExpireIngress(table, ingress)[i].owner_ingress # 0
                => ExpireIngress(table, ingress)[i].owner_ingress # ingress
         /\ \A i \in SlotIds : table[i].owner_ingress # ingress
                => ExpireIngress(table, ingress)[i] = table[i]
BY DEF ExpireIngress, Narrows, Table, Slot

\* The slot of a fresh generation.
NewSlot(g, escaped, t, ingress) ==
  [generation |-> g, active |-> TRUE, escaped |-> escaped,
   owner_thread |-> IF escaped THEN NoThread ELSE t, owner_ingress |-> ingress]

(* A publication fills one slot: an inactive one, unless the capability is *)
(* to be replaced.                                                         *)
LEMMA PublishFillsOne ==
  ASSUME NEW table \in Table, NEW mode, Free(table, mode) # {},
         NEW g \in Nat, NEW escaped \in BOOLEAN, NEW t \in Threads,
         NEW ingress \in Nat
  PROVE  /\ First(Free(table, mode)) \in SlotIds
         /\ mode # "until_replaced" => ~table[First(Free(table, mode))].active
         /\ Publish(table, mode, g, escaped, t, ingress) \in Table
         /\ Publish(table, mode, g, escaped, t, ingress) =
              [table EXCEPT ![First(Free(table, mode))] =
                 NewSlot(g, escaped, t, ingress)]
<1> DEFINE i == First(Free(table, mode))
           s == NewSlot(g, escaped, t, ingress)
<1>1. Free(table, mode) \subseteq SlotIds
  BY SlotCountAssumption DEF Free, SlotIds
<1>2. i \in Free(table, mode)
  BY <1>1, FirstInSet
<1>3. mode # "until_replaced" => ~table[i].active
  BY <1>2 DEF Free
<1>4. s \in Slot
  BY DEF Slot, NewSlot
<1>5. Publish(table, mode, g, escaped, t, ingress) = [table EXCEPT ![i] = s]
  BY DEF Publish, NewSlot
<1>6. [table EXCEPT ![i] = s] \in Table
  <2> HIDE DEF i, s
  <2> QED BY <1>1, <1>2, <1>4, SlotReplaced
<1>7. QED
  BY <1>1, <1>2, <1>3, <1>5, <1>6

(* The table `new' has lost some generations of `old'; the ones it still   *)
(* has are as they were.  Every narrowing does that, except a commit.      *)
Thins(new, old) == \A i \in SlotIds : new[i].active => new[i] = old[i]

\* A table thins when one slot may lose its activity.
LEMMA OneSlotThins ==
  ASSUME NEW table \in Table, NEW i, NEW active \in BOOLEAN,
         i \in SlotIds => (active => table[i].active)
  PROVE  Thins([table EXCEPT ![i].active = active], table)
<1> SUFFICES ASSUME NEW j \in SlotIds,
                    [table EXCEPT ![i].active = active][j].active
             PROVE  [table EXCEPT ![i].active = active][j] = table[j]
  BY DEF Thins
<1>1. table[j] \in Slot
  BY DEF Table
<1>2. CASE j # i
  BY <1>2 DEF Table
<1>3. CASE j = i
  <2>1. [table EXCEPT ![i].active = active][j] = [table[j] EXCEPT !.active = active]
    BY <1>3 DEF Table
  <2>2. active = TRUE /\ table[j].active = TRUE
    BY <1>1, <1>3, <2>1 DEF Slot
  <2>3. QED
    BY <1>1, <2>1, <2>2 DEF Slot
<1>4. QED
  BY <1>2, <1>3

\* Every operation but publishing and committing thins the table.
LEMMA AllButCommitThin ==
  ASSUME NEW table \in Table, NEW mode, NEW t, NEW g
  PROVE  /\ Admitting(table, t) # {} => Thins(Authorize(table, mode, t), table)
         /\ Thins(Revoke(table, g), table)
         /\ Thins(ExpireAll(table), table)
         /\ Thins(ExpireThread(table, t), table)
         /\ Thins(ExpireIngress(table, g), table)
<1>1. ASSUME Admitting(table, t) # {}
      PROVE  Thins(Authorize(table, mode, t), table)
  <2> DEFINE i == First(Admitting(table, t))
  <2>1. i \in SlotIds /\ table[i].active
    BY <1>1, FirstInSet DEF Admitting
  <2>2. Authorize(table, mode, t) = [table EXCEPT ![i].active = (mode # "one_shot")]
    BY DEF Authorize
  <2> HIDE DEF i
  <2>3. QED
    BY <2>1, <2>2, OneSlotThins
<1>2. Thins(Revoke(table, g), table)
  BY OneSlotThins DEF Revoke, Thins
<1>3. /\ Thins(ExpireAll(table), table)
      /\ Thins(ExpireThread(table, t), table)
      /\ Thins(ExpireIngress(table, g), table)
  BY DEF ExpireAll, ExpireThread, ExpireIngress, Thins, Table, Slot
<1>4. QED
  BY <1>1, <1>2, <1>3
=============================================================================
