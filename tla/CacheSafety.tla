---------------------------- MODULE CacheSafety ----------------------------
(***************************************************************************)
(* Proofs about CacheHierarchy: for any number of slots, ids and blocks,   *)
(* any geometry and whatever the prefetcher does, the table of outstanding *)
(* misses answers for every request exactly once and never takes an answer *)
(* back; a set never holds more lines than its ways nor a block twice, and *)
(* over a write-back L2 no store is lost on its way through evictions,     *)
(* write-backs and prefetches.                                             *)
(***************************************************************************)
EXTENDS CacheHierarchy, WellFoundedInduction, SequenceTheorems, TLAPS

EntrySet ==
    [valid : {TRUE}, ready : BOOLEAN, block : Blocks, left : Nat,
     id : Ids, merged : SUBSET Ids]

\* The slots are well formed and no id is twice in one.
TableOK ==
    /\ table \in [Slots -> {Free} \cup EntrySet]
    /\ pending \in [Ids -> Blocks \cup {None}]
    /\ \A s \in Valid(table) : table[s].id \notin table[s].merged

IInv == TableOK /\ HeldOnce /\ OneSlotPerBlock

-----------------------------------------------------------------------------
\* The first slot of some slots is one of them.
LEMMA FirstIn ==
    ASSUME NEW S, S \subseteq Nat, S # {}
    PROVE  First(S) \in S
  <1>1. \E x \in S : \A y \in S : ~ (<<y, x>> \in OpToRel(<, Nat))
    BY NatLessThanWellFounded, WFMin
  <1>2. PICK x \in S : \A y \in S : ~ (<<y, x>> \in OpToRel(<, Nat))
    BY <1>1
  <1>3. ASSUME NEW y \in S PROVE x <= y
    <2>1. <<y, x>> \notin OpToRel(<, Nat)
      BY <1>2
    <2>2. <<y, x>> \notin {p \in Nat \X Nat : p[1] < p[2]}
      BY <2>1, Zenon DEF OpToRel
    <2> QED BY <2>2
  <1> QED BY <1>2, <1>3 DEF First

\* An id is free when a request may be accepted.
LEMMA NextIdFree ==
    ASSUME Outstanding # Ids
    PROVE  NextId \in Ids \ Outstanding
  <1>1. Ids \ Outstanding \subseteq Nat /\ Ids \ Outstanding # {}
    BY HierarchyAssumption DEF Outstanding
  <1> QED BY <1>1, FirstIn DEF NextId

LEMMA LatencyNat ==
    ASSUME NEW hh, NEW b
    PROVE  Latency(hh, b) \in Nat
  <1>1. Level[1].latency \in Nat /\ Level[2].latency \in Nat /\ MemoryLatency \in Nat
    BY HierarchyAssumption
  <1> QED BY <1>1 DEF Latency

\* What merging, allocating and releasing make of one slot.
LEMMA EntryMerged ==
    ASSUME NEW e \in EntrySet, NEW id \in Ids
    PROVE  LET f == [e EXCEPT !.merged = @ \cup {id}]
           IN  /\ f \in EntrySet /\ f.valid /\ f.ready = e.ready
               /\ f.block = e.block /\ f.id = e.id
               /\ f.merged = e.merged \cup {id}
  BY DEF EntrySet

LEMMA EntryNew ==
    ASSUME NEW b \in Blocks, NEW id \in Ids, NEW left \in Nat
    PROVE  LET f == Entry(b, id, left)
           IN  /\ f \in EntrySet /\ f.valid /\ f.block = b /\ f.id = id
               /\ f.merged = {}
  BY DEF EntrySet, Entry

\* A released slot answers for the other ids it held, or is free if there are
\* none.
LEMMA SlotReleased ==
    ASSUME NEW e \in EntrySet, e.id \notin e.merged,
           NEW id \in {e.id} \cup e.merged
    PROVE  LET f == ReleasedSlot(e, id)
           IN  \/ f = Free /\ {e.id} \cup e.merged = {id}
               \/ /\ f \in EntrySet /\ f.valid /\ f.ready = e.ready
                  /\ f.block = e.block /\ f.id \notin f.merged
                  /\ {f.id} \cup f.merged = ({e.id} \cup e.merged) \ {id}
  <1>1. CASE id # e.id
    <2>1. ReleasedSlot(e, id) = [e EXCEPT !.merged = @ \ {id}]
      BY <1>1 DEF ReleasedSlot
    <2> QED BY <1>1, <2>1 DEF EntrySet
  <1>2. CASE id = e.id /\ e.merged = {}
    BY <1>2 DEF ReleasedSlot
  <1>3. CASE id = e.id /\ e.merged # {}
    <2> DEFINE next == CHOOSE m \in e.merged : TRUE
    <2>1. next \in e.merged
      BY <1>3
    <2>2. ReleasedSlot(e, id) = [e EXCEPT !.id = next, !.merged = @ \ {next}]
      BY <1>3 DEF ReleasedSlot
    <2> HIDE DEF next
    <2> DEFINE f == [e EXCEPT !.id = next, !.merged = @ \ {next}]
    <2>3. /\ f \in EntrySet /\ f.valid /\ f.ready = e.ready /\ f.block = e.block
          /\ f.id = next /\ f.merged = e.merged \ {next}
      BY <2>1 DEF EntrySet
    <2> HIDE DEF f
    <2>4. {next} \cup (e.merged \ {next}) = ({e.id} \cup e.merged) \ {id}
      BY <1>3, <2>1
    <2> QED BY <2>2, <2>3, <2>4 DEF f
  <1> QED BY <1>1, <1>2, <1>3

\* A tick changes how long a slot waits and nothing else, and never unreadies it.
LEMMA SlotTicked ==
    ASSUME NEW e \in EntrySet, e.ready = FALSE
    PROVE  LET f == IF e.left > 1 THEN [e EXCEPT !.left = @ - 1]
                    ELSE [e EXCEPT !.left = 0, !.ready = TRUE]
           IN  /\ f \in EntrySet /\ f.valid /\ f.block = e.block
               /\ f.id = e.id /\ f.merged = e.merged
  <1>1. e.left \in Nat
    BY DEF EntrySet
  <1>2. CASE e.left > 1
    <2> DEFINE less == e.left - 1
    <2>1. less \in Nat
      BY <1>1, <1>2
    <2> HIDE DEF less
    <2>2. LET f == [e EXCEPT !.left = less]
          IN  /\ f \in EntrySet /\ f.valid /\ f.block = e.block
              /\ f.id = e.id /\ f.merged = e.merged
      BY <2>1 DEF EntrySet
    <2> QED BY <1>2, <2>2 DEF less
  <1>3. CASE ~ (e.left > 1)
    BY <1>3 DEF EntrySet
  <1> QED BY <1>2, <1>3

-----------------------------------------------------------------------------
(* The two ways a request is accepted.                                     *)

LEMMA MergeStep ==
    ASSUME IInv, NEW s \in Valid(table), NEW id \in Ids \ Outstanding,
           table' = Merge(table, s, id),
           pending' = [pending EXCEPT ![id] = table[s].block]
    PROVE  /\ IInv'
           /\ \A i \in Ids : ReadyId(table, i) => ReadyId(table, i)'
  <1> USE DEF IInv
  <1>0. /\ table[s] \in EntrySet /\ s \in Slots
        /\ \A r \in Valid(table) : table[r] \in EntrySet
    BY DEF TableOK, Valid, Free
  <1>1. table'[s] = [table[s] EXCEPT !.merged = @ \cup {id}]
    BY <1>0 DEF Merge, TableOK
  <1>2. \A r \in Slots \ {s} : table'[r] = table[r]
    BY DEF Merge, TableOK
  <1>3. /\ table'[s] \in EntrySet
        /\ table'[s].valid /\ table'[s].block = table[s].block
        /\ table'[s].id = table[s].id /\ table'[s].ready = table[s].ready
        /\ table'[s].merged = table[s].merged \cup {id}
    BY <1>0, <1>1, EntryMerged
  <1>4. Valid(table)' = Valid(table)
    BY <1>0, <1>2, <1>3 DEF Valid
  <1>5. /\ HeldBy(table, s)' = HeldBy(table, s) \cup {id}
        /\ \A r \in Slots \ {s} : HeldBy(table, r)' = HeldBy(table, r)
    BY <1>2, <1>3 DEF HeldBy
  <1>6. table[s].block \in Blocks /\ table[s].block # None
    BY <1>0, HierarchyAssumption DEF EntrySet
  <1>7. Outstanding' = Outstanding \cup {id}
    BY <1>6 DEF Outstanding, TableOK
  <1>8. id \notin HeldBy(table, s)
    BY DEF HeldOnce
  <1>9. TableOK'
    <2>1. table' \in [Slots -> {Free} \cup EntrySet]
      BY <1>0, <1>3 DEF Merge, TableOK
    <2>2. pending' \in [Ids -> Blocks \cup {None}]
      BY <1>6 DEF TableOK
    <2>3. \A r \in Valid(table) : table'[r].id \notin table'[r].merged
      BY <1>2, <1>3, <1>8 DEF TableOK, HeldBy, Valid
    <2> QED BY <2>1, <2>2, <2>3, <1>4 DEF TableOK
  <1>10. \A i \in Outstanding : /\ Holders(table, i)' = Holders(table, i)
                                /\ pending'[i] = pending[i]
    BY <1>4, <1>5 DEF Holders, Valid, TableOK, Outstanding
  <1>11. Holders(table, id)' = {s} /\ pending'[id] = table[s].block
    <2>1. \A r \in Valid(table) : id \notin HeldBy(table, r)
      BY DEF HeldOnce
    <2> QED BY <1>4, <1>5, <2>1 DEF Holders, Valid, TableOK
  <1>12. HeldOnce'
    <2>1. ASSUME NEW i \in Outstanding'
          PROVE  \E r \in Valid(table)' : Holders(table, i)' = {r} /\ table'[r].block = pending'[i]
      <3>1. CASE i = id
        BY <3>1, <1>11, <1>4, <1>3
      <3>2. CASE i \in Outstanding
        <4>1. PICK r \in Valid(table) : Holders(table, i) = {r} /\ table[r].block = pending[i]
          BY <3>2 DEF HeldOnce
        <4>2. table'[r].block = table[r].block
          BY <1>2, <1>3 DEF Valid
        <4> QED BY <4>1, <4>2, <3>2, <1>4, <1>10
      <3> QED BY <3>1, <3>2, <1>7
    <2>2. \A r \in Valid(table)' : HeldBy(table, r)' \subseteq Outstanding'
      BY <1>4, <1>5, <1>7 DEF HeldOnce, Valid
    <2> QED BY <2>1, <2>2 DEF HeldOnce
  <1>13. OneSlotPerBlock'
    BY <1>2, <1>3, <1>4 DEF OneSlotPerBlock, Valid
  <1>14. \A i \in Ids : ReadyId(table, i) => ReadyId(table, i)'
    BY <1>2, <1>3, <1>4, <1>5 DEF ReadyId, Holders, Valid
  <1> QED BY <1>9, <1>12, <1>13, <1>14

LEMMA NewSlotStep ==
    ASSUME IInv, NEW s \in Slots \ Valid(table), NEW id \in Ids \ Outstanding,
           NEW b \in Blocks, Fetching(table, b) = {}, NEW left \in Nat,
           table' = [table EXCEPT ![s] = Entry(b, id, left)],
           pending' = [pending EXCEPT ![id] = b]
    PROVE  /\ IInv'
           /\ \A i \in Ids : ReadyId(table, i) => ReadyId(table, i)'
  <1> USE DEF IInv
  <1>1. /\ table'[s] = Entry(b, id, left)
        /\ \A r \in Slots \ {s} : table'[r] = table[r]
    BY DEF TableOK
  <1>2. /\ table'[s] \in EntrySet
        /\ table'[s].valid /\ table'[s].block = b
        /\ table'[s].id = id /\ table'[s].merged = {}
    BY <1>1, EntryNew
  <1>3. Valid(table)' = Valid(table) \cup {s}
    BY <1>1, <1>2 DEF Valid
  <1>4. /\ HeldBy(table, s)' = {id}
        /\ \A r \in Valid(table) : HeldBy(table, r)' = HeldBy(table, r)
    BY <1>1, <1>2 DEF HeldBy, Valid
  <1>5. b # None
    BY HierarchyAssumption
  <1>6. Outstanding' = Outstanding \cup {id}
    BY <1>5 DEF Outstanding, TableOK
  <1>7. TableOK'
    <2>1. table' \in [Slots -> {Free} \cup EntrySet]
      BY <1>1, <1>2 DEF TableOK
    <2>2. pending' \in [Ids -> Blocks \cup {None}]
      BY DEF TableOK
    <2>3. \A r \in Valid(table)' : table'[r].id \notin table'[r].merged
      BY <1>1, <1>2, <1>3 DEF TableOK, Valid
    <2> QED BY <2>1, <2>2, <2>3 DEF TableOK
  <1>8. \A i \in Outstanding : /\ Holders(table, i)' = Holders(table, i)
                               /\ pending'[i] = pending[i]
    BY <1>3, <1>4 DEF Holders, TableOK, Outstanding
  <1>9. Holders(table, id)' = {s} /\ pending'[id] = b
    <2>1. \A r \in Valid(table) : id \notin HeldBy(table, r)
      BY DEF HeldOnce
    <2> QED BY <1>3, <1>4, <2>1 DEF Holders, TableOK
  <1>10. HeldOnce'
    <2>1. ASSUME NEW i \in Outstanding'
          PROVE  \E r \in Valid(table)' : Holders(table, i)' = {r} /\ table'[r].block = pending'[i]
      <3>1. CASE i = id
        BY <3>1, <1>9, <1>3, <1>2
      <3>2. CASE i \in Outstanding
        <4>1. PICK r \in Valid(table) : Holders(table, i) = {r} /\ table[r].block = pending[i]
          BY <3>2 DEF HeldOnce
        <4>2. table'[r].block = table[r].block
          BY <1>1 DEF Valid
        <4> QED BY <4>1, <4>2, <3>2, <1>3, <1>8
      <3> QED BY <3>1, <3>2, <1>6
    <2>2. \A r \in Valid(table)' : HeldBy(table, r)' \subseteq Outstanding'
      BY <1>3, <1>4, <1>6 DEF HeldOnce
    <2> QED BY <2>1, <2>2 DEF HeldOnce
  <1>11. OneSlotPerBlock'
    <2>1. \A r \in Valid(table) : table[r].block # b
      BY DEF Fetching
    <2> QED BY <1>1, <1>2, <1>3, <2>1 DEF OneSlotPerBlock, Valid
  <1>12. \A i \in Ids : ReadyId(table, i) => ReadyId(table, i)'
    BY <1>1, <1>3, <1>4 DEF ReadyId, Holders, Valid
  <1> QED BY <1>7, <1>10, <1>11, <1>12

-----------------------------------------------------------------------------
(* The steps that answer and release.                                      *)

LEMMA CompleteStep ==
    ASSUME IInv, NEW id \in Ids, Complete(id)
    PROVE  /\ IInv'
           /\ \A i \in Ids \ {id} : ReadyId(table, i) => ReadyId(table, i)'
           /\ pending'[id] = None
  <1> USE DEF IInv
  <1>1. PICK s \in Valid(table) : Holders(table, id) = {s}
    BY DEF HeldOnce, Complete
  <1>2. /\ s \in Slots /\ table[s] \in EntrySet
        /\ table[s].id \notin table[s].merged
        /\ id \in HeldBy(table, s)
        /\ \A r \in Valid(table) \ {s} : id \notin HeldBy(table, r)
    BY <1>1 DEF TableOK, Valid, Free, Holders
  <1>3. /\ table'[s] = ReleasedSlot(table[s], id)
        /\ \A r \in Slots \ {s} : table'[r] = table[r]
        /\ DOMAIN table' = Slots
        /\ table' = [r \in Slots |-> table'[r]]
    BY <1>1, <1>2 DEF Complete, Release
  <1>4. /\ pending' = [pending EXCEPT ![id] = None]
        /\ Outstanding' = Outstanding \ {id}
        /\ \A i \in Outstanding' : pending'[i] = pending[i]
    BY DEF Complete, Outstanding, TableOK
  <1>5. \A r \in Valid(table) \ {s} : HeldBy(table, r)' = HeldBy(table, r)
    BY <1>3 DEF HeldBy, Valid
  <1>6. \/ table'[s] = Free /\ HeldBy(table, s) = {id}
        \/ /\ table'[s] \in EntrySet /\ table'[s].valid
           /\ table'[s].ready = table[s].ready
           /\ table'[s].block = table[s].block
           /\ table'[s].id \notin table'[s].merged
           /\ HeldBy(table, s)' = HeldBy(table, s) \ {id}
    BY <1>2, <1>3, SlotReleased DEF HeldBy
  <1>7. /\ Valid(table)' \subseteq Valid(table)
        /\ Valid(table) \ {s} \subseteq Valid(table)'
        /\ s \in Valid(table)' <=> table'[s].valid
    BY <1>2, <1>3 DEF Valid
  <1>8. \A i \in Outstanding \ {id} : Holders(table, i)' = Holders(table, i)
    <2>1. CASE table'[s] = Free /\ HeldBy(table, s) = {id}
      <3>1. Valid(table)' = Valid(table) \ {s}
        BY <2>1, <1>7 DEF Free
      <3> QED BY <3>1, <2>1, <1>5 DEF Holders
    <2>2. CASE table'[s].valid /\ HeldBy(table, s)' = HeldBy(table, s) \ {id}
      <3>1. Valid(table)' = Valid(table)
        BY <2>2, <1>7
      <3> QED BY <3>1, <2>2, <1>5 DEF Holders
    <2> QED BY <2>1, <2>2, <1>6
  <1>9. \A r \in Valid(table)' : /\ table'[r].block = table[r].block
                                 /\ table'[r].ready = table[r].ready
                                 /\ r \in Valid(table)
                                 /\ HeldBy(table, r)' = HeldBy(table, r) \ {id}
    <2> SUFFICES ASSUME NEW r \in Valid(table)'
                 PROVE  /\ table'[r].block = table[r].block
                        /\ table'[r].ready = table[r].ready
                        /\ r \in Valid(table)
                        /\ HeldBy(table, r)' = HeldBy(table, r) \ {id}
      OBVIOUS
    <2>1. CASE r = s
      <3>1. table'[s] # Free
        BY <2>1 DEF Valid, Free
      <3> QED BY <3>1, <2>1, <1>6
    <2>2. CASE r # s
      BY <2>2, <1>2, <1>3, <1>5, <1>7 DEF Valid
    <2> QED BY <2>1, <2>2
  <1>10. TableOK'
    <2>1. table' \in [Slots -> {Free} \cup EntrySet]
      BY <1>2, <1>3, <1>6 DEF TableOK
    <2>2. pending' \in [Ids -> Blocks \cup {None}]
      BY <1>4 DEF TableOK
    <2>3. ASSUME NEW r \in Valid(table)'
          PROVE  table'[r].id \notin table'[r].merged
      <3>1. CASE r = s
        BY <3>1, <1>6, <1>7 DEF Free
      <3>2. CASE r # s
        BY <3>2, <1>3, <1>7 DEF TableOK, Valid
      <3> QED BY <3>1, <3>2
    <2> QED BY <2>1, <2>2, <2>3 DEF TableOK
  <1>11. HeldOnce'
    <2>1. ASSUME NEW i \in Outstanding'
          PROVE  \E r \in Valid(table)' : Holders(table, i)' = {r} /\ table'[r].block = pending'[i]
      <3>1. i \in Outstanding \ {id}
        BY <1>4
      <3>2. PICK r \in Valid(table) : Holders(table, i) = {r} /\ table[r].block = pending[i]
        BY <3>1 DEF HeldOnce
      <3>3. Holders(table, i)' = {r}
        BY <3>1, <3>2, <1>8
      <3>4. r \in Valid(table)'
        BY <3>3 DEF Holders
      <3> QED BY <3>2, <3>3, <3>4, <1>4, <1>9
    <2>2. \A r \in Valid(table)' : HeldBy(table, r)' \subseteq Outstanding'
      BY <1>4, <1>9 DEF HeldOnce
    <2> QED BY <2>1, <2>2 DEF HeldOnce
  <1>12. OneSlotPerBlock'
    BY <1>9 DEF OneSlotPerBlock
  <1>13. ASSUME NEW i \in Ids \ {id}, ReadyId(table, i)
         PROVE  ReadyId(table, i)'
    <2>1. PICK r \in Holders(table, i) : table[r].ready
      BY <1>13 DEF ReadyId
    <2>2. i \in Outstanding \ {id}
      BY <2>1 DEF Holders, HeldOnce
    <2>3. r \in Holders(table, i)'
      BY <2>1, <2>2, <1>8
    <2>4. table'[r].ready
      BY <2>1, <2>3, <1>9 DEF Holders
    <2> QED BY <2>3, <2>4 DEF ReadyId
  <1> QED BY <1>4, <1>10, <1>11, <1>12, <1>13 DEF TableOK

LEMMA TickStep ==
    ASSUME IInv, Tick
    PROVE  /\ IInv'
           /\ \A i \in Ids : ReadyId(table, i) => ReadyId(table, i)'
  <1> USE DEF IInv
  <1>1. \A s \in Valid(table) : table[s] \in EntrySet
    BY DEF TableOK, Valid, Free
  <1>2. /\ table' = TickTable(table) /\ pending' = pending
        /\ Outstanding' = Outstanding
    BY DEF Tick, Outstanding
  <1>3. \A s \in Slots : s \notin Valid(table) => table'[s] = table[s]
    BY <1>2 DEF TickTable, Valid
  <1>4. ASSUME NEW s \in Valid(table)
        PROVE  /\ table'[s] \in EntrySet /\ table'[s].valid
               /\ table'[s].block = table[s].block
               /\ table'[s].id = table[s].id
               /\ table'[s].merged = table[s].merged
               /\ table[s].ready => table'[s].ready
    <2>0. s \in Slots /\ table[s].valid /\ table[s].ready \in BOOLEAN
      BY <1>1 DEF Valid, EntrySet
    <2>1. CASE table[s].ready
      <3>1. table'[s] = table[s]
        BY <2>0, <2>1, <1>2 DEF TickTable
      <3> QED BY <3>1, <2>0, <1>1
    <2>2. CASE table[s].ready = FALSE
      <3>1. table'[s] = IF table[s].left > 1 THEN [table[s] EXCEPT !.left = @ - 1]
                        ELSE [table[s] EXCEPT !.left = 0, !.ready = TRUE]
        BY <2>0, <2>2, <1>2 DEF TickTable
      <3> QED BY <3>1, <2>2, <1>1, SlotTicked
    <2> QED BY <2>0, <2>1, <2>2
  <1>5. Valid(table)' = Valid(table)
    BY <1>3, <1>4 DEF Valid
  <1>6. \A s \in Valid(table) : HeldBy(table, s)' = HeldBy(table, s)
    BY <1>4 DEF HeldBy
  <1>7. \A i : Holders(table, i)' = Holders(table, i)
    BY <1>5, <1>6 DEF Holders
  <1>8. TableOK'
    <2>1. table' \in [Slots -> {Free} \cup EntrySet]
      <3>1. table' = [s \in Slots |-> table'[s]]
        BY <1>2 DEF TickTable
      <3>2. \A s \in Slots : table'[s] \in {Free} \cup EntrySet
        BY <1>3, <1>4 DEF TableOK
      <3> QED BY <3>1, <3>2
    <2>2. \A s \in Valid(table)' : table'[s].id \notin table'[s].merged
      BY <1>4, <1>5 DEF TableOK
    <2> QED BY <2>1, <2>2, <1>2 DEF TableOK
  <1>9. HeldOnce'
    BY <1>2, <1>4, <1>5, <1>6, <1>7 DEF HeldOnce
  <1>10. OneSlotPerBlock'
    BY <1>4, <1>5 DEF OneSlotPerBlock
  <1>11. \A i \in Ids : ReadyId(table, i) => ReadyId(table, i)'
    BY <1>4, <1>7 DEF ReadyId, Holders
  <1> QED BY <1>8, <1>9, <1>10, <1>11

-----------------------------------------------------------------------------
(* The theorems.                                                           *)

LEMMA InitIInv == Init => IInv
  <1> SUFFICES ASSUME Init PROVE IInv
    OBVIOUS
  <1>1. table = [s \in Slots |-> Free] /\ pending = [id \in Ids |-> None]
    BY DEF Init, EmptyTable
  <1>2. Valid(table) = {} /\ Outstanding = {}
    BY <1>1 DEF Valid, Free, Outstanding
  <1> QED BY <1>1, <1>2 DEF IInv, TableOK, HeldOnce, OneSlotPerBlock

\* Every step keeps the table right and no answer is withdrawn.
LEMMA NextStep ==
    ASSUME IInv, [Next]_vars
    PROVE  /\ IInv'
           /\ \A i \in Ids :
                ReadyId(table, i) => ReadyId(table, i)' \/ pending'[i] = None
  <1>0. IInv /\ (UNCHANGED <<table, pending>> => Valid(table)' = Valid(table))
    BY DEF Valid
  <1>1. ASSUME UNCHANGED <<table, pending>>
        PROVE  IInv' /\ \A i \in Ids : ReadyId(table, i) => ReadyId(table, i)'
    BY <1>0, <1>1 DEF IInv, TableOK, HeldOnce, OneSlotPerBlock, Valid, Outstanding,
                 Holders, HeldBy, ReadyId
  <1>2. CASE UNCHANGED vars
    BY <1>1, <1>2 DEF vars
  <1>3. CASE Tick
    BY <1>3, TickStep
  <1>4. ASSUME NEW id \in Ids, Complete(id)
        PROVE  /\ IInv'
               /\ \A i \in Ids :
                    ReadyId(table, i) => ReadyId(table, i)' \/ pending'[i] = None
    BY <1>4, CompleteStep
  <1>5. ASSUME NEW b \in Blocks, NEW op \in {"Read", "Write"}, Join(b, op)
        PROVE  IInv' /\ \A i \in Ids : ReadyId(table, i) => ReadyId(table, i)'
    <2>1. Fetching(table, b) \subseteq Nat /\ Fetching(table, b) # {}
      BY <1>5 DEF Join, MayJoin, Fetching, Valid, Slots
    <2>2. PICK s \in Valid(table) : s = First(Fetching(table, b)) /\ table[s].block = b
      BY <2>1, FirstIn DEF Fetching
    <2>3. PICK id \in Ids \ Outstanding : id = NextId
      BY <1>5, NextIdFree DEF Join
    <2>4. table' = Merge(table, s, id) /\ pending' = [pending EXCEPT ![id] = table[s].block]
      BY <1>5, <2>2, <2>3 DEF Join
    <2> QED BY <2>4, MergeStep
  <1>6. ASSUME NEW b \in Blocks, NEW op \in {"Read", "Write"}, Issue(b, op)
        PROVE  IInv' /\ \A i \in Ids : ReadyId(table, i) => ReadyId(table, i)'
    <2>1. PICK id \in Ids \ Outstanding : id = NextId
      BY <1>6, NextIdFree DEF Issue
    <2>2. PICK left \in Nat : left = Latency(h, b)
      BY LatencyNat
    <2>3. /\ table' = Allocate(table, id, b, left)
          /\ pending' = [pending EXCEPT ![id] = b]
      BY <1>6, <2>1, <2>2 DEF Issue
    <2>4. CASE Fetching(table, b) # {}
      <3>1. Fetching(table, b) \subseteq Nat
        BY DEF Fetching, Valid, Slots
      <3>2. PICK s \in Valid(table) : s = First(Fetching(table, b)) /\ table[s].block = b
        BY <3>1, <2>4, FirstIn DEF Fetching
      <3>3. table' = Merge(table, s, id) /\ pending' = [pending EXCEPT ![id] = table[s].block]
        BY <2>3, <2>4, <3>2 DEF Allocate
      <3> QED BY <3>3, MergeStep
    <2>5. CASE Fetching(table, b) = {}
      <3>1. Slots \ Valid(table) \subseteq Nat /\ Slots \ Valid(table) # {}
        BY <1>6 DEF Issue, Full, Valid, Slots
      <3>2. PICK s \in Slots \ Valid(table) : s = First(Slots \ Valid(table))
        BY <3>1, FirstIn
      <3>3. table' = [table EXCEPT ![s] = Entry(b, id, left)]
        BY <2>3, <2>5, <3>2 DEF Allocate
      <3> QED BY <2>3, <2>5, <3>3, NewSlotStep
    <2> QED BY <2>4, <2>5
  <1>7. ASSUME NEW b \in Blocks, NEW op \in {"Read", "Write"}, Refuse(b, op)
        PROVE  IInv' /\ \A i \in Ids : ReadyId(table, i) => ReadyId(table, i)'
    BY <1>1, <1>7 DEF Refuse, vars
  <1> QED BY <1>2, <1>3, <1>4, <1>5, <1>6, <1>7 DEF Next

\* For any geometry, number of slots and ids: each outstanding request is held
\* by exactly one slot, of its own block, and no slot by a request that was
\* completed (Cache::issue, complete and MSHR::allocate, release).
THEOREM RequestsHeldOnce == Spec => []HeldOnce
  <1>1. IInv /\ [Next]_vars => IInv'
    BY NextStep
  <1>2. IInv => HeldOnce
    BY DEF IInv
  <1> QED BY InitIInv, <1>1, <1>2, PTL DEF Spec

\* Two slots never fetch the same block, though stores do not take the merge
\* path of Cache::issue.
THEOREM BlocksFetchedOnce == Spec => []OneSlotPerBlock
  <1>1. IInv /\ [Next]_vars => IInv'
    BY NextStep
  <1>2. IInv => OneSlotPerBlock
    BY DEF IInv
  <1> QED BY InitIInv, <1>1, <1>2, PTL DEF Spec

\* What peek reported ready stays ready until it is completed, whatever joins
\* or leaves the slot.
THEOREM AnswersStand == Spec => ReadyIsFinal
  <1>1. IInv /\ [Next]_vars => IInv'
    BY NextStep
  <1>2. IInv /\ [Next]_vars =>
            [\A id \in Ids :
                ReadyId(table, id) => ReadyId(table, id)' \/ pending'[id] = None]_vars
    BY NextStep
  <1> QED BY InitIInv, <1>1, <1>2, PTL DEF Spec, ReadyIsFinal

-----------------------------------------------------------------------------
(* The contents of the two levels.                                         *)

LineSet ==
    [block : Blocks, dirty : BOOLEAN, prefetched : BOOLEAN, fresh : BOOLEAN]

MayDirty(k) == Level[k].policy = "WBWA"

\* A set of level k with index i: at most one line of each block, of its index.
RowOK(k, i, s) ==
    /\ s \in Seq(LineSet) /\ Len(s) <= Level[k].ways
    /\ \A j \in 1 .. Len(s) : /\ IndexOf(k, s[j].block) = i
                              /\ s[j].dirty => MayDirty(k)
    /\ \A j, m \in 1 .. Len(s) : s[j].block = s[m].block => j = m

\* The contents are two levels of such sets, and memory.
RowSet(k) == [0 .. (Level[k].sets - 1) -> Seq(LineSet)]

Shaped(hh) ==
    /\ hh \in [rows : [1 .. 2 -> RowSet(1) \cup RowSet(2)], memory : [Blocks -> BOOLEAN]]
    /\ \A k \in 1 .. 2 :
        /\ hh.rows[k] \in RowSet(k)
        /\ \A i \in 0 .. (Level[k].sets - 1) : RowOK(k, i, hh.rows[k][i])

\* The lines of block b in a set, and in a level: none or one.
LinesIn(s, b) == {l \in LineSet : l.block = b /\ \E j \in 1 .. Len(s) : l = s[j]}

Lines(hh, k, b) == LinesIn(SetOf(hh, k, b), b)

-----------------------------------------------------------------------------
(* What a set is after a line left it or came to it.                       *)

LEMMA RowRemoved ==
    ASSUME NEW k \in 1 .. 2, NEW i, NEW s, RowOK(k, i, s), NEW j \in 1 .. Len(s),
           NEW t \in Seq(LineSet), Len(t) = Len(s) - 1,
           \A n \in 1 .. Len(t) : t[n] = IF n < j THEN s[n] ELSE s[n + 1]
    PROVE  /\ RowOK(k, i, t)
           /\ \A b : LinesIn(t, b) = IF b = s[j].block THEN {} ELSE LinesIn(s, b)
  <1> DEFINE From(n) == IF n < j THEN n ELSE n + 1
  <1>1. PICK len \in Nat : len = Len(s)
    BY DEF RowOK
  <1>2. Len(t) = len - 1 /\ j \in 1 .. len
    BY <1>1
  <1>3. \A n \in 1 .. Len(t) : /\ From(n) \in 1 .. Len(s)
                               /\ From(n) # j
    BY <1>1, <1>2
  <1>4. \A n \in 1 .. Len(t) : t[n] = s[From(n)]
    OBVIOUS
  <1>5. \A n, m \in 1 .. Len(t) : From(n) = From(m) => n = m
    BY <1>1, <1>2
  <1>6. \A m \in 1 .. Len(s) : m # j => \E n \in 1 .. Len(t) : From(n) = m
    <2> SUFFICES ASSUME NEW m \in 1 .. len, m # j
                 PROVE  \E n \in 1 .. len - 1 : From(n) = m
      BY <1>1, <1>2
    <2>1. CASE m < j
      <3>1. m \in 1 .. len - 1 /\ From(m) = m
        BY <2>1, <1>2
      <3> QED BY <3>1
    <2>2. CASE ~ (m < j)
      <3>1. m - 1 \in 1 .. len - 1 /\ From(m - 1) = m
        BY <2>2, <1>2
      <3> QED BY <3>1
    <2> QED BY <2>1, <2>2
  <1> HIDE DEF From
  <1>7. RowOK(k, i, t)
    <2>1. Len(t) <= Level[k].ways
      <3>1. PICK w \in Nat : w = Level[k].ways
        BY HierarchyAssumption
      <3>2. len <= w
        BY <1>1, <3>1 DEF RowOK
      <3> QED BY <3>1, <3>2, <1>2
    <2>2. ASSUME NEW n \in 1 .. Len(t)
          PROVE  IndexOf(k, t[n].block) = i /\ (t[n].dirty => MayDirty(k))
      <3>1. PICK m \in 1 .. Len(s) : t[n] = s[m]
        BY <1>3, <1>4
      <3> QED BY <3>1 DEF RowOK
    <2>3. ASSUME NEW n \in 1 .. Len(t), NEW m \in 1 .. Len(t), t[n].block = t[m].block
          PROVE  n = m
      <3>1. s[From(n)].block = s[From(m)].block
        BY <1>4, <2>3
      <3>2. From(n) = From(m)
        BY <1>3, <3>1 DEF RowOK
      <3> QED BY <3>2, <1>5
    <2> QED BY <2>1, <2>2, <2>3 DEF RowOK
  <1>8. ASSUME NEW b
        PROVE  LinesIn(t, b) = IF b = s[j].block THEN {} ELSE LinesIn(s, b)
    <2>1. CASE b = s[j].block
      <3>1. \A n \in 1 .. Len(t) : t[n].block # b
        BY <2>1, <1>3, <1>4, Zenon DEF RowOK
      <3> QED BY <2>1, <3>1 DEF LinesIn
    <2>2. CASE b # s[j].block
      <3>1. \A n \in 1 .. Len(t) : \E m \in 1 .. Len(s) : t[n] = s[m]
        BY <1>3, <1>4
      <3>2. \A m \in 1 .. Len(s) : s[m].block = b => \E n \in 1 .. Len(t) : t[n] = s[m]
        <4> SUFFICES ASSUME NEW m \in 1 .. Len(s), s[m].block = b
                     PROVE  \E n \in 1 .. Len(t) : t[n] = s[m]
          OBVIOUS
        <4>1. PICK n \in 1 .. Len(t) : From(n) = m
          BY <2>2, <1>6
        <4> QED BY <4>1, <1>4
      <3>3. ASSUME NEW l \in LineSet, l.block = b
            PROVE  (\E n \in 1 .. Len(t) : l = t[n]) <=> (\E m \in 1 .. Len(s) : l = s[m])
        <4>1. ASSUME NEW n \in 1 .. Len(t), l = t[n]
              PROVE  \E m \in 1 .. Len(s) : l = s[m]
          BY <3>1, <4>1
        <4>2. ASSUME NEW m \in 1 .. Len(s), l = s[m]
              PROVE  \E n \in 1 .. Len(t) : l = t[n]
          BY <3>2, <3>3, <4>2
        <4> QED BY <4>1, <4>2
      <3> QED BY <2>2, <3>3, Zenon DEF LinesIn
    <2> QED BY <2>1, <2>2
  <1> QED BY <1>7, <1>8

LEMMA RowAdded ==
    ASSUME NEW k \in 1 .. 2, NEW i, NEW s, RowOK(k, i, s), Len(s) < Level[k].ways,
           NEW line \in LineSet, IndexOf(k, line.block) = i,
           line.dirty => MayDirty(k), LinesIn(s, line.block) = {},
           NEW t, t = <<line>> \o s \/ t = Append(s, line)
    PROVE  /\ RowOK(k, i, t)
           /\ \A b : LinesIn(t, b) = IF b = line.block THEN {line} ELSE LinesIn(s, b)
  <1>1. PICK len \in Nat : len = Len(s)
    BY DEF RowOK
  <1>2. PICK w \in Nat : w = Level[k].ways
    BY HierarchyAssumption
  <1>3. s \in Seq(LineSet) /\ \A m \in 1 .. len : s[m] \in LineSet
    BY <1>1 DEF RowOK
  <1>4. /\ t \in Seq(LineSet) /\ Len(t) = len + 1
        /\ \E p \in 1 .. len + 1 :
             /\ t[p] = line
             /\ \A n \in 1 .. len + 1 :
                  n # p => \E m \in 1 .. len : t[n] = s[m] /\ m = IF n < p THEN n ELSE n - 1
             /\ \A m \in 1 .. len : t[IF m < p THEN m ELSE m + 1] = s[m]
    <2>1. CASE t = <<line>> \o s
      <3>1. /\ <<line>> \in Seq(LineSet) /\ Len(<<line>>) = 1 /\ <<line>>[1] = line
        OBVIOUS
      <3>2. /\ t \in Seq(LineSet) /\ Len(t) = 1 + len
            /\ \A n \in 1 .. 1 + len : t[n] = IF n <= 1 THEN <<line>>[n] ELSE s[n - 1]
        BY <2>1, <3>1, <1>1, <1>3, ConcatProperties
      <3>3. t[1] = line
        BY <3>1, <3>2
      <3>4. \A n \in 1 .. len + 1 : n # 1 => n - 1 \in 1 .. len /\ t[n] = s[n - 1]
        BY <3>2
      <3>5. \A m \in 1 .. len : t[m + 1] = s[m]
        BY <3>2
      <3>6. \A n \in 1 .. len + 1 :
              n # 1 => \E m \in 1 .. len : t[n] = s[m] /\ m = IF n < 1 THEN n ELSE n - 1
        BY <3>4
      <3>7. \A m \in 1 .. len : t[IF m < 1 THEN m ELSE m + 1] = s[m]
        BY <3>5
      <3>8. 1 \in 1 .. len + 1
        OBVIOUS
      <3>9. Len(t) = len + 1
        BY <3>2
      <3> QED BY <3>2, <3>3, <3>6, <3>7, <3>8, <3>9
    <2>2. CASE t = Append(s, line)
      <3>2. /\ t \in Seq(LineSet) /\ Len(t) = len + 1
            /\ t[len + 1] = line
            /\ \A n \in 1 .. len : t[n] = s[n]
        BY <2>2, <1>1, <1>3, AppendProperties
      <3>4. \A n \in 1 .. len + 1 : n # len + 1 => n \in 1 .. len /\ n < len + 1
        OBVIOUS
      <3>6. \A n \in 1 .. len + 1 :
              n # len + 1 => \E m \in 1 .. len : t[n] = s[m] /\ m = IF n < len + 1 THEN n ELSE n - 1
        BY <3>2, <3>4
      <3>7. \A m \in 1 .. len : t[IF m < len + 1 THEN m ELSE m + 1] = s[m]
        BY <3>2
      <3>8. len + 1 \in 1 .. len + 1
        OBVIOUS
      <3> QED BY <3>2, <3>6, <3>7, <3>8
    <2> QED BY <2>1, <2>2
  <1>5. PICK p \in 1 .. len + 1 :
             /\ t[p] = line
             /\ \A n \in 1 .. len + 1 :
                  n # p => \E m \in 1 .. len : t[n] = s[m] /\ m = IF n < p THEN n ELSE n - 1
             /\ \A m \in 1 .. len : t[IF m < p THEN m ELSE m + 1] = s[m]
    BY <1>4
  <1>6. \A m \in 1 .. len : s[m].block # line.block
    BY <1>1, <1>3 DEF LinesIn
  <1>7. \A n \in 1 .. len + 1 : n # p => \E m \in 1 .. len : t[n] = s[m]
    BY <1>5
  <1>8. \A m \in 1 .. len : \E n \in 1 .. len + 1 : t[n] = s[m]
    <2> SUFFICES ASSUME NEW m \in 1 .. len PROVE \E n \in 1 .. len + 1 : t[n] = s[m]
      OBVIOUS
    <2>1. (IF m < p THEN m ELSE m + 1) \in 1 .. len + 1
      BY <1>1
    <2> QED BY <2>1, <1>5, Zenon
  <1>9. RowOK(k, i, t)
    <2>1. Len(t) <= Level[k].ways
      BY <1>1, <1>2, <1>4
    <2>2. ASSUME NEW n \in 1 .. len + 1
          PROVE  IndexOf(k, t[n].block) = i /\ (t[n].dirty => MayDirty(k))
      <3>1. CASE n = p
        BY <3>1, <1>5
      <3>2. CASE n # p
        <4>1. PICK m \in 1 .. len : t[n] = s[m]
          BY <3>2, <1>7
        <4> QED BY <4>1, <1>1 DEF RowOK
      <3> QED BY <3>1, <3>2
    <2>3. ASSUME NEW n \in 1 .. len + 1, NEW m \in 1 .. len + 1, t[n].block = t[m].block
          PROVE  n = m
      <3>1. CASE n = p \/ m = p
        <4>1. \A q \in 1 .. len + 1 : q # p => t[q].block # line.block
          BY <1>6, <1>7
        <4> QED BY <3>1, <4>1, <2>3, <1>5
      <3>2. CASE n # p /\ m # p
        <4>1. PICK n1 \in 1 .. len : t[n] = s[n1] /\ n1 = IF n < p THEN n ELSE n - 1
          BY <3>2, <1>5, Zenon
        <4>2. PICK m1 \in 1 .. len : t[m] = s[m1] /\ m1 = IF m < p THEN m ELSE m - 1
          BY <3>2, <1>5, Zenon
        <4>3. n1 = m1
          BY <4>1, <4>2, <2>3, <1>1 DEF RowOK
        <4>4. n1 = IF n < p THEN n ELSE n - 1
          BY <4>1
        <4>5. m1 = IF m < p THEN m ELSE m - 1
          BY <4>2
        <4>6. CASE n < p /\ m < p
          BY <4>3, <4>4, <4>5, <4>6
        <4>7. CASE n > p /\ m > p
          <5>1. n1 = n - 1 /\ m1 = m - 1
            BY <4>4, <4>5, <4>7
          <5> QED BY <5>1, <4>3
        <4>8. CASE n < p /\ m > p
          <5>1. n1 = n /\ m1 = m - 1
            BY <4>4, <4>5, <4>8
          <5> QED BY <5>1, <4>3, <4>8
        <4>9. CASE n > p /\ m < p
          <5>1. n1 = n - 1 /\ m1 = m
            BY <4>4, <4>5, <4>9
          <5> QED BY <5>1, <4>3, <4>9
        <4>10. n < p \/ n > p
          BY <3>2
        <4>11. m < p \/ m > p
          BY <3>2
        <4> QED BY <4>6, <4>7, <4>8, <4>9, <4>10, <4>11
      <3> QED BY <3>1, <3>2
    <2> QED BY <2>1, <2>2, <2>3, <1>4 DEF RowOK
  <1>10. ASSUME NEW b
         PROVE  LinesIn(t, b) = IF b = line.block THEN {line} ELSE LinesIn(s, b)
    <2>1. CASE b = line.block
      <3>1. \A l : (l.block = b /\ \E n \in 1 .. len + 1 : l = t[n]) <=> l = line
        <4>1. \A q \in 1 .. len + 1 : q # p => t[q].block # b
          BY <2>1, <1>6, <1>7
        <4>2. t[p] = line /\ p \in 1 .. len + 1
          BY <1>5
        <4> QED BY <2>1, <4>1, <4>2, Zenon
      <3> QED BY <2>1, <3>1, <1>4 DEF LinesIn
    <2>2. CASE b # line.block
      <3>1. \A n \in 1 .. len + 1 : t[n].block = b => \E m \in 1 .. len : t[n] = s[m]
        <4>1. t[p].block # b
          BY <2>2, <1>5
        <4> QED BY <4>1, <1>7
      <3> QED BY <2>2, <3>1, <1>8, <1>1, <1>4 DEF LinesIn
    <2> QED BY <2>1, <2>2
  <1> QED BY <1>9, <1>10

LEMMA RemovedAt ==
    ASSUME NEW S, NEW s \in Seq(S), NEW p \in 1 .. Len(s)
    PROVE  /\ RemoveAt(s, p) \in Seq(S) /\ Len(RemoveAt(s, p)) = Len(s) - 1
           /\ \A n \in 1 .. Len(s) - 1 :
                RemoveAt(s, p)[n] = IF n < p THEN s[n] ELSE s[n + 1]
  <1>1. PICK len \in Nat : len = Len(s)
    OBVIOUS
  <1>2. p \in 1 .. len /\ \A n \in 1 .. len : s[n] \in S
    BY <1>1
  <1>3. PICK u : u = SubSeq(s, 1, p - 1)
    OBVIOUS
  <1>4. PICK v : v = SubSeq(s, p + 1, len)
    OBVIOUS
  <1>5. /\ u \in Seq(S) /\ Len(u) = p - 1
        /\ \A n \in 1 .. p - 1 : u[n] = s[n]
    <2>1. /\ 1 \in Int /\ p - 1 \in Int
          /\ \A n \in 1 .. p - 1 : s[n] \in S
      BY <1>2
    <2>2. /\ SubSeq(s, 1, p - 1) \in Seq(S)
          /\ Len(SubSeq(s, 1, p - 1)) = IF 1 <= p - 1 THEN (p - 1) - 1 + 1 ELSE 0
          /\ \A n \in 1 .. (p - 1) - 1 + 1 : SubSeq(s, 1, p - 1)[n] = s[1 + n - 1]
      BY <2>1, SubSeqProperties
    <2> QED BY <2>2, <1>2, <1>3
  <1>6. /\ v \in Seq(S) /\ Len(v) = len - p
        /\ \A n \in 1 .. len - p : v[n] = s[p + n]
    <2>1. /\ p + 1 \in Int /\ len \in Int
          /\ \A n \in p + 1 .. len : s[n] \in S
      BY <1>2
    <2>2. /\ SubSeq(s, p + 1, len) \in Seq(S)
          /\ Len(SubSeq(s, p + 1, len)) = IF p + 1 <= len THEN len - (p + 1) + 1 ELSE 0
          /\ \A n \in 1 .. len - (p + 1) + 1 : SubSeq(s, p + 1, len)[n] = s[(p + 1) + n - 1]
      BY <2>1, SubSeqProperties
    <2> QED BY <2>2, <1>2, <1>4
  <1>7. /\ u \o v \in Seq(S) /\ Len(u \o v) = Len(u) + Len(v)
        /\ \A n \in 1 .. Len(u) + Len(v) :
             (u \o v)[n] = IF n <= Len(u) THEN u[n] ELSE v[n - Len(u)]
    BY <1>5, <1>6, ConcatProperties
  <1>8. RemoveAt(s, p) = u \o v
    BY <1>1, <1>3, <1>4 DEF RemoveAt
  <1>9. ASSUME NEW n \in 1 .. len - 1
        PROVE  (u \o v)[n] = IF n < p THEN s[n] ELSE s[n + 1]
    <2>1. (u \o v)[n] = IF n <= p - 1 THEN u[n] ELSE v[n - (p - 1)]
      <3>1. Len(u) = p - 1 /\ Len(v) = len - p
        BY <1>5, <1>6
      <3>2. (p - 1) + (len - p) = len - 1
        BY <1>2
      <3>3. n \in 1 .. Len(u) + Len(v)
        BY <3>1, <3>2
      <3>4. (u \o v)[n] = IF n <= Len(u) THEN u[n] ELSE v[n - Len(u)]
        BY <3>3, <1>7, Zenon
      <3> QED BY <3>1, <3>4, Zenon
    <2>2. CASE n < p
      <3>1. n \in 1 .. p - 1
        BY <2>2
      <3> QED BY <2>1, <2>2, <3>1, <1>5
    <2>3. CASE ~ (n < p)
      <3>1. PICK m \in 1 .. len - p : m = n - (p - 1)
        BY <2>3
      <3>2. p + m = n + 1
        BY <3>1
      <3>3. (u \o v)[n] = v[m]
        BY <2>1, <2>3, <3>1
      <3> QED BY <2>3, <3>1, <3>2, <3>3, <1>6
    <2> QED BY <2>2, <2>3
  <1>10. Len(u \o v) = len - 1
    BY <1>5, <1>6, <1>7
  <1> QED BY <1>1, <1>7, <1>8, <1>9, <1>10

LEMMA FrontIs ==
    ASSUME NEW S, NEW s \in Seq(S), NEW len \in Nat \ {0}, len = Len(s)
    PROVE  /\ Front(s) \in Seq(S) /\ Len(Front(s)) = len - 1
           /\ \A n \in 1 .. len - 1 : Front(s)[n] = s[n]
  <1>1. /\ 1 \in Int /\ len - 1 \in Int
        /\ \A n \in 1 .. len - 1 : s[n] \in S
    OBVIOUS
  <1>2. /\ SubSeq(s, 1, len - 1) \in Seq(S)
        /\ Len(SubSeq(s, 1, len - 1)) = IF 1 <= len - 1 THEN (len - 1) - 1 + 1 ELSE 0
        /\ \A n \in 1 .. (len - 1) - 1 + 1 : SubSeq(s, 1, len - 1)[n] = s[1 + n - 1]
    BY <1>1, SubSeqProperties
  <1> QED BY <1>2 DEF Front

-----------------------------------------------------------------------------
(* What the levels hold after one of their sets changed.                   *)

LEMMA IndexIn ==
    ASSUME NEW k \in 1 .. 2, NEW b \in Blocks
    PROVE  IndexOf(k, b) \in 0 .. (Level[k].sets - 1)
  <1>1. PICK n \in Nat \ {0} : n = Level[k].sets
    BY HierarchyAssumption
  <1>2. b \in Nat
    BY HierarchyAssumption
  <1>3. b % n \in 0 .. (n - 1)
    BY <1>1, <1>2
  <1> QED BY <1>1, <1>3 DEF IndexOf

LEMMA SetShaped ==
    ASSUME NEW hh, Shaped(hh), NEW k \in 1 .. 2, NEW b \in Blocks
    PROVE  RowOK(k, IndexOf(k, b), SetOf(hh, k, b))
  BY IndexIn DEF Shaped, SetOf

LEMMA SetReplaced ==
    ASSUME NEW hh, Shaped(hh), NEW k \in 1 .. 2, NEW b \in Blocks,
           NEW s, RowOK(k, IndexOf(k, b), s),
           NEW x, x = WithSet(hh, k, b, s)
    PROVE  /\ Shaped(x) /\ x.memory = hh.memory
           /\ \A j \in 1 .. 2, c \in Blocks :
                SetOf(x, j, c) = IF j = k /\ IndexOf(k, c) = IndexOf(k, b) THEN s
                                 ELSE SetOf(hh, j, c)
  <1>1. PICK i \in 0 .. (Level[k].sets - 1) : i = IndexOf(k, b)
    BY IndexIn
  <1>2. s \in Seq(LineSet)
    BY DEF RowOK
  <1>3. /\ hh.rows \in [1 .. 2 -> RowSet(1) \cup RowSet(2)]
        /\ hh.memory \in [Blocks -> BOOLEAN]
        /\ \A j \in 1 .. 2 : hh.rows[j] \in RowSet(j)
    BY DEF Shaped
  <1>4. PICK r : r = [hh.rows[k] EXCEPT ![i] = s]
    OBVIOUS
  <1>5. /\ r \in RowSet(k) /\ r[i] = s
        /\ \A m \in 0 .. (Level[k].sets - 1) : m # i => r[m] = hh.rows[k][m]
    BY <1>2, <1>3, <1>4 DEF RowSet
  <1>6. PICK rs : rs = [hh.rows EXCEPT ![k] = r]
    OBVIOUS
  <1>7. r \in RowSet(1) \cup RowSet(2)
    <2>1. k = 1 \/ k = 2
      OBVIOUS
    <2> QED BY <2>1, <1>5
  <1>8. /\ rs \in [1 .. 2 -> RowSet(1) \cup RowSet(2)] /\ rs[k] = r
        /\ \A j \in 1 .. 2 : j # k => rs[j] = hh.rows[j]
    BY <1>3, <1>6, <1>7
  <1>9. x = [hh EXCEPT !.rows = rs]
    BY <1>1, <1>4, <1>6 DEF WithSet
  <1>10. /\ x.rows = rs /\ x.memory = hh.memory
         /\ x \in [rows : [1 .. 2 -> RowSet(1) \cup RowSet(2)], memory : [Blocks -> BOOLEAN]]
    BY <1>8, <1>9 DEF Shaped
  <1>11. ASSUME NEW j \in 1 .. 2
         PROVE  /\ x.rows[j] \in RowSet(j)
                /\ \A m \in 0 .. (Level[j].sets - 1) : RowOK(j, m, x.rows[j][m])
    <2>1. CASE j # k
      BY <2>1, <1>8, <1>10 DEF Shaped
    <2>2. CASE j = k
      <3>1. ASSUME NEW m \in 0 .. (Level[k].sets - 1)
            PROVE  RowOK(k, m, r[m])
        <4>1. CASE m = i
          BY <4>1, <1>1, <1>5
        <4>2. CASE m # i
          BY <4>2, <1>5 DEF Shaped
        <4> QED BY <4>1, <4>2
      <3> QED BY <2>2, <3>1, <1>5, <1>8, <1>10
    <2> QED BY <2>1, <2>2
  <1>12. ASSUME NEW j \in 1 .. 2, NEW c \in Blocks
         PROVE  SetOf(x, j, c) = IF j = k /\ IndexOf(k, c) = IndexOf(k, b) THEN s
                                 ELSE SetOf(hh, j, c)
    <2>1. CASE j # k
      BY <2>1, <1>8, <1>10 DEF SetOf
    <2>2. CASE j = k
      <3>1. IndexOf(k, c) \in 0 .. (Level[k].sets - 1)
        BY IndexIn
      <3> QED BY <2>2, <3>1, <1>1, <1>5, <1>8, <1>10 DEF SetOf
    <2> QED BY <2>1, <2>2
  <1> QED BY <1>10, <1>11, <1>12 DEF Shaped

\* The copy is the one line of its block.
LEMMA CopyIs ==
    ASSUME NEW hh, Shaped(hh), NEW k \in 1 .. 2, NEW b \in Blocks
    PROVE  /\ Resident(hh, k, b) <=> Lines(hh, k, b) # {}
           /\ Resident(hh, k, b) =>
                /\ Lines(hh, k, b) = {CopyOf(hh, k, b)}
                /\ First(PlacesOf(hh, k, b)) \in 1 .. Len(SetOf(hh, k, b))
                /\ CopyOf(hh, k, b) \in LineSet
                /\ CopyOf(hh, k, b).block = b
                /\ CopyOf(hh, k, b).dirty => MayDirty(k)
  <1>1. PICK s : s = SetOf(hh, k, b)
    OBVIOUS
  <1>2. RowOK(k, IndexOf(k, b), s) /\ s \in Seq(LineSet)
    BY <1>1, SetShaped DEF RowOK
  <1>3. DOMAIN s = 1 .. Len(s) /\ \A j \in 1 .. Len(s) : s[j] \in LineSet
    BY <1>2
  <1>4. PlacesOf(hh, k, b) = {j \in 1 .. Len(s) : s[j].block = b}
    BY <1>1, <1>3 DEF PlacesOf
  <1>5. Resident(hh, k, b) <=> Lines(hh, k, b) # {}
    BY <1>1, <1>3, <1>4 DEF Resident, Lines, LinesIn
  <1>6. ASSUME Resident(hh, k, b)
        PROVE  /\ Lines(hh, k, b) = {CopyOf(hh, k, b)}
               /\ First(PlacesOf(hh, k, b)) \in 1 .. Len(s)
               /\ CopyOf(hh, k, b) \in LineSet
               /\ CopyOf(hh, k, b).block = b
               /\ CopyOf(hh, k, b).dirty => MayDirty(k)
    <2>1. PlacesOf(hh, k, b) \subseteq Nat /\ PlacesOf(hh, k, b) # {}
      BY <1>4, <1>6, <1>2 DEF Resident
    <2>2. PICK p : p = First(PlacesOf(hh, k, b))
      OBVIOUS
    <2>3. p \in 1 .. Len(s) /\ s[p].block = b
      BY <2>1, <2>2, <1>4, FirstIn
    <2>4. CopyOf(hh, k, b) = s[p]
      BY <1>1, <2>2 DEF CopyOf
    <2>5. \A j \in 1 .. Len(s) : s[j].block = b => j = p
      BY <2>3, <1>2 DEF RowOK
    <2>6. LinesIn(s, b) = {s[p]}
      BY <2>3, <2>5, <1>3 DEF LinesIn
    <2>7. s[p].dirty => MayDirty(k)
      BY <2>3, <1>2 DEF RowOK
    <2> QED BY <2>2, <2>3, <2>4, <2>6, <2>7, <1>1, <1>3 DEF Lines
  <1> QED BY <1>1, <1>5, <1>6

\* A hit exchanges the line for the touched one and nothing else.
LEMMA Promoted ==
    ASSUME NEW hh, Shaped(hh), NEW k \in 1 .. 2, NEW b \in Blocks, Resident(hh, k, b),
           NEW line \in LineSet, line.block = b, line.dirty => MayDirty(k),
           NEW x, x = Promote(hh, k, b, line)
    PROVE  /\ Shaped(x) /\ x.memory = hh.memory
           /\ \A j \in 1 .. 2, c \in Blocks : j # k => SetOf(x, j, c) = SetOf(hh, j, c)
           /\ \A j \in 1 .. 2, c \in Blocks :
                Lines(x, j, c) = IF j = k /\ c = b THEN {line} ELSE Lines(hh, j, c)
  <1>1. PICK s : s = SetOf(hh, k, b)
    OBVIOUS
  <1>2. PICK i : i = IndexOf(k, b)
    OBVIOUS
  <1>3. RowOK(k, i, s) /\ s \in Seq(LineSet)
    BY <1>1, <1>2, SetShaped DEF RowOK
  <1>4. PICK p \in 1 .. Len(s) : p = First(PlacesOf(hh, k, b))
    BY <1>1, CopyIs
  <1>5. s[p].block = b
    BY <1>1, <1>4, CopyIs DEF CopyOf
  <1>6. PICK t : t = RemoveAt(s, p)
    OBVIOUS
  <1>7. PICK len \in Nat : len = Len(s)
    BY <1>3
  <1>8. /\ t \in Seq(LineSet) /\ Len(t) = len - 1
        /\ \A n \in 1 .. Len(t) : t[n] = IF n < p THEN s[n] ELSE s[n + 1]
    BY <1>3, <1>6, <1>7, RemovedAt
  <1>9. /\ RowOK(k, i, t)
        /\ \A c : LinesIn(t, c) = IF c = b THEN {} ELSE LinesIn(s, c)
    <2>1. Len(t) = Len(s) - 1
      BY <1>7, <1>8
    <2>2. \A c : LinesIn(t, c) = IF c = s[p].block THEN {} ELSE LinesIn(s, c)
      BY <1>3, <1>8, <2>1, RowRemoved
    <2>3. RowOK(k, i, t)
      BY <1>3, <1>8, <2>1, RowRemoved
    <2> QED BY <2>2, <2>3, <1>5
  <1>10. Len(t) < Level[k].ways
    <2>1. PICK w \in Nat : w = Level[k].ways
      BY HierarchyAssumption
    <2>2. len <= w
      BY <1>3, <1>7, <2>1 DEF RowOK
    <2> QED BY <2>1, <2>2, <1>8
  <1>11. PICK u : u = <<line>> \o t
    OBVIOUS
  <1>12. /\ RowOK(k, i, u)
         /\ \A c : LinesIn(u, c) = IF c = b THEN {line} ELSE LinesIn(t, c)
    <2>1. LinesIn(t, line.block) = {} /\ IndexOf(k, line.block) = i
      BY <1>2, <1>9
    <2>2. u = <<line>> \o t \/ u = Append(t, line)
      BY <1>11
    <2>3. RowOK(k, i, t)
      BY <1>9
    <2>4. /\ RowOK(k, i, u)
          /\ \A c : LinesIn(u, c) = IF c = line.block THEN {line} ELSE LinesIn(t, c)
      <3>1. line.dirty => MayDirty(k)
        OBVIOUS
      <3>2. \A e : (e = <<line>> \o t \/ e = Append(t, line)) =>
              /\ RowOK(k, i, e)
              /\ \A c : LinesIn(e, c) = IF c = line.block THEN {line} ELSE LinesIn(t, c)
        BY <2>1, <2>3, <1>10, <3>1, RowAdded, SMTT(30)
      <3> QED BY <2>2, <3>2
    <2> QED BY <2>4
  <1>13. x = WithSet(hh, k, b, u)
    BY <1>1, <1>4, <1>6, <1>11 DEF Promote
  <1>14. /\ Shaped(x) /\ x.memory = hh.memory
         /\ \A j \in 1 .. 2, c \in Blocks :
              SetOf(x, j, c) = IF j = k /\ IndexOf(k, c) = i THEN u ELSE SetOf(hh, j, c)
    BY <1>2, <1>12, <1>13, SetReplaced
  <1>15. ASSUME NEW j \in 1 .. 2, NEW c \in Blocks
         PROVE  Lines(x, j, c) = IF j = k /\ c = b THEN {line} ELSE Lines(hh, j, c)
    <2>1. CASE j = k /\ IndexOf(k, c) = i
      <3>1. SetOf(hh, k, c) = s
        BY <2>1, <1>1, <1>2 DEF SetOf
      <3>2. Lines(x, j, c) = LinesIn(u, c) /\ Lines(hh, j, c) = LinesIn(s, c)
        BY <2>1, <3>1, <1>14 DEF Lines
      <3> QED BY <2>1, <3>2, <1>9, <1>12
    <2>2. CASE ~ (j = k /\ IndexOf(k, c) = i)
      BY <2>2, <1>2, <1>14 DEF Lines
    <2> QED BY <2>1, <2>2
  <1>16. \A j \in 1 .. 2, c \in Blocks : j # k => SetOf(x, j, c) = SetOf(hh, j, c)
    BY <1>14
  <1> QED BY <1>16, <1>14, <1>15

\* The set a line goes to is full, and the block that leaves it then.
FullSet(hh, k, b) == Len(SetOf(hh, k, b)) = Level[k].ways

Victim(hh, k, b) == Last(SetOf(hh, k, b))

LEMMA VictimIs ==
    ASSUME NEW hh, Shaped(hh), NEW k \in 1 .. 2, NEW b \in Blocks, FullSet(hh, k, b)
    PROVE  /\ Victim(hh, k, b) \in LineSet
           /\ Victim(hh, k, b).dirty => MayDirty(k)
           /\ Lines(hh, k, Victim(hh, k, b).block) = {Victim(hh, k, b)}
           /\ IndexOf(k, Victim(hh, k, b).block) = IndexOf(k, b)
  <1>1. PICK s : s = SetOf(hh, k, b)
    OBVIOUS
  <1>2. RowOK(k, IndexOf(k, b), s) /\ s \in Seq(LineSet)
    BY <1>1, SetShaped DEF RowOK
  <1>3. PICK len \in Nat \ {0} : len = Len(s)
    BY <1>1, HierarchyAssumption DEF FullSet
  <1>4. PICK v : v = s[len]
    OBVIOUS
  <1>5. Victim(hh, k, b) = v /\ v \in LineSet /\ len \in 1 .. Len(s)
    BY <1>1, <1>2, <1>3, <1>4 DEF Victim, Last
  <1>6. IndexOf(k, v.block) = IndexOf(k, b) /\ (v.dirty => MayDirty(k))
    BY <1>2, <1>4, <1>5 DEF RowOK
  <1>7. SetOf(hh, k, v.block) = s
    BY <1>1, <1>6 DEF SetOf
  <1>8. LinesIn(s, v.block) = {v}
    <2>1. \A j \in 1 .. Len(s) : s[j].block = v.block => j = len
      BY <1>2, <1>4, <1>5 DEF RowOK
    <2> QED BY <2>1, <1>4, <1>5 DEF LinesIn
  <1> QED BY <1>5, <1>6, <1>7, <1>8 DEF Lines

\* A line that comes in displaces the victim of a full set and nothing else.
LEMMA Placed ==
    ASSUME NEW hh, Shaped(hh), NEW k \in 1 .. 2,
           NEW line \in LineSet, line.dirty => MayDirty(k), Lines(hh, k, line.block) = {},
           NEW x, x = Place(hh, k, line)
    PROVE  /\ Shaped(x) /\ x.memory = hh.memory
           /\ \A j \in 1 .. 2, c \in Blocks : j # k => SetOf(x, j, c) = SetOf(hh, j, c)
           /\ \A j \in 1 .. 2, c \in Blocks :
                Lines(x, j, c) =
                  IF j = k /\ c = line.block THEN {line}
                  ELSE IF j = k /\ FullSet(hh, k, line.block)
                                /\ c = Victim(hh, k, line.block).block THEN {}
                  ELSE Lines(hh, j, c)
  <1>0. PICK b \in Blocks : b = line.block
    BY DEF LineSet
  <1>1. PICK s : s = SetOf(hh, k, b)
    OBVIOUS
  <1>2. PICK i : i = IndexOf(k, b)
    OBVIOUS
  <1>3. RowOK(k, i, s) /\ s \in Seq(LineSet)
    BY <1>1, <1>2, SetShaped DEF RowOK
  <1>4. PICK len \in Nat : len = Len(s)
    BY <1>3
  <1>5. PICK w \in Nat \ {0} : w = Level[k].ways
    BY HierarchyAssumption
  <1>6. len <= w
    BY <1>3, <1>4, <1>5 DEF RowOK
  <1>7. PICK t : t = IF len = w THEN Front(s) ELSE s
    OBVIOUS
  <1>8. /\ RowOK(k, i, t) /\ Len(t) < Level[k].ways
        /\ \A c : LinesIn(t, c) = IF len = w /\ c = Victim(hh, k, b).block THEN {}
                                  ELSE LinesIn(s, c)
    <2>1. CASE len = w
      <3>1. /\ t \in Seq(LineSet) /\ Len(t) = len - 1
            /\ \A n \in 1 .. len - 1 : t[n] = s[n]
        BY <2>1, <1>3, <1>4, <1>7, FrontIs
      <3>2. len \in 1 .. Len(s) /\ Victim(hh, k, b) = s[len]
        BY <2>1, <1>1, <1>4 DEF Victim, Last
      <3>3. /\ Len(t) = Len(s) - 1
            /\ \A n \in 1 .. Len(t) : t[n] = IF n < len THEN s[n] ELSE s[n + 1]
        BY <2>1, <3>1, <1>4
      <3>4. /\ RowOK(k, i, t)
            /\ \A c : LinesIn(t, c) = IF c = s[len].block THEN {} ELSE LinesIn(s, c)
        BY <3>1, <3>2, <3>3, <1>3, RowRemoved
      <3>5. Len(t) < Level[k].ways
        BY <3>1, <2>1, <1>5
      <3> QED BY <2>1, <3>2, <3>4, <3>5
    <2>2. CASE len # w
      <3>1. len < w
        BY <2>2, <1>6
      <3> QED BY <2>2, <3>1, <1>3, <1>4, <1>5, <1>7
    <2> QED BY <2>1, <2>2
  <1>9. PICK u : u = IF Level[k].replacement = "LRU_LIP" THEN Append(t, line) ELSE <<line>> \o t
    OBVIOUS
  <1>10. LinesIn(t, b) = {}
    BY <1>0, <1>1, <1>8 DEF Lines
  <1>11. /\ RowOK(k, i, u)
         /\ \A c : LinesIn(u, c) = IF c = b THEN {line} ELSE LinesIn(t, c)
    <2>1. u = <<line>> \o t \/ u = Append(t, line)
      BY <1>9
    <2> QED BY <2>1, <1>0, <1>2, <1>8, <1>10, RowAdded
  <1>12. x = WithSet(hh, k, b, u)
    BY <1>0, <1>1, <1>4, <1>5, <1>7, <1>9 DEF Place
  <1>13. /\ Shaped(x) /\ x.memory = hh.memory
         /\ \A j \in 1 .. 2, c \in Blocks :
              SetOf(x, j, c) = IF j = k /\ IndexOf(k, c) = i THEN u ELSE SetOf(hh, j, c)
    BY <1>2, <1>11, <1>12, SetReplaced
  <1>14. FullSet(hh, k, b) <=> len = w
    BY <1>1, <1>4, <1>5 DEF FullSet
  <1>15. ASSUME NEW j \in 1 .. 2, NEW c \in Blocks
         PROVE  Lines(x, j, c) =
                  IF j = k /\ c = b THEN {line}
                  ELSE IF j = k /\ FullSet(hh, k, b) /\ c = Victim(hh, k, b).block THEN {}
                  ELSE Lines(hh, j, c)
    <2>1. CASE j = k /\ IndexOf(k, c) = i
      <3>1. SetOf(hh, k, c) = s
        BY <2>1, <1>1, <1>2 DEF SetOf
      <3>2. Lines(x, j, c) = LinesIn(u, c) /\ Lines(hh, j, c) = LinesIn(s, c)
        BY <2>1, <3>1, <1>13 DEF Lines
      <3> QED BY <2>1, <3>2, <1>8, <1>11, <1>14
    <2>2. CASE ~ (j = k /\ IndexOf(k, c) = i)
      <3>1. Lines(x, j, c) = Lines(hh, j, c)
        BY <2>2, <1>13 DEF Lines
      <3>2. ~ (j = k /\ c = b)
        BY <2>2, <1>2
      <3>3. ~ (j = k /\ FullSet(hh, k, b) /\ c = Victim(hh, k, b).block)
        BY <2>2, <1>2, VictimIs
      <3> QED BY <3>1, <3>2, <3>3
    <2> QED BY <2>1, <2>2
  <1>16. \A j \in 1 .. 2, c \in Blocks : j # k => SetOf(x, j, c) = SetOf(hh, j, c)
    BY <1>13
  <1> QED BY <1>16, <1>0, <1>13, <1>15

-----------------------------------------------------------------------------
(* The L2: what it answers for, and what an access to it leaves alone.     *)

\* A clean copy in the L2 is what memory has.
BackedUp(hh) ==
    \A c \in Blocks : \A l \in Lines(hh, 2, c) : ~l.dirty => hh.memory[c] = l.fresh

\* The L1 does not see the step from hh to x.
BelowL1(hh, x) == Shaped(x) /\ \A c \in Blocks : SetOf(x, 1, c) = SetOf(hh, 1, c)

LEMMA BelowIs ==
    ASSUME NEW hh, Shaped(hh), NEW c \in Blocks
    PROVE  /\ \A l \in Lines(hh, 2, c) : Below(hh, c) = l.fresh
           /\ Lines(hh, 2, c) = {} => Below(hh, c) = hh.memory[c]
           /\ Below(hh, c) \in BOOLEAN
           /\ hh.memory[c] \in BOOLEAN
  <1>1. hh.memory[c] \in BOOLEAN
    BY DEF Shaped
  <1>2. CASE Resident(hh, 2, c)
    <2>1. Lines(hh, 2, c) = {CopyOf(hh, 2, c)} /\ CopyOf(hh, 2, c) \in LineSet
      BY <1>2, CopyIs
    <2>2. Below(hh, c) = CopyOf(hh, 2, c).fresh
      BY <1>2 DEF Below
    <2> QED BY <1>1, <2>1, <2>2 DEF LineSet
  <1>3. CASE ~Resident(hh, 2, c)
    <2>1. Lines(hh, 2, c) = {}
      BY <1>3, CopyIs
    <2>2. Below(hh, c) = hh.memory[c]
      BY <1>3 DEF Below
    <2> QED BY <1>1, <2>1, <2>2
  <1> QED BY <1>2, <1>3

WithMemory(hh, b, f) == [hh EXCEPT !.memory[b] = f]

LEMMA MemoryWritten ==
    ASSUME NEW hh, Shaped(hh), NEW b \in Blocks, NEW f \in BOOLEAN,
           NEW x, x = WithMemory(hh, b, f)
    PROVE  /\ Shaped(x)
           /\ \A j \in 1 .. 2, c \in Blocks : SetOf(x, j, c) = SetOf(hh, j, c)
           /\ \A c \in Blocks : x.memory[c] = IF c = b THEN f ELSE hh.memory[c]
  <1>1. PICK m : m = [hh.memory EXCEPT ![b] = f]
    OBVIOUS
  <1>2. /\ m \in [Blocks -> BOOLEAN]
        /\ \A c \in Blocks : m[c] = IF c = b THEN f ELSE hh.memory[c]
    BY <1>1 DEF Shaped
  <1>3. x = [hh EXCEPT !.memory = m]
    BY <1>1 DEF WithMemory
  <1>4. /\ x.rows = hh.rows /\ x.memory = m
        /\ x \in [rows : [1 .. 2 -> RowSet(1) \cup RowSet(2)], memory : [Blocks -> BOOLEAN]]
    BY <1>2, <1>3 DEF Shaped
  <1>5. Shaped(x)
    BY <1>4 DEF Shaped
  <1> QED BY <1>2, <1>4, <1>5 DEF SetOf

\* A line that comes into the L2 changes what is answered for its own block
\* only: the victim, if dirty, is in memory before it leaves.
LEMMA Inserted2 ==
    ASSUME NEW hh, Shaped(hh), NEW line \in LineSet, line.dirty => MayDirty(2),
           Lines(hh, 2, line.block) = {},
           NEW x, x = Insert2(hh, line)
    PROVE  /\ BelowL1(hh, x)
           /\ BackedUp(hh) /\ (~line.dirty => hh.memory[line.block] = line.fresh) =>
                /\ BackedUp(x)
                /\ \A c \in Blocks :
                     Below(x, c) = IF c = line.block THEN line.fresh ELSE Below(hh, c)
  <1>0. PICK b \in Blocks : b = line.block
    BY DEF LineSet
  <1>1. PICK v : v = Victim(hh, 2, b)
    OBVIOUS
  <1>2. FullSet(hh, 2, b) => /\ v \in LineSet /\ v.block \in Blocks /\ v.fresh \in BOOLEAN
                             /\ v.dirty => MayDirty(2)
                             /\ Lines(hh, 2, v.block) = {v}
                             /\ v.block # b
    BY <1>0, <1>1, VictimIs DEF LineSet
  <1>3. WritesBack(hh, 2, b) <=> FullSet(hh, 2, b) /\ v.dirty
    BY <1>1, <1>2 DEF WritesBack, FullSet, Victim, MayDirty
  <1>4. PICK back : back = IF WritesBack(hh, 2, b)
                           THEN [hh EXCEPT !.memory[v.block] = v.fresh] ELSE hh
    OBVIOUS
  <1>5. /\ Shaped(back)
        /\ \A j \in 1 .. 2, c \in Blocks : SetOf(back, j, c) = SetOf(hh, j, c)
        /\ \A c \in Blocks : back.memory[c] = IF WritesBack(hh, 2, b) /\ c = v.block
                                              THEN v.fresh ELSE hh.memory[c]
    <2>1. CASE WritesBack(hh, 2, b)
      <3>1. v.block \in Blocks /\ v.fresh \in BOOLEAN
        BY <2>1, <1>2, <1>3
      <3>2. back = WithMemory(hh, v.block, v.fresh)
        BY <2>1, <1>4 DEF WithMemory
      <3>3. /\ Shaped(back)
            /\ \A j \in 1 .. 2, c \in Blocks : SetOf(back, j, c) = SetOf(hh, j, c)
            /\ \A c \in Blocks : back.memory[c] = IF c = v.block THEN v.fresh ELSE hh.memory[c]
        BY <3>1, <3>2, MemoryWritten
      <3> QED BY <2>1, <3>3
    <2>2. CASE ~WritesBack(hh, 2, b)
      BY <2>2, <1>4
    <2> QED BY <2>1, <2>2
  <1>6. \A j \in 1 .. 2, c \in Blocks : Lines(back, j, c) = Lines(hh, j, c)
    BY <1>5 DEF Lines
  <1>7. /\ FullSet(back, 2, b) <=> FullSet(hh, 2, b)
        /\ Victim(back, 2, b) = v
    BY <1>1, <1>5 DEF FullSet, Victim
  <1>8. x = Place(back, 2, line)
    BY <1>0, <1>1, <1>4 DEF Insert2, Victim
  <1>9. /\ Shaped(x) /\ x.memory = back.memory
        /\ \A j \in 1 .. 2, c \in Blocks : j # 2 => SetOf(x, j, c) = SetOf(back, j, c)
        /\ \A j \in 1 .. 2, c \in Blocks :
             Lines(x, j, c) = IF j = 2 /\ c = b THEN {line}
                              ELSE IF j = 2 /\ FullSet(back, 2, b)
                                            /\ c = Victim(back, 2, b).block THEN {}
                              ELSE Lines(back, j, c)
    <2>1. Lines(back, 2, line.block) = {}
      BY <1>0, <1>6
    <2> QED BY <2>1, <1>0, <1>5, <1>8, Placed
  <1>10. \A c \in Blocks :
            Lines(x, 2, c) = IF c = b THEN {line}
                             ELSE IF FullSet(hh, 2, b) /\ c = v.block THEN {}
                             ELSE Lines(hh, 2, c)
    BY <1>6, <1>7, <1>9
  <1>11. BelowL1(hh, x)
    BY <1>5, <1>9 DEF BelowL1
  <1>12. ASSUME BackedUp(hh), ~line.dirty => hh.memory[b] = line.fresh, NEW c \in Blocks
         PROVE  /\ \A l \in Lines(x, 2, c) : ~l.dirty => x.memory[c] = l.fresh
                /\ Below(x, c) = IF c = b THEN line.fresh ELSE Below(hh, c)
    <2>1. CASE c = b
      <3>1. x.memory[c] = hh.memory[c]
        BY <2>1, <1>2, <1>3, <1>5, <1>9
      <3>2. Lines(x, 2, c) = {line}
        BY <2>1, <1>10
      <3>3. Below(x, c) = line.fresh
        BY <3>2, <1>9, BelowIs
      <3> QED BY <2>1, <3>1, <3>2, <3>3, <1>12
    <2>2. CASE c # b /\ FullSet(hh, 2, b) /\ c = v.block
      <3>1. Lines(x, 2, c) = {}
        BY <2>2, <1>10
      <3>2. Below(x, c) = x.memory[c]
        BY <3>1, <1>9, BelowIs
      <3>3. Below(hh, c) = v.fresh
        BY <2>2, <1>2, BelowIs
      <3>4. x.memory[c] = IF v.dirty THEN v.fresh ELSE hh.memory[c]
        BY <2>2, <1>3, <1>5, <1>9
      <3>5. ~v.dirty => hh.memory[c] = v.fresh
        BY <2>2, <1>2, <1>12 DEF BackedUp
      <3> QED BY <2>2, <3>1, <3>2, <3>3, <3>4, <3>5
    <2>3. CASE c # b /\ ~ (FullSet(hh, 2, b) /\ c = v.block)
      <3>1. Lines(x, 2, c) = Lines(hh, 2, c)
        BY <2>3, <1>10
      <3>2. x.memory[c] = hh.memory[c]
        BY <2>3, <1>3, <1>5, <1>9
      <3>3. Below(x, c) = Below(hh, c)
        <4>1. CASE Lines(hh, 2, c) = {}
          BY <4>1, <3>1, <3>2, <1>9, BelowIs
        <4>2. ASSUME NEW l \in Lines(hh, 2, c) PROVE Below(x, c) = Below(hh, c)
          BY <4>2, <3>1, <1>9, BelowIs
        <4> QED BY <4>1, <4>2
      <3>4. \A l \in Lines(hh, 2, c) : ~l.dirty => hh.memory[c] = l.fresh
        BY <1>12 DEF BackedUp
      <3> QED BY <2>3, <3>1, <3>2, <3>3, <3>4
    <2> QED BY <2>1, <2>2, <2>3
  <1> QED BY <1>0, <1>11, <1>12 DEF BackedUp

\* Neither the L1 nor a later read sees the step.
KeepsBelow(hh, x) ==
    /\ BelowL1(hh, x)
    /\ BackedUp(hh) => /\ BackedUp(x)
                       /\ \A c \in Blocks : Below(x, c) = Below(hh, c)

LEMMA LineIs ==
    ASSUME NEW b \in Blocks, NEW d \in BOOLEAN, NEW p \in BOOLEAN, NEW f \in BOOLEAN
    PROVE  /\ Line(b, d, p, f) \in LineSet
           /\ Line(b, d, p, f).block = b
           /\ Line(b, d, p, f).dirty = d
           /\ Line(b, d, p, f).fresh = f
  BY DEF Line, LineSet

LEMMA NoLines ==
    ASSUME NEW hh, Shaped(hh), NEW k \in 1 .. 2, NEW b \in Blocks, ~Resident(hh, k, b)
    PROVE  Lines(hh, k, b) = {}
  BY CopyIs

\* A clean line of what memory has comes into the L2.
LEMMA FetchedInto2 ==
    ASSUME NEW hh, Shaped(hh), NEW b \in Blocks, ~Resident(hh, 2, b), NEW p \in BOOLEAN,
           NEW x, x = Insert2(hh, Line(b, FALSE, p, hh.memory[b]))
    PROVE  KeepsBelow(hh, x)
  <1>1. PICK f \in BOOLEAN : f = hh.memory[b]
    BY BelowIs
  <1>2. PICK line \in LineSet : line = Line(b, FALSE, p, f)
    BY LineIs
  <1>3. line.block = b /\ ~line.dirty /\ line.fresh = f
    BY <1>2 DEF Line
  <1>4. Lines(hh, 2, b) = {}
    BY NoLines
  <1>5. x = Insert2(hh, line)
    BY <1>1, <1>2
  <1>6. /\ BelowL1(hh, x)
        /\ BackedUp(hh) =>
             /\ BackedUp(x)
             /\ \A c \in Blocks : Below(x, c) = IF c = b THEN f ELSE Below(hh, c)
    <2>1. /\ line.dirty => MayDirty(2)
          /\ Lines(hh, 2, line.block) = {}
          /\ ~line.dirty => hh.memory[line.block] = line.fresh
      BY <1>1, <1>3, <1>4
    <2>2. /\ BelowL1(hh, x)
          /\ BackedUp(hh) =>
               /\ BackedUp(x)
               /\ \A c \in Blocks :
                    Below(x, c) = IF c = line.block THEN line.fresh ELSE Below(hh, c)
      BY <2>1, <1>5, Inserted2
    <2> QED BY <2>2, <1>3
  <1>7. Below(hh, b) = f
    BY <1>1, <1>4, BelowIs
  <1> QED BY <1>6, <1>7 DEF KeepsBelow

LEMMA Prefetched ==
    ASSUME NEW hh, Shaped(hh), NEW missed, NEW x \in AfterPrefetch(hh, missed)
    PROVE  KeepsBelow(hh, x)
  <1>1. CASE x = hh
    BY <1>1 DEF KeepsBelow, BelowL1
  <1>2. ASSUME NEW p \in MayPrefetch(hh, missed), x = IssuePrefetch(hh, p)
        PROVE  KeepsBelow(hh, x)
    <2>1. p \in Blocks /\ ~Resident(hh, 2, p)
      BY <1>2 DEF MayPrefetch
    <2>2. x = Insert2(hh, Line(p, FALSE, TRUE, hh.memory[p]))
      BY <1>2, <2>1 DEF IssuePrefetch
    <2> QED BY <2>1, <2>2, FetchedInto2
  <1> QED BY <1>1, <1>2 DEF AfterPrefetch

\* A hit in the L2 leaves a line of the same block; what it answers from then
\* on is that line's.
LEMMA Promoted2 ==
    ASSUME NEW hh, Shaped(hh), NEW b \in Blocks, Resident(hh, 2, b),
           NEW line \in LineSet, line.block = b, line.dirty => MayDirty(2),
           NEW x, x = Promote(hh, 2, b, line)
    PROVE  /\ BelowL1(hh, x)
           /\ BackedUp(hh) /\ (~line.dirty => hh.memory[b] = line.fresh) =>
                /\ BackedUp(x)
                /\ \A c \in Blocks :
                     Below(x, c) = IF c = b THEN line.fresh ELSE Below(hh, c)
  <1>1. /\ Shaped(x) /\ x.memory = hh.memory
        /\ \A j \in 1 .. 2, c \in Blocks : j # 2 => SetOf(x, j, c) = SetOf(hh, j, c)
        /\ \A j \in 1 .. 2, c \in Blocks :
             Lines(x, j, c) = IF j = 2 /\ c = b THEN {line} ELSE Lines(hh, j, c)
    BY Promoted
  <1>2. \A c \in Blocks : Lines(x, 2, c) = IF c = b THEN {line} ELSE Lines(hh, 2, c)
    BY <1>1
  <1>3. BelowL1(hh, x)
    BY <1>1 DEF BelowL1
  <1>4. ASSUME NEW c \in Blocks
        PROVE  Below(x, c) = IF c = b THEN line.fresh ELSE Below(hh, c)
    <2>1. CASE c = b
      BY <2>1, <1>1, <1>2, BelowIs
    <2>2. CASE c # b /\ Lines(hh, 2, c) = {}
      BY <2>2, <1>1, <1>2, BelowIs
    <2>3. ASSUME c # b, NEW l \in Lines(hh, 2, c)
          PROVE  Below(x, c) = Below(hh, c)
      BY <2>3, <1>1, <1>2, BelowIs
    <2> QED BY <2>1, <2>2, <2>3
  <1>5. ASSUME BackedUp(hh), ~line.dirty => hh.memory[b] = line.fresh
        PROVE  BackedUp(x)
    BY <1>5, <1>1, <1>2 DEF BackedUp
  <1> QED BY <1>3, <1>4, <1>5

LEMMA Read2Step ==
    ASSUME NEW hh, Shaped(hh), NEW b \in Blocks, NEW x \in Read2(hh, b)
    PROVE  KeepsBelow(hh, x)
  <1>1. CASE Resident(hh, 2, b)
    <2>1. PICK l : l = CopyOf(hh, 2, b)
      OBVIOUS
    <2>2. /\ l \in LineSet /\ l.block = b /\ (l.dirty => MayDirty(2))
          /\ Lines(hh, 2, b) = {l}
      BY <1>1, <2>1, CopyIs
    <2>3. PICK line : line = [l EXCEPT !.prefetched = FALSE]
      OBVIOUS
    <2>4. /\ line \in LineSet /\ line.block = l.block
          /\ line.dirty = l.dirty /\ line.fresh = l.fresh
      BY <2>2, <2>3 DEF LineSet
    <2>5. x = Promote(hh, 2, b, line)
      BY <1>1, <2>1, <2>3 DEF Read2
    <2>6. l.dirty \in BOOLEAN
      BY <2>2 DEF LineSet
    <2>7. BackedUp(hh) => (~l.dirty => hh.memory[b] = l.fresh)
      BY <2>2 DEF BackedUp
    <2>8. Below(hh, b) = l.fresh
      BY <2>2, BelowIs
    <2>9. line.dirty => MayDirty(2)
      BY <2>2, <2>4
    <2>10. /\ BelowL1(hh, x)
           /\ BackedUp(hh) /\ (~line.dirty => hh.memory[b] = line.fresh) =>
                /\ BackedUp(x)
                /\ \A c \in Blocks :
                     Below(x, c) = IF c = b THEN line.fresh ELSE Below(hh, c)
      BY <1>1, <2>2, <2>4, <2>5, <2>9, Promoted2
    <2> QED BY <2>4, <2>7, <2>8, <2>10 DEF KeepsBelow
  <1>2. CASE ~Resident(hh, 2, b)
    <2>1. PICK y : y = Insert2(hh, Line(b, FALSE, FALSE, hh.memory[b]))
      OBVIOUS
    <2>2. KeepsBelow(hh, y)
      BY <1>2, <2>1, FetchedInto2
    <2>3. x \in AfterPrefetch(y, b)
      BY <1>2, <2>1 DEF Read2
    <2>4. KeepsBelow(y, x)
      BY <2>2, <2>3, Prefetched DEF KeepsBelow, BelowL1
    <2> QED BY <2>2, <2>4 DEF KeepsBelow, BelowL1
  <1> QED BY <1>1, <1>2

\* A write-back from the L1 is what the L2 answers with from then on, if the
\* L2 is a write-back cache too.
LEMMA Write2Step ==
    ASSUME NEW hh, Shaped(hh), NEW b \in Blocks, NEW fresh \in BOOLEAN,
           NEW x \in Write2(hh, b, fresh)
    PROVE  /\ BelowL1(hh, x)
           /\ MayDirty(2) /\ BackedUp(hh) =>
                /\ BackedUp(x)
                /\ \A c \in Blocks : Below(x, c) = IF c = b THEN fresh ELSE Below(hh, c)
  <1>1. PICK new \in LineSet : new = Line(b, TRUE, FALSE, fresh)
    BY LineIs
  <1>2. new.block = b /\ new.dirty /\ new.fresh = fresh
    BY <1>1, LineIs
  <1>3. CASE Resident(hh, 2, b) /\ MayDirty(2)
    <2>1. x = Promote(hh, 2, b, new)
      BY <1>1, <1>3 DEF Write2, MayDirty
    <2> QED BY <2>1, <1>2, <1>3, Promoted2
  <1>4. CASE Resident(hh, 2, b) /\ ~MayDirty(2)
    <2>1. PICK l : l = CopyOf(hh, 2, b)
      OBVIOUS
    <2>2. /\ l \in LineSet /\ l.block = b /\ (l.dirty => MayDirty(2))
      BY <1>4, <2>1, CopyIs
    <2>3. PICK line : line = [l EXCEPT !.fresh = fresh]
      OBVIOUS
    <2>4. line \in LineSet /\ line.block = l.block /\ line.dirty = l.dirty
      BY <2>2, <2>3 DEF LineSet
    <2>5. x = Promote(hh, 2, b, line)
      BY <1>4, <2>1, <2>3 DEF Write2, MayDirty
    <2>6. BelowL1(hh, x)
      BY <1>4, <2>2, <2>4, <2>5, Promoted2
    <2> QED BY <2>6, <1>4
  <1>5. CASE ~Resident(hh, 2, b) /\ MayDirty(2)
    <2>1. PICK y : y = Insert2(hh, new)
      OBVIOUS
    <2>2. Lines(hh, 2, b) = {}
      BY <1>5, NoLines
    <2>3. /\ BelowL1(hh, y)
          /\ BackedUp(hh) =>
               /\ BackedUp(y)
               /\ \A c \in Blocks : Below(y, c) = IF c = b THEN fresh ELSE Below(hh, c)
      BY <2>1, <2>2, <1>2, <1>5, Inserted2
    <2>4. x \in AfterPrefetch(y, b)
      BY <2>1, <1>1, <1>5 DEF Write2, MayDirty
    <2>5. KeepsBelow(y, x)
      BY <2>3, <2>4, Prefetched DEF BelowL1
    <2> QED BY <2>3, <2>5 DEF KeepsBelow, BelowL1
  <1>6. CASE ~Resident(hh, 2, b) /\ ~MayDirty(2)
    <2>1. x = hh
      BY <1>6 DEF Write2, MayDirty
    <2> QED BY <2>1, <1>6 DEF BelowL1
  <1> QED BY <1>3, <1>4, <1>5, <1>6

-----------------------------------------------------------------------------
(* The L1, and the whole access.                                           *)

\* A line of the L1 is the latest value, and if clean, so is what lies below
\* it, as it is of every block that has no line there.
NoStoreLost(hh) ==
    /\ BackedUp(hh)
    /\ \A c \in Blocks :
        /\ \A l \in Lines(hh, 1, c) : l.fresh /\ (~l.dirty => Below(hh, c))
        /\ Lines(hh, 1, c) = {} => Below(hh, c)

LEMMA SameLines1 ==
    ASSUME NEW hh, NEW x, BelowL1(hh, x)
    PROVE  \A c \in Blocks : Lines(x, 1, c) = Lines(hh, 1, c)
  BY DEF BelowL1, Lines

\* A line that comes into the L1: the victim is written back before it leaves
\* unless the levels below have what it holds.
LEMMA Inserted1 ==
    ASSUME NEW hh, Shaped(hh), NEW line \in LineSet, Lines(hh, 1, line.block) = {},
           NEW x \in Insert1(hh, line)
    PROVE  /\ Shaped(x) /\ Lines(x, 1, line.block) = {line}
           /\ MayDirty(2) /\ NoStoreLost(hh) /\ line.fresh => NoStoreLost(x)
  <1>0. PICK b \in Blocks : b = line.block
    BY DEF LineSet
  <1>1. PICK v : v = Victim(hh, 1, b)
    OBVIOUS
  <1>2. MayDirty(1)
    BY HierarchyAssumption DEF MayDirty
  <1>3. FullSet(hh, 1, b) => /\ v \in LineSet /\ v.block \in Blocks /\ v.fresh \in BOOLEAN
                             /\ Lines(hh, 1, v.block) = {v}
                             /\ v.block # b
    BY <1>0, <1>1, VictimIs DEF LineSet
  <1>4. WritesBack(hh, 1, b) <=> FullSet(hh, 1, b) /\ v.dirty
    BY <1>1, <1>2 DEF WritesBack, FullSet, Victim, MayDirty
  <1>5. PICK y \in IF WritesBack(hh, 1, b) THEN Write2(hh, v.block, v.fresh) ELSE {hh} :
            x = Place(y, 1, line)
    BY <1>0, <1>1 DEF Insert1, Victim
  <1>6. /\ BelowL1(hh, y)
        /\ MayDirty(2) /\ BackedUp(hh) =>
             /\ BackedUp(y)
             /\ \A c \in Blocks : Below(y, c) = IF WritesBack(hh, 1, b) /\ c = v.block
                                               THEN v.fresh ELSE Below(hh, c)
    <2>1. CASE WritesBack(hh, 1, b)
      <3>1. y \in Write2(hh, v.block, v.fresh)
        BY <2>1, <1>5
      <3>2. v.block \in Blocks /\ v.fresh \in BOOLEAN
        BY <2>1, <1>3, <1>4
      <3>3. /\ BelowL1(hh, y)
            /\ MayDirty(2) /\ BackedUp(hh) =>
                 /\ BackedUp(y)
                 /\ \A c \in Blocks : Below(y, c) = IF c = v.block THEN v.fresh ELSE Below(hh, c)
        BY <3>1, <3>2, Write2Step
      <3> QED BY <2>1, <3>3
    <2>2. CASE ~WritesBack(hh, 1, b)
      <3>1. y = hh
        BY <2>2, <1>5
      <3> QED BY <2>2, <3>1 DEF BelowL1
    <2> QED BY <2>1, <2>2
  <1>7. \A c \in Blocks : Lines(y, 1, c) = Lines(hh, 1, c)
    BY <1>6, SameLines1
  <1>8. /\ FullSet(y, 1, b) <=> FullSet(hh, 1, b)
        /\ Victim(y, 1, b) = v
    BY <1>1, <1>6 DEF FullSet, Victim, BelowL1
  <1>9. /\ Shaped(x) /\ x.memory = y.memory
        /\ \A j \in 1 .. 2, c \in Blocks : j # 1 => SetOf(x, j, c) = SetOf(y, j, c)
        /\ \A j \in 1 .. 2, c \in Blocks :
             Lines(x, j, c) = IF j = 1 /\ c = b THEN {line}
                              ELSE IF j = 1 /\ FullSet(y, 1, b)
                                            /\ c = Victim(y, 1, b).block THEN {}
                              ELSE Lines(y, j, c)
    <2>1. Shaped(y) /\ Lines(y, 1, line.block) = {}
      BY <1>0, <1>6, <1>7 DEF BelowL1
    <2>2. line.dirty => MayDirty(1)
      BY <1>2
    <2> QED BY <2>1, <2>2, <1>0, <1>5, Placed
  <1>10. \A c \in Blocks :
            Lines(x, 1, c) = IF c = b THEN {line}
                             ELSE IF FullSet(hh, 1, b) /\ c = v.block THEN {}
                             ELSE Lines(hh, 1, c)
    BY <1>7, <1>8, <1>9
  <1>11. \A c \in Blocks : SetOf(x, 2, c) = SetOf(y, 2, c)
    BY <1>9
  <1>12. \A c \in Blocks : Below(x, c) = Below(y, c) /\ Lines(x, 2, c) = Lines(y, 2, c)
    BY <1>9, <1>11 DEF Below, Resident, CopyOf, PlacesOf, Lines
  <1>13. ASSUME MayDirty(2), NoStoreLost(hh), line.fresh
         PROVE  NoStoreLost(x)
    <2>1. BackedUp(y) /\ \A c \in Blocks :
             Below(y, c) = IF WritesBack(hh, 1, b) /\ c = v.block THEN v.fresh ELSE Below(hh, c)
      BY <1>6, <1>13 DEF NoStoreLost
    <2>2. BackedUp(x)
      BY <2>1, <1>9, <1>12 DEF BackedUp
    <2>3. ASSUME NEW c \in Blocks
          PROVE  /\ \A l \in Lines(x, 1, c) : l.fresh /\ (~l.dirty => Below(x, c))
                 /\ Lines(x, 1, c) = {} => Below(x, c)
      <3>1. CASE c = b
        <4>1. Lines(x, 1, c) = {line} /\ Lines(hh, 1, c) = {}
          BY <3>1, <1>0, <1>10
        <4>2. Below(hh, c)
          BY <4>1, <1>13 DEF NoStoreLost
        <4>3. Below(x, c) = Below(hh, c)
          BY <3>1, <2>1, <1>3, <1>4, <1>12
        <4> QED BY <4>1, <4>2, <4>3, <1>13
      <3>2. CASE c # b /\ FullSet(hh, 1, b) /\ c = v.block
        <4>1. Lines(x, 1, c) = {}
          BY <3>2, <1>10
        <4>2. v \in Lines(hh, 1, c)
          BY <3>2, <1>3
        <4>3. v.fresh /\ (~v.dirty => Below(hh, c))
          BY <4>2, <1>13 DEF NoStoreLost
        <4>4. Below(x, c) = IF v.dirty THEN v.fresh ELSE Below(hh, c)
          BY <3>2, <2>1, <1>4, <1>12
        <4> QED BY <4>1, <4>3, <4>4
      <3>3. CASE c # b /\ ~ (FullSet(hh, 1, b) /\ c = v.block)
        <4>1. Lines(x, 1, c) = Lines(hh, 1, c)
          BY <3>3, <1>10
        <4>2. Below(x, c) = Below(hh, c)
          BY <3>3, <2>1, <1>4, <1>12
        <4> QED BY <4>1, <4>2, <1>13 DEF NoStoreLost
      <3> QED BY <3>1, <3>2, <3>3
    <2> QED BY <2>2, <2>3 DEF NoStoreLost
  <1>14. Lines(x, 1, line.block) = {line}
    BY <1>0, <1>10
  <1> QED BY <1>9, <1>13, <1>14

\* A store makes every copy stale but the one it left in the L1.
LEMMA Overwritten ==
    ASSUME NEW hh, Shaped(hh), NEW b \in Blocks, NEW x, x = Overwrite(hh, b),
           NEW own, Lines(hh, 1, b) = {own}
    PROVE  /\ Shaped(x)
           /\ NoStoreLost(hh) /\ own.dirty => NoStoreLost(x)
  <1>0. PICK f \in BOOLEAN : f = FALSE
    OBVIOUS
  <1>1. PICK y : y = WithMemory(hh, b, f)
    OBVIOUS
  <1>2. /\ Shaped(y)
        /\ \A j \in 1 .. 2, c \in Blocks : SetOf(y, j, c) = SetOf(hh, j, c)
        /\ \A c \in Blocks : y.memory[c] = IF c = b THEN f ELSE hh.memory[c]
    BY <1>1, MemoryWritten
  <1>3. PICK s : s = SetOf(hh, 2, b)
    OBVIOUS
  <1>4. PICK i : i = IndexOf(2, b)
    OBVIOUS
  <1>5. RowOK(2, i, s) /\ s \in Seq(LineSet)
    BY <1>3, <1>4, SetShaped DEF RowOK
  <1>6. PICK r : r = [n \in DOMAIN s |->
                        IF s[n].block = b THEN [s[n] EXCEPT !.fresh = FALSE] ELSE s[n]]
    OBVIOUS
  <1>7. x = WithSet(y, 2, b, r)
    BY <1>0, <1>1, <1>3, <1>6 DEF Overwrite, WithMemory
  <1>8. DOMAIN s = 1 .. Len(s) /\ \A n \in 1 .. Len(s) : s[n] \in LineSet
    BY <1>5
  <1>9. ASSUME NEW n \in 1 .. Len(s)
        PROVE  /\ r[n] \in LineSet
               /\ r[n].block = s[n].block /\ r[n].dirty = s[n].dirty
               /\ s[n].block = b => ~r[n].fresh
               /\ s[n].block # b => r[n] = s[n]
    <2>1. CASE s[n].block = b
      <3>1. r[n] = [s[n] EXCEPT !.fresh = FALSE]
        BY <2>1, <1>6, <1>8
      <3> QED BY <2>1, <3>1, <1>8 DEF LineSet
    <2>2. CASE s[n].block # b
      <3>1. r[n] = s[n]
        BY <2>2, <1>6, <1>8
      <3> QED BY <2>2, <3>1, <1>8
    <2> QED BY <2>1, <2>2
  <1>10. r \in Seq(LineSet) /\ Len(r) = Len(s)
    <2>1. PICK len \in Nat : len = Len(s)
      BY <1>5
    <2>2. r \in [1 .. len -> LineSet]
      BY <2>1, <1>6, <1>8, <1>9
    <2> QED BY <2>1, <2>2
  <1>11. RowOK(2, i, r)
    BY <1>5, <1>9, <1>10 DEF RowOK
  <1>12. /\ \A l \in LinesIn(r, b) : ~l.fresh
         /\ \A c : c # b => LinesIn(r, c) = LinesIn(s, c)
    <2>1. \A l \in LinesIn(r, b) : ~l.fresh
      BY <1>9, <1>10 DEF LinesIn
    <2>2. ASSUME NEW c, c # b
          PROVE  LinesIn(r, c) = LinesIn(s, c)
      <3>1. \A l : l.block = c => ((\E n \in 1 .. Len(s) : l = r[n])
                                      <=> (\E n \in 1 .. Len(s) : l = s[n]))
        BY <2>2, <1>9
      <3> QED BY <3>1, <1>10 DEF LinesIn
    <2> QED BY <2>1, <2>2
  <1>13. /\ Shaped(x) /\ x.memory = y.memory
         /\ \A j \in 1 .. 2, c \in Blocks :
              SetOf(x, j, c) = IF j = 2 /\ IndexOf(2, c) = i THEN r ELSE SetOf(y, j, c)
    BY <1>2, <1>4, <1>7, <1>11, SetReplaced
  <1>14. \A c \in Blocks : Lines(x, 1, c) = Lines(hh, 1, c)
    BY <1>2, <1>13 DEF Lines
  <1>15. ASSUME NEW c \in Blocks
         PROVE  /\ c = b => \A l \in Lines(x, 2, c) : ~l.fresh
                /\ c # b => Lines(x, 2, c) = Lines(hh, 2, c)
    <2>1. CASE IndexOf(2, c) = i
      <3>1. SetOf(hh, 2, c) = s
        BY <2>1, <1>3, <1>4 DEF SetOf
      <3>2. Lines(x, 2, c) = LinesIn(r, c) /\ Lines(hh, 2, c) = LinesIn(s, c)
        BY <2>1, <3>1, <1>13 DEF Lines
      <3> QED BY <3>2, <1>12
    <2>2. CASE IndexOf(2, c) # i
      <3>1. Lines(x, 2, c) = Lines(hh, 2, c)
        BY <2>2, <1>2, <1>13 DEF Lines
      <3> QED BY <2>2, <3>1, <1>4
    <2> QED BY <2>1, <2>2
  <1>16. ASSUME NoStoreLost(hh), own.dirty
         PROVE  NoStoreLost(x)
    <2>1. ASSUME NEW c \in Blocks
          PROVE  /\ \A l \in Lines(x, 2, c) : ~l.dirty => x.memory[c] = l.fresh
                 /\ \A l \in Lines(x, 1, c) : l.fresh /\ (~l.dirty => Below(x, c))
                 /\ Lines(x, 1, c) = {} => Below(x, c)
      <3>1. CASE c = b
        <4>1. x.memory[c] = FALSE
          BY <3>1, <1>0, <1>2, <1>13
        <4>2. \A l \in Lines(x, 2, c) : l.fresh = FALSE
          <5>1. \A l \in Lines(x, 2, c) : l \in LineSet
            BY DEF Lines, LinesIn
          <5> QED BY <3>1, <5>1, <1>15 DEF LineSet
        <4>3. Lines(x, 1, c) = {own} /\ own.fresh
          BY <3>1, <1>14, <1>16 DEF NoStoreLost
        <4> QED BY <4>1, <4>2, <4>3, <1>16
      <3>2. CASE c # b
        <4>1. x.memory[c] = hh.memory[c]
          BY <3>2, <1>2, <1>13
        <4>2. Lines(x, 2, c) = Lines(hh, 2, c) /\ Lines(x, 1, c) = Lines(hh, 1, c)
          BY <3>2, <1>14, <1>15
        <4>3. Below(x, c) = Below(hh, c)
          <5>1. CASE Lines(hh, 2, c) = {}
            BY <5>1, <4>1, <4>2, <1>13, BelowIs
          <5>2. ASSUME NEW l \in Lines(hh, 2, c) PROVE Below(x, c) = Below(hh, c)
            BY <5>2, <4>2, <1>13, BelowIs
          <5> QED BY <5>1, <5>2
        <4> QED BY <4>1, <4>2, <4>3, <1>16 DEF NoStoreLost, BackedUp
      <3> QED BY <3>1, <3>2
    <2> QED BY <2>1 DEF NoStoreLost, BackedUp
  <1> QED BY <1>13, <1>16

\* Whatever an access evicts, writes back and prefetches.
LEMMA AccessStep ==
    ASSUME NEW hh, Shaped(hh), NEW b \in Blocks, NEW op \in {"Read", "Write"},
           NEW x \in Access(hh, b, op)
    PROVE  /\ Shaped(x)
           /\ MayDirty(2) /\ NoStoreLost(hh) => NoStoreLost(x)
  <1>1. PICK w \in BOOLEAN : w = (op = "Write")
    OBVIOUS
  <1>2. PICK y : /\ y \in IF Resident(hh, 1, b)
                          THEN {Promote(hh, 1, b, Touched(CopyOf(hh, 1, b), op = "Write"))}
                          ELSE UNION {Insert1(z, Line(b, op = "Write", FALSE,
                                                      Below(hh, b) \/ op = "Write")) :
                                        z \in Read2(hh, b)}
                 /\ x = IF op = "Write" THEN Overwrite(y, b) ELSE y
    <2>1. CASE op = "Write"
      BY <2>1, Zenon DEF Access
    <2>2. CASE op # "Write"
      BY <2>2, Zenon DEF Access
    <2> QED BY <2>1, <2>2
  <1>3. /\ Shaped(y)
        /\ MayDirty(2) /\ NoStoreLost(hh) => NoStoreLost(y)
        /\ \E own : Lines(y, 1, b) = {own} /\ (w => own.dirty)
    <2>1. CASE Resident(hh, 1, b)
      <3>1. PICK l : l = CopyOf(hh, 1, b)
        OBVIOUS
      <3>2. l \in LineSet /\ l.block = b /\ Lines(hh, 1, b) = {l}
        BY <2>1, <3>1, CopyIs
      <3>3. l.dirty \in BOOLEAN /\ l.fresh \in BOOLEAN
        BY <3>2 DEF LineSet
      <3>4. PICK d \in BOOLEAN : d = (l.dirty \/ op = "Write")
        BY <3>3
      <3>5. PICK f \in BOOLEAN : f = (l.fresh \/ op = "Write")
        BY <3>3
      <3>6. PICK line \in LineSet : line = Line(b, d, FALSE, f)
        BY LineIs
      <3>7. line.block = b /\ line.dirty = d /\ line.fresh = f
        BY <3>6 DEF Line
      <3>8. y = Promote(hh, 1, b, line)
        BY <2>1, <3>1, <3>2, <3>4, <3>5, <3>6, <1>2 DEF Touched
      <3>9. line.dirty => MayDirty(1)
        BY HierarchyAssumption DEF MayDirty
      <3>10. /\ Shaped(y) /\ y.memory = hh.memory
             /\ \A j \in 1 .. 2, c \in Blocks : j # 1 => SetOf(y, j, c) = SetOf(hh, j, c)
             /\ \A j \in 1 .. 2, c \in Blocks :
                  Lines(y, j, c) = IF j = 1 /\ c = b THEN {line} ELSE Lines(hh, j, c)
        BY <2>1, <3>7, <3>8, <3>9, Promoted
      <3>11. \A c \in Blocks : Lines(y, 1, c) = IF c = b THEN {line} ELSE Lines(hh, 1, c)
        BY <3>10
      <3>12. \A c \in Blocks : SetOf(y, 2, c) = SetOf(hh, 2, c)
        BY <3>10
      <3>13. \A c \in Blocks : Below(y, c) = Below(hh, c) /\ Lines(y, 2, c) = Lines(hh, 2, c)
        BY <3>10, <3>12 DEF Below, Resident, CopyOf, PlacesOf, Lines
      <3>14. ASSUME NoStoreLost(hh) PROVE NoStoreLost(y)
        <4>1. BackedUp(y)
          BY <3>10, <3>13, <3>14 DEF BackedUp, NoStoreLost
        <4>2. l.fresh /\ (~l.dirty => Below(hh, b))
          BY <3>2, <3>14 DEF NoStoreLost
        <4>3. f /\ (~d => Below(hh, b))
          BY <4>2, <3>4, <3>5, <1>1
        <4>4. ASSUME NEW c \in Blocks
              PROVE  /\ \A m \in Lines(y, 1, c) : m.fresh /\ (~m.dirty => Below(y, c))
                     /\ Lines(y, 1, c) = {} => Below(y, c)
          <5>1. CASE c = b
            <6>1. Lines(y, 1, c) = {line} /\ Below(y, c) = Below(hh, b)
              BY <5>1, <3>11, <3>13
            <6> QED BY <6>1, <4>3, <3>7
          <5>2. CASE c # b
            <6>1. Lines(y, 1, c) = Lines(hh, 1, c) /\ Below(y, c) = Below(hh, c)
              BY <5>2, <3>11, <3>13
            <6> QED BY <6>1, <3>14 DEF NoStoreLost
          <5> QED BY <5>1, <5>2
        <4> QED BY <4>1, <4>4 DEF NoStoreLost
      <3>15. Lines(y, 1, b) = {line} /\ (w => line.dirty)
        BY <3>4, <3>7, <3>11, <1>1
      <3> QED BY <3>10, <3>14, <3>15
    <2>2. CASE ~Resident(hh, 1, b)
      <3>1. PICK z \in Read2(hh, b) :
               y \in Insert1(z, Line(b, op = "Write", FALSE, Below(hh, b) \/ op = "Write"))
        BY <2>2, <1>2
      <3>2. KeepsBelow(hh, z)
        BY <3>1, Read2Step
      <3>3. Shaped(z) /\ \A c \in Blocks : Lines(z, 1, c) = Lines(hh, 1, c)
        BY <3>2, SameLines1 DEF KeepsBelow, BelowL1
      <3>4. PICK f \in BOOLEAN : f = (Below(hh, b) \/ op = "Write")
        BY BelowIs
      <3>5. PICK line \in LineSet : line = Line(b, w, FALSE, f)
        BY LineIs
      <3>6. line.block = b /\ line.dirty = w /\ line.fresh = f
        BY <3>5 DEF Line
      <3>7. Lines(hh, 1, b) = {} /\ Lines(z, 1, b) = {}
        BY <2>2, <3>3, NoLines
      <3>8. y \in Insert1(z, line)
        BY <3>1, <3>4, <3>5, <1>1
      <3>9. /\ Shaped(y) /\ Lines(y, 1, b) = {line}
            /\ MayDirty(2) /\ NoStoreLost(z) /\ line.fresh => NoStoreLost(y)
        BY <3>3, <3>6, <3>7, <3>8, Inserted1
      <3>10. ASSUME NoStoreLost(hh) PROVE NoStoreLost(z) /\ line.fresh
        <4>1. BackedUp(z) /\ \A c \in Blocks : Below(z, c) = Below(hh, c)
          BY <3>2, <3>10 DEF KeepsBelow, NoStoreLost
        <4>2. NoStoreLost(z)
          BY <4>1, <3>3, <3>10 DEF NoStoreLost
        <4>3. Below(hh, b)
          BY <3>7, <3>10 DEF NoStoreLost
        <4> QED BY <4>2, <4>3, <3>4, <3>6, <1>1
      <3> QED BY <3>6, <3>9, <3>10
    <2> QED BY <2>1, <2>2
  <1>4. CASE op # "Write"
    <2>1. x = y
      BY <1>2, <1>4
    <2> QED BY <2>1, <1>3
  <1>5. CASE op = "Write"
    <2>0. w
      BY <1>1, <1>5
    <2>1. PICK own : Lines(y, 1, b) = {own} /\ own.dirty
      BY <1>3, <2>0
    <2>2. x = Overwrite(y, b)
      BY <1>2, <1>5
    <2> QED BY <1>3, <2>1, <2>2, Overwritten
  <1> QED BY <1>4, <1>5

-----------------------------------------------------------------------------
(* The theorems.                                                           *)

\* The contents are well formed and, over a write-back L2, lose no store.
ContentsInv == Shaped(h) /\ (MayDirty(2) => NoStoreLost(h))

LEMMA InitContents == Init => ContentsInv
  <1> SUFFICES ASSUME Init PROVE ContentsInv
    OBVIOUS
  <1>1. PICK rs : rs = <<EmptyRows(1), EmptyRows(2)>>
    OBVIOUS
  <1>2. PICK m : m = [b \in Blocks |-> TRUE]
    OBVIOUS
  <1>3. h = [rows |-> rs, memory |-> m]
    BY <1>1, <1>2 DEF Init
  <1>4. \A k \in 1 .. 2 : EmptyRows(k) \in RowSet(k)
    <2>1. ASSUME NEW k \in 1 .. 2
          PROVE  EmptyRows(k) \in RowSet(k)
      BY DEF EmptyRows, RowSet
    <2> QED BY <2>1
  <1>5. \A k \in 1 .. 2 : rs[k] = EmptyRows(k)
    BY <1>1
  <1>6. rs \in [1 .. 2 -> RowSet(1) \cup RowSet(2)]
    BY <1>1, <1>4
  <1>7. m \in [Blocks -> BOOLEAN] /\ \A b \in Blocks : m[b]
    BY <1>2
  <1>8. \A k \in 1 .. 2 : \A i \in 0 .. (Level[k].sets - 1) : rs[k][i] = <<>>
    BY <1>5 DEF EmptyRows
  <1>9. \A k \in 1 .. 2 : \A i : RowOK(k, i, <<>>)
    BY HierarchyAssumption DEF RowOK
  <1>10. Shaped(h)
    <2>1. h \in [rows : [1 .. 2 -> RowSet(1) \cup RowSet(2)], memory : [Blocks -> BOOLEAN]]
      BY <1>3, <1>6, <1>7
    <2> QED BY <2>1, <1>3, <1>4, <1>5, <1>8, <1>9 DEF Shaped
  <1>11. \A k \in 1 .. 2, b \in Blocks : Lines(h, k, b) = {}
    <2>1. ASSUME NEW k \in 1 .. 2, NEW b \in Blocks
          PROVE  Lines(h, k, b) = {}
      <3>1. SetOf(h, k, b) = <<>>
        BY <1>3, <1>8, IndexIn DEF SetOf
      <3> QED BY <3>1 DEF Lines, LinesIn
    <2> QED BY <2>1
  <1>12. \A b \in Blocks : Below(h, b)
    BY <1>3, <1>7, <1>10, <1>11, BelowIs
  <1>13. NoStoreLost(h)
    BY <1>11, <1>12 DEF NoStoreLost, BackedUp
  <1> QED BY <1>10, <1>13 DEF ContentsInv

LEMMA NextContents ==
    ASSUME ContentsInv, [Next]_vars
    PROVE  ContentsInv'
  <1>1. CASE UNCHANGED h
    <2>1. Shaped(h)' <=> Shaped(h)
      BY <1>1 DEF Shaped
    <2>2. NoStoreLost(h)' <=> NoStoreLost(h)
      BY <1>1 DEF NoStoreLost, BackedUp
    <2> QED BY <2>1, <2>2 DEF ContentsInv, MayDirty
  <1>2. ASSUME NEW b \in Blocks, NEW op \in {"Read", "Write"}, Issue(b, op)
        PROVE  ContentsInv'
    <2>1. PICK x \in Access(h, b, op) : h' = x
      BY <1>2 DEF Issue
    <2>2. Shaped(h) /\ (MayDirty(2) => NoStoreLost(h))
      BY DEF ContentsInv
    <2>3. Shaped(x) /\ (MayDirty(2) => NoStoreLost(x))
      BY <2>1, <2>2, AccessStep
    <2> QED BY <2>1, <2>3 DEF ContentsInv, MayDirty
  <1>3. CASE Tick
    BY <1>1, <1>3 DEF Tick
  <1>4. ASSUME NEW id \in Ids, Complete(id)
        PROVE  ContentsInv'
    BY <1>1, <1>4 DEF Complete
  <1>5. ASSUME NEW b \in Blocks, NEW op \in {"Read", "Write"}, Join(b, op)
        PROVE  ContentsInv'
    BY <1>1, <1>5 DEF Join
  <1>6. ASSUME NEW b \in Blocks, NEW op \in {"Read", "Write"}, Refuse(b, op)
        PROVE  ContentsInv'
    BY <1>1, <1>6 DEF Refuse, vars
  <1> QED BY <1>1, <1>2, <1>3, <1>4, <1>5, <1>6 DEF Next, vars

LEMMA ContentsAlways == Spec => [](ContentsInv /\ IInv)
  <1>1. ContentsInv /\ IInv /\ [Next]_vars => (ContentsInv /\ IInv)'
    BY NextContents, NextStep
  <1> QED BY InitContents, InitIInv, <1>1, PTL DEF Spec

\* For any geometry and whatever a demand fill, a write-back or a prefetch
\* brings: no set holds more lines than its ways, a block twice or a block of
\* another index (insert_new_block has no check for any of it).
THEOREM CacheTypeCorrect == Spec => []TypeOK
  <1>1. ContentsInv /\ IInv => TypeOK
    <2> SUFFICES ASSUME ContentsInv, IInv PROVE TypeOK
      OBVIOUS
    <2>1. ASSUME NEW k \in 1 .. 2, NEW i \in DOMAIN h.rows[k]
          PROVE  LET lines == h.rows[k][i]
                 IN  /\ Len(lines) <= Level[k].ways
                     /\ \A n \in DOMAIN lines :
                         /\ lines[n].block \in Blocks
                         /\ IndexOf(k, lines[n].block) = i
                         /\ lines[n].dirty => Level[k].policy = "WBWA"
                         /\ \A m \in DOMAIN lines :
                             lines[n].block = lines[m].block => n = m
      <3>1. PICK s : s = h.rows[k][i]
        OBVIOUS
      <3>2. i \in 0 .. (Level[k].sets - 1)
        BY DEF ContentsInv, Shaped, RowSet
      <3>3. RowOK(k, i, s)
        BY <3>1, <3>2 DEF ContentsInv, Shaped
      <3>4. DOMAIN s = 1 .. Len(s) /\ \A n \in 1 .. Len(s) : s[n] \in LineSet
        BY <3>3 DEF RowOK
      <3> QED BY <3>1, <3>3, <3>4 DEF RowOK, LineSet, MayDirty
    <2>2. h.memory \in [Blocks -> BOOLEAN]
      BY DEF ContentsInv, Shaped
    <2>3. pending \in [Ids -> Blocks \cup {None}]
      BY DEF IInv, TableOK
    <2>4. \A r \in AllRows : \E k \in 1 .. 2 : \E i \in DOMAIN h.rows[k] : r[1] = k /\ r[2] = i
      BY DEF AllRows
    <2> QED BY <2>1, <2>2, <2>3, <2>4 DEF TypeOK
  <1> QED BY ContentsAlways, <1>1, PTL

\* Through any evictions, write-backs and prefetches over a write-back L2, a
\* read finds what the last store to the block wrote (Cache::access and
\* insert_new_block of both levels).
THEOREM CacheLatestReachable ==
    Level[2].policy = "WBWA" => (Spec => []LatestReachable)
  <1> SUFFICES ASSUME Level[2].policy = "WBWA" PROVE Spec => []LatestReachable
    OBVIOUS
  <1>1. ContentsInv => LatestReachable
    <2> SUFFICES ASSUME ContentsInv, NEW b \in Blocks PROVE FirstCopyFresh(b)
      BY DEF LatestReachable
    <2>1. Shaped(h) /\ NoStoreLost(h)
      BY DEF ContentsInv, MayDirty
    <2>2. CASE Resident(h, 1, b)
      <3>1. CopyOf(h, 1, b) \in Lines(h, 1, b)
        BY <2>1, <2>2, CopyIs
      <3> QED BY <2>1, <2>2, <3>1 DEF NoStoreLost, FirstCopyFresh
    <2>3. CASE ~Resident(h, 1, b)
      <3>1. Lines(h, 1, b) = {}
        BY <2>1, <2>3, NoLines
      <3> QED BY <2>1, <2>3, <3>1 DEF NoStoreLost, FirstCopyFresh
    <2> QED BY <2>2, <2>3
  <1> QED BY ContentsAlways, <1>1, PTL

\* A clean copy may be dropped: below it is what it holds (insert_new_block
\* writes back dirty victims only).
THEOREM CacheCleanExpendable ==
    Level[2].policy = "WBWA" => (Spec => []CleanCopiesExpendable)
  <1> SUFFICES ASSUME Level[2].policy = "WBWA" PROVE Spec => []CleanCopiesExpendable
    OBVIOUS
  <1>1. ContentsInv => CleanCopiesExpendable
    <2> SUFFICES ASSUME ContentsInv, NEW b \in Blocks
                 PROVE  /\ Resident(h, 1, b) /\ ~CopyOf(h, 1, b).dirty => Below(h, b)
                        /\ Resident(h, 2, b) /\ ~CopyOf(h, 2, b).dirty
                             => h.memory[b] = CopyOf(h, 2, b).fresh
      BY DEF CleanCopiesExpendable
    <2>1. Shaped(h) /\ NoStoreLost(h)
      BY DEF ContentsInv, MayDirty
    <2>2. Resident(h, 1, b) => CopyOf(h, 1, b) \in Lines(h, 1, b)
      BY <2>1, CopyIs
    <2>3. Resident(h, 2, b) => CopyOf(h, 2, b) \in Lines(h, 2, b)
      BY <2>1, CopyIs
    <2> QED BY <2>1, <2>2, <2>3 DEF NoStoreLost, BackedUp
  <1> QED BY ContentsAlways, <1>1, PTL

\* A refused or merged request, an answer and a tick leave every line where it
\* is: contents move only when a request is accepted (the order of the capacity
\* test and of access in Cache::issue).
THEOREM CacheMovesOnAccept == Spec => ContentsMoveOnAccept
  <1>1. IInv /\ [Next]_vars =>
          [h' # h => \E id \in Ids : pending[id] = None /\ pending'[id] # None]_vars
    <2> SUFFICES ASSUME IInv, [Next]_vars, h' # h
                 PROVE  \E id \in Ids : pending[id] = None /\ pending'[id] # None
      OBVIOUS
    <2>1. PICK b \in Blocks, op \in {"Read", "Write"} : Issue(b, op)
      BY DEF Next, Tick, Complete, Join, Refuse, vars
    <2>2. PICK id \in Ids \ Outstanding : id = NextId
      BY <2>1, NextIdFree DEF Issue
    <2>3. pending' = [pending EXCEPT ![id] = b]
      BY <2>1, <2>2 DEF Issue
    <2>4. pending[id] = None
      BY <2>2 DEF Outstanding
    <2>5. pending'[id] = b
      BY <2>3 DEF IInv, TableOK
    <2>6. b # None
      BY HierarchyAssumption
    <2> QED BY <2>4, <2>5, <2>6
  <1> QED BY ContentsAlways, <1>1, PTL DEF Spec, ContentsMoveOnAccept
=============================================================================
