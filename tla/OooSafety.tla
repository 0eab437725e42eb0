----------------------------- MODULE OooSafety -----------------------------
(***************************************************************************)
(* Proofs about OooCore: whatever the program, the sizes of the core and   *)
(* the times of the answers, a store goes to the cache only when no other  *)
(* access is outstanding; what is in flight is one stretch of the program  *)
(* in its order, the books of queue, units and ring agree, every operand   *)
(* waits for its own producer, and memory operations go to the cache in    *)
(* order.                                                                  *)
(*                                                                         *)
(* That stores go alone needs the scheduling queue, the tags of the units  *)
(* and the MSHRs, but neither the ring nor the renaming: it comes first.   *)
(* For the rest the ring is seen through InFlight, its live entries from   *)
(* the oldest on; one lemma for each kind of step says what becomes of     *)
(* them, and only those lemmas know of slots, head and tail.               *)
(***************************************************************************)
EXTENDS OooCore, WellFoundedInduction, FiniteSetTheorems, TLAPS

\* What fetch puts into the dispatch queue.
Fetched == [n : Nat, op : Opcodes, dest : Regs \cup {NoReg},
            src : [1 .. 2 -> Regs \cup {NoReg}], block : Blocks \cup {NoBlock},
            mispredict : BOOLEAN]

\* A scheduling entry, whatever its slot and its operands.
Shaped(e) ==
    \E s, o : e \in [inst : Fetched, tag : Nat, slot : {s}, busy : BOOLEAN, src : {o}]

\* Sequence numbers grow along the front end, and the scheduling queue is older
\* than all of it.
FrontOrdered ==
    /\ dynCount \in Nat
    /\ dispq \in Seq(Fetched)
    /\ \A i, j \in DOMAIN dispq : i < j => dispq[i].n < dispq[j].n
    /\ \A i \in DOMAIN dispq : dispq[i].n <= dynCount
    /\ \A e \in sq, i \in DOMAIN dispq : e.inst.n < dispq[i].n

\* Tags and sequence numbers name the scheduling entries.
EntriesNamed ==
    /\ nextTag \in Nat
    /\ \A e \in sq : Shaped(e) /\ e.tag < nextTag /\ e.inst.n <= dynCount
    /\ \A e, f \in sq : e.tag = f.tag \/ e.inst.n = f.inst.n => e = f

\* The units hold tags of instructions of their kind.
UnitsTyped ==
    /\ alu \subseteq 0 .. nextTag - 1
    /\ mul \in [1 .. 3 -> SUBSET (0 .. nextTag - 1)]
    /\ \A e \in sq : /\ e.tag \in alu => ~IsMemory(e)
                     /\ \A i \in 1 .. 3 : e.tag \in mul[i] => ~IsMemory(e)

MissEntries ==
    [block : Blocks \cup {NoBlock}, ids : (SUBSET Nat) \ {{}}, ready : BOOLEAN]

\* The LSUs wait for the ids the MSHRs hold, and for live entries.
LsuBooked ==
    /\ mshr \subseteq MissEntries
    /\ lsu = UNION {m.ids : m \in mshr}
    /\ lsu \subseteq Tags(sq)

\* What an LSU holds was unambiguous when it fired, and still is.
LsuAlone == \A e \in sq : e.tag \in lsu => e.busy /\ IsMemory(e) /\ ~Ambiguous(e)

LsuInv == FrontOrdered /\ EntriesNamed /\ UnitsTyped /\ LsuBooked /\ LsuAlone

-----------------------------------------------------------------------------
(* Entries that are marked or woken.                                       *)

LEMMA BusyShaped ==
    ASSUME NEW e, Shaped(e)
    PROVE  LET f == [e EXCEPT !.busy = TRUE]
           IN  Shaped(f) /\ f.inst = e.inst /\ f.tag = e.tag /\ f.busy
  <1>1. PICK s, o : e \in [inst : Fetched, tag : Nat, slot : {s}, busy : BOOLEAN, src : {o}]
    BY DEF Shaped
  <1>2. [e EXCEPT !.busy = TRUE]
          \in [inst : Fetched, tag : Nat, slot : {s}, busy : BOOLEAN, src : {o}]
    BY <1>1
  <1> QED BY <1>1, <1>2 DEF Shaped

LEMMA WokenShaped ==
    ASSUME NEW e, Shaped(e), NEW tags
    PROVE  /\ Shaped(Wake(e, tags)) /\ Wake(e, tags).inst = e.inst
           /\ Wake(e, tags).tag = e.tag /\ Wake(e, tags).busy = e.busy
  <1>1. PICK s, o : e \in [inst : Fetched, tag : Nat, slot : {s}, busy : BOOLEAN, src : {o}]
    BY DEF Shaped
  <1>2. PICK p : Wake(e, tags) = [e EXCEPT !.src = p]
    BY DEF Wake
  <1>3. Wake(e, tags)
          \in [inst : Fetched, tag : Nat, slot : {s}, busy : BOOLEAN, src : {p}]
    BY <1>1, <1>2
  <1> QED BY <1>1, <1>2, <1>3 DEF Shaped

\* Every scheduling entry after the step is one before it, perhaps busy now.
Renews ==
    /\ \A f \in sq' : /\ Shaped(f)
                      /\ \E e \in sq : f.inst = e.inst /\ f.tag = e.tag /\ (e.busy => f.busy)
    /\ \A f, g \in sq' : f.tag = g.tag => f = g

LEMMA Renewed ==
    ASSUME LsuInv, Renews, UNCHANGED <<dispq, dynCount, nextTag>>
    PROVE  /\ FrontOrdered' /\ EntriesNamed'
           /\ \A f \in sq' : f.tag \in lsu => f.busy /\ IsMemory(f) /\ ~Ambiguous(f)'
  <1>1. FrontOrdered'
    BY DEF LsuInv, FrontOrdered, Renews
  <1>2. ASSUME NEW f \in sq', NEW g \in sq', f.inst.n = g.inst.n
        PROVE  f = g
    <2>1. PICK d \in sq : f.inst = d.inst /\ f.tag = d.tag
      BY DEF Renews
    <2>2. PICK e \in sq : g.inst = e.inst /\ g.tag = e.tag
      BY DEF Renews
    <2> QED BY <1>2, <2>1, <2>2 DEF LsuInv, EntriesNamed, Renews
  <1>3. EntriesNamed'
    BY <1>2 DEF LsuInv, EntriesNamed, Renews
  <1>4. ASSUME NEW f \in sq', f.tag \in lsu
        PROVE  f.busy /\ IsMemory(f) /\ ~Ambiguous(f)'
    <2>1. PICK e \in sq : f.inst = e.inst /\ f.tag = e.tag /\ (e.busy => f.busy)
      BY DEF Renews
    <2>2. e.busy /\ IsMemory(e) /\ ~Ambiguous(e)
      BY <1>4, <2>1 DEF LsuInv, LsuAlone
    <2>3. ~Ambiguous(f)'
      <3>1. SUFFICES ASSUME NEW g \in sq', g.inst.n < f.inst.n,
                            IsStore(g) \/ (IsStore(f) /\ IsLoad(g))
                     PROVE  FALSE
        BY DEF Ambiguous, IsStore, IsLoad
      <3>2. PICK d \in sq : g.inst = d.inst
        BY DEF Renews
      <3> QED BY <2>1, <2>2, <3>1, <3>2 DEF Ambiguous, IsStore, IsLoad
    <2> QED BY <2>1, <2>2, <2>3 DEF IsMemory, IsStore, IsLoad
  <1> QED BY <1>1, <1>3, <1>4

\* MarkBusy renews the queue.
LEMMA MarkRenews ==
    ASSUME LsuInv, NEW fired \in SUBSET sq, sq' = MarkBusy(fired)
    PROVE  Renews /\ Tags(sq) = Tags(sq')
                  /\ \A e \in fired : \A f \in sq' : f.tag = e.tag => f.busy
  <1>1. \A e \in sq : Shaped(e)
    BY DEF LsuInv, EntriesNamed
  <1>2. ASSUME NEW f \in sq'
        PROVE  \E e \in sq : /\ f = IF e \in fired THEN [e EXCEPT !.busy = TRUE] ELSE e
                             /\ Shaped(f) /\ f.inst = e.inst /\ f.tag = e.tag
                             /\ (e.busy => f.busy) /\ (e \in fired => f.busy)
    <2>1. PICK e \in sq : f = IF e \in fired THEN [e EXCEPT !.busy = TRUE] ELSE e
      BY DEF MarkBusy
    <2>2. Shaped(e)
      BY <1>1
    <2>3. CASE e \in fired
      BY <2>1, <2>2, <2>3, BusyShaped
    <2>4. CASE e \notin fired
      BY <2>1, <2>2, <2>4
    <2> QED BY <2>3, <2>4
  <1>3. ASSUME NEW f \in sq', NEW g \in sq', f.tag = g.tag
        PROVE  f = g
    <2>1. PICK d \in sq : f = (IF d \in fired THEN [d EXCEPT !.busy = TRUE] ELSE d)
                          /\ f.tag = d.tag
      BY <1>2
    <2>2. PICK e \in sq : g = (IF e \in fired THEN [e EXCEPT !.busy = TRUE] ELSE e)
                          /\ g.tag = e.tag
      BY <1>2
    <2>3. d = e
      BY <1>3, <2>1, <2>2 DEF LsuInv, EntriesNamed
    <2> QED BY <2>1, <2>2, <2>3
  <1>4. ASSUME NEW e \in sq
        PROVE  \E f \in sq' : f.tag = e.tag
    <2>1. CASE e \in fired
      <3>1. [e EXCEPT !.busy = TRUE] \in sq' /\ [e EXCEPT !.busy = TRUE].tag = e.tag
        BY <1>1, <2>1, BusyShaped DEF MarkBusy
      <3> QED BY <3>1
    <2>2. CASE e \notin fired
      BY <2>2 DEF MarkBusy
    <2> QED BY <2>1, <2>2
  <1>5. Tags(sq) = Tags(sq')
    BY <1>2, <1>4 DEF Tags
  <1>6. ASSUME NEW e \in fired, NEW f \in sq', f.tag = e.tag
        PROVE  f.busy
    <2>1. PICK d \in sq : f.tag = d.tag /\ (d \in fired => f.busy)
      BY <1>2
    <2> QED BY <1>6, <2>1 DEF LsuInv, EntriesNamed
  <1>7. Renews
    BY <1>2, <1>3 DEF Renews
  <1> QED BY <1>5, <1>6, <1>7

-----------------------------------------------------------------------------
(* One lemma for each kind of step.                                        *)

LEMMA InitLsuInv == Init => LsuInv
  <1> SUFFICES ASSUME Init PROVE LsuInv
    OBVIOUS
  <1>1. /\ dispq = <<>> /\ sq = {} /\ nextTag = NumRegs + 1 /\ dynCount = 0
        /\ alu = {} /\ mul = <<{}, {}, {}>> /\ lsu = {} /\ mshr = {}
    BY DEF Init
  <1>2. nextTag \in Nat
    BY <1>1, CoreAssumption
  <1> QED BY <1>1, <1>2 DEF LsuInv, FrontOrdered, EntriesNamed, UnitsTyped, LsuBooked,
             LsuAlone, Tags

\* Retire and the steps that end a stage touch none of it.
LEMMA FrameKeeps ==
    ASSUME LsuInv, UNCHANGED <<dispq, sq, nextTag, units, dynCount>>
    PROVE  LsuInv'
  BY DEF LsuInv, units, FrontOrdered, EntriesNamed, UnitsTyped, LsuBooked, LsuAlone,
         Tags, Ambiguous

\* An instruction joins the dispatch queue with the next sequence number.
LEMMA FetchKeeps == ASSUME LsuInv, Fetch PROVE LsuInv'
  <1>1. PICK i \in Insts, wrong \in BOOLEAN :
            dispq' = Append(dispq, [n |-> dynCount', op |-> i.op, dest |-> i.dest,
                                    src |-> i.src, block |-> i.block, mispredict |-> wrong])
    BY DEF Fetch
  <1>2. dynCount' = dynCount + 1 /\ UNCHANGED <<sq, nextTag, units>>
    BY DEF Fetch
  <1> DEFINE new == [n |-> dynCount', op |-> i.op, dest |-> i.dest, src |-> i.src,
                     block |-> i.block, mispredict |-> wrong]
  <1>3. new \in Fetched /\ new.n = dynCount + 1
    BY <1>2, CoreAssumption DEF Templates, Fetched, LsuInv, FrontOrdered
  <1>4. dispq \in Seq(Fetched) /\ dynCount \in Nat
    BY DEF LsuInv, FrontOrdered
  <1> HIDE DEF new
  <1>5. /\ dispq' \in Seq(Fetched) /\ Len(dispq') = Len(dispq) + 1
        /\ \A k \in DOMAIN dispq : dispq'[k] = dispq[k]
        /\ dispq'[Len(dispq) + 1] = new
    BY <1>1, <1>3, <1>4 DEF new
  <1>6. FrontOrdered'
    <2>1. \A k \in DOMAIN dispq' : k \in DOMAIN dispq \/ k = Len(dispq) + 1
      BY <1>4, <1>5
    <2>2. ASSUME NEW k \in DOMAIN dispq
          PROVE  dispq[k].n \in Nat /\ k < Len(dispq) + 1 /\ k \in Nat
      <3>1. dispq[k] \in Fetched /\ k \in 1 .. Len(dispq) /\ Len(dispq) \in Nat
        BY <1>4
      <3> QED BY <3>1 DEF Fetched
    <2>3. \A k \in DOMAIN dispq : dispq[k].n \in Nat /\ k < Len(dispq) + 1 /\ k \in Nat
      BY <2>2
    <2>4. \A e \in sq : e.inst.n \in Nat /\ e.inst.n <= dynCount
      BY DEF LsuInv, EntriesNamed, Shaped, Fetched
    <2>5. \A k \in DOMAIN dispq : dispq[k].n <= dynCount
      BY DEF LsuInv, FrontOrdered
    <2>6. ASSUME NEW j \in DOMAIN dispq', NEW k \in DOMAIN dispq', j < k
          PROVE  dispq'[j].n < dispq'[k].n
      <3>1. j \in DOMAIN dispq
        BY <1>4, <2>1, <2>3, <2>6
      <3>2. CASE k \in DOMAIN dispq
        BY <1>5, <2>6, <3>1, <3>2 DEF LsuInv, FrontOrdered
      <3>3. CASE k = Len(dispq) + 1
        BY <1>3, <1>4, <1>5, <2>3, <2>5, <3>1, <3>3
      <3> QED BY <2>1, <3>2, <3>3
    <2>7. ASSUME NEW k \in DOMAIN dispq'
          PROVE  dispq'[k].n <= dynCount' /\ \A e \in sq' : e.inst.n < dispq'[k].n
      <3>1. CASE k \in DOMAIN dispq
        <4>1. dispq'[k] = dispq[k] /\ dispq[k].n <= dynCount /\ dispq[k].n \in Nat
          BY <1>5, <2>3, <2>5, <3>1
        <4>2. \A e \in sq : e.inst.n < dispq[k].n
          BY <3>1 DEF LsuInv, FrontOrdered
        <4> QED BY <1>2, <1>4, <4>1, <4>2
      <3>2. CASE k = Len(dispq) + 1
        BY <1>2, <1>3, <1>4, <1>5, <2>4, <3>2
      <3> QED BY <2>1, <3>1, <3>2
    <2>8. dynCount' \in Nat
      BY <1>2, <1>4
    <2> QED BY <1>5, <2>6, <2>7, <2>8 DEF FrontOrdered
  <1>7. EntriesNamed'
    <2>1. \A e \in sq : e.inst.n \in Nat
      BY DEF LsuInv, EntriesNamed, Shaped, Fetched
    <2> QED BY <1>2, <1>4, <2>1 DEF LsuInv, EntriesNamed
  <1>8. UnitsTyped' /\ LsuBooked' /\ LsuAlone'
    BY <1>2 DEF LsuInv, units, UnitsTyped, LsuBooked, LsuAlone, Tags, Ambiguous
  <1> QED BY <1>6, <1>7, <1>8 DEF LsuInv

\* An instruction leaves the dispatch queue under the next tag.
LEMMA DispatchKeeps == ASSUME LsuInv, Dispatch PROVE LsuInv'
  <1> DEFINE inst == Head(dispq)
             new  == [inst |-> inst, tag |-> nextTag, slot |-> rob.tail, busy |-> FALSE,
                      src |-> [i \in 1 .. 2 |-> RatRead(inst.src[i])]]
  <1>1. /\ dispq # <<>> /\ dispq' = Tail(dispq)
        /\ sq' = sq \cup {new} /\ nextTag' = nextTag + 1
        /\ UNCHANGED <<units, dynCount>>
    BY DEF Dispatch, MayDispatch, front
  <1>2. dispq \in Seq(Fetched) /\ dynCount \in Nat /\ nextTag \in Nat
    BY DEF LsuInv, FrontOrdered, EntriesNamed
  <1>3. /\ inst \in Fetched /\ inst = dispq[1] /\ 1 \in DOMAIN dispq
        /\ dispq' \in Seq(Fetched)
        /\ \A k \in DOMAIN dispq' : /\ k \in Nat /\ k + 1 \in DOMAIN dispq
                                    /\ 1 < k + 1 /\ dispq'[k] = dispq[k + 1]
    BY <1>1, <1>2
  <1>4. new.inst = inst /\ new.tag = nextTag /\ new.busy = FALSE /\ Shaped(new)
    BY <1>2, <1>3 DEF Shaped
  <1>5. /\ inst.n \in Nat /\ inst.n <= dynCount
        /\ \A e \in sq : e.inst.n < inst.n /\ e.inst.n \in Nat /\ e.tag < nextTag /\ e.tag \in Nat
    BY <1>3 DEF LsuInv, FrontOrdered, EntriesNamed, Shaped, Fetched
  <1> HIDE DEF inst, new
  <1>6. FrontOrdered'
    <2>1. \A k \in DOMAIN dispq' : inst.n < dispq'[k].n
      BY <1>3 DEF LsuInv, FrontOrdered
    <2>2. \A j, k \in DOMAIN dispq' : j < k => j + 1 < k + 1
      BY <1>3
    <2>3. \A j, k \in DOMAIN dispq' : j < k => dispq'[j].n < dispq'[k].n
      BY <1>3, <2>2 DEF LsuInv, FrontOrdered
    <2>4. \A k \in DOMAIN dispq' : dispq'[k].n <= dynCount
      BY <1>3 DEF LsuInv, FrontOrdered
    <2>5. \A e \in sq', k \in DOMAIN dispq' : e.inst.n < dispq'[k].n
      BY <1>1, <1>3, <1>4, <2>1 DEF LsuInv, FrontOrdered
    <2> QED BY <1>1, <1>2, <1>3, <2>3, <2>4, <2>5 DEF FrontOrdered
  <1>7. EntriesNamed'
    <2>1. \A e \in sq' : Shaped(e) /\ e.tag < nextTag' /\ e.inst.n <= dynCount'
      BY <1>1, <1>2, <1>4, <1>5 DEF LsuInv, EntriesNamed
    <2>2. \A e, f \in sq' : e.tag = f.tag \/ e.inst.n = f.inst.n => e = f
      BY <1>1, <1>2, <1>4, <1>5 DEF LsuInv, EntriesNamed
    <2> QED BY <1>1, <1>2, <2>1, <2>2 DEF EntriesNamed
  <1>8. UnitsTyped'
    <2>1. nextTag \notin alu /\ \A i \in 1 .. 3 : nextTag \notin mul[i]
      BY <1>2 DEF LsuInv, UnitsTyped
    <2>2. 0 .. nextTag - 1 \subseteq 0 .. nextTag' - 1
      BY <1>1, <1>2
    <2>3. alu' \subseteq 0 .. nextTag' - 1 /\ mul' \in [1 .. 3 -> SUBSET (0 .. nextTag' - 1)]
      BY <1>1, <2>2 DEF LsuInv, UnitsTyped, units
    <2> QED BY <1>1, <1>4, <2>1, <2>3 DEF LsuInv, UnitsTyped, units
  <1>9. LsuBooked'
    BY <1>1 DEF LsuInv, LsuBooked, Tags, units
  <1>10. LsuAlone'
    <2>1. nextTag \notin lsu
      BY <1>5 DEF LsuInv, LsuBooked, Tags
    <2>2. SUFFICES ASSUME NEW e \in sq', e.tag \in lsu
                   PROVE  e.busy /\ IsMemory(e) /\ ~Ambiguous(e)'
      BY <1>1 DEF LsuAlone, units
    <2>3. e \in sq
      BY <1>1, <1>4, <2>1, <2>2
    <2>4. e.busy /\ IsMemory(e) /\ ~Ambiguous(e)
      BY <2>2, <2>3 DEF LsuInv, LsuAlone
    <2>5. ~(new.inst.n < e.inst.n)
      BY <1>4, <1>5, <2>3
    <2>6. ~Ambiguous(e)'
      BY <1>1, <2>4, <2>5 DEF Ambiguous
    <2> QED BY <2>4, <2>6
  <1> QED BY <1>6, <1>7, <1>8, <1>9, <1>10 DEF LsuInv

\* ALUs and multipliers take the tags of entries of their kind.
LEMMA ScheduleKeeps ==
    ASSUME LsuInv, ScheduleAlu \/ ScheduleMul
    PROVE  LsuInv'
  <1>1. PICK fired \in SUBSET sq :
            /\ \A e \in fired : ~IsMemory(e)
            /\ sq' = MarkBusy(fired)
            /\ \/ alu' = alu \cup Tags(fired) /\ mul' = mul
               \/ alu' = alu /\ mul' = [mul EXCEPT ![1] = @ \cup Tags(fired)]
            /\ UNCHANGED <<dispq, nextTag, lsu, mshr, dynCount>>
    <2>1. CASE ScheduleAlu
      <3> DEFINE F == OldestReady({"Alu", "Branch"}, AluFus - Cardinality(alu))
      <3>1. F \in SUBSET sq /\ \A e \in F : ~IsMemory(e)
        BY DEF OldestReady, IsMemory, IsLoad, IsStore
      <3>2. /\ sq' = MarkBusy(F) /\ alu' = alu \cup Tags(F) /\ mul' = mul
            /\ UNCHANGED <<dispq, nextTag, lsu, mshr, dynCount>>
        BY <2>1 DEF ScheduleAlu, front
      <3> HIDE DEF F
      <3> QED BY <3>1, <3>2
    <2>2. CASE ScheduleMul
      <3> DEFINE F == OldestReady({"Mul"}, MulFus - Cardinality(mul[1]))
      <3>1. F \in SUBSET sq /\ \A e \in F : ~IsMemory(e)
        BY DEF OldestReady, IsMemory, IsLoad, IsStore
      <3>2. /\ sq' = MarkBusy(F) /\ alu' = alu
            /\ mul' = [mul EXCEPT ![1] = @ \cup Tags(F)]
            /\ UNCHANGED <<dispq, nextTag, lsu, mshr, dynCount>>
        BY <2>2 DEF ScheduleMul, front
      <3> HIDE DEF F
      <3> QED BY <3>1, <3>2
    <2> QED BY <2>1, <2>2
  <1>2. Renews /\ Tags(sq) = Tags(sq')
    BY <1>1, MarkRenews
  <1>3. FrontOrdered' /\ EntriesNamed' /\ LsuAlone'
    BY <1>1, <1>2, Renewed DEF LsuAlone
  <1>4. LsuBooked'
    BY <1>1, <1>2 DEF LsuInv, LsuBooked
  <1>5. Tags(fired) \subseteq 0 .. nextTag - 1
    BY <1>1 DEF LsuInv, EntriesNamed, Shaped, Tags
  <1>6. ASSUME NEW f \in sq', f.tag \in Tags(fired)
        PROVE  ~IsMemory(f)
    <2>1. PICK d \in fired : d.tag = f.tag
      BY <1>6 DEF Tags
    <2>2. PICK e \in sq : f.inst = e.inst /\ f.tag = e.tag
      BY <1>2 DEF Renews
    <2>3. d = e
      BY <1>1, <2>1, <2>2 DEF LsuInv, EntriesNamed
    <2> QED BY <1>1, <2>2, <2>3 DEF IsMemory, IsLoad, IsStore
  <1>7. ASSUME NEW f \in sq'
        PROVE  /\ f.tag \in alu => ~IsMemory(f)
               /\ \A i \in 1 .. 3 : f.tag \in mul[i] => ~IsMemory(f)
    <2>1. PICK e \in sq : f.inst = e.inst /\ f.tag = e.tag
      BY <1>2 DEF Renews
    <2> QED BY <2>1 DEF LsuInv, UnitsTyped, IsMemory, IsLoad, IsStore
  <1>8. UnitsTyped'
    BY <1>1, <1>5, <1>6, <1>7 DEF LsuInv, UnitsTyped
  <1> QED BY <1>3, <1>4, <1>8 DEF LsuInv

\* Results leave the units; what remains in the LSUs is still waiting.
LEMMA ExecKeeps == ASSUME LsuInv, Exec PROVE LsuInv'
  <1> DEFINE tags == alu \cup mul[3] \cup Answered
  <1>1. /\ sq' = {Wake(e, tags) : e \in {f \in sq : f.tag \notin tags}}
        /\ alu' = {} /\ mul' = <<{}, mul[1], mul[2]>>
        /\ lsu' = lsu \ Answered /\ mshr' = Release(Answered)
        /\ UNCHANGED <<dispq, nextTag, dynCount>>
    BY DEF Exec, WriteBack, front
  <1> HIDE DEF tags
  <1>2. ASSUME NEW f \in sq'
        PROVE  \E e \in sq : /\ f = Wake(e, tags) /\ Shaped(f) /\ e.tag \notin tags
                             /\ f.inst = e.inst /\ f.tag = e.tag /\ f.busy = e.busy
    BY <1>1, WokenShaped DEF LsuInv, EntriesNamed
  <1>3. Renews
    <2>1. ASSUME NEW f \in sq', NEW g \in sq', f.tag = g.tag
          PROVE  f = g
      <3>1. PICK d \in sq : f = Wake(d, tags) /\ f.tag = d.tag
        BY <1>2
      <3>2. PICK e \in sq : g = Wake(e, tags) /\ g.tag = e.tag
        BY <1>2
      <3> QED BY <2>1, <3>1, <3>2 DEF LsuInv, EntriesNamed
    <2> QED BY <1>2, <2>1 DEF Renews
  <1>4. /\ FrontOrdered' /\ EntriesNamed'
        /\ \A f \in sq' : f.tag \in lsu => f.busy /\ IsMemory(f) /\ ~Ambiguous(f)'
    BY <1>1, <1>3, Renewed
  <1>5. LsuAlone'
    BY <1>1, <1>4 DEF LsuAlone
  <1>6. UnitsTyped'
    <2>1. mul' \in [1 .. 3 -> SUBSET (0 .. nextTag' - 1)]
      BY <1>1 DEF LsuInv, UnitsTyped
    <2>2. mul'[1] = {} /\ mul'[2] = mul[1] /\ mul'[3] = mul[2]
      BY <1>1
    <2>3. ASSUME NEW f \in sq', NEW i \in 1 .. 3, f.tag \in mul'[i]
          PROVE  ~IsMemory(f)
      <3>1. PICK e \in sq : f.inst = e.inst /\ f.tag = e.tag
        BY <1>2
      <3>2. e.tag \in mul[1] \/ e.tag \in mul[2]
        BY <2>2, <2>3, <3>1
      <3> QED BY <3>1, <3>2 DEF LsuInv, UnitsTyped, IsMemory, IsLoad, IsStore
    <2> QED BY <1>1, <2>1, <2>3 DEF UnitsTyped
  <1>7. LsuBooked'
    <2>1. mshr' \subseteq MissEntries
      <3>1. ASSUME NEW m \in mshr'
            PROVE  m \in MissEntries
        <4>1. PICK k \in mshr : m = [k EXCEPT !.ids = @ \ Answered] /\ m.ids # {}
          BY <1>1 DEF Release
        <4>2. k \in MissEntries
          BY DEF LsuInv, LsuBooked
        <4> QED BY <4>1, <4>2 DEF MissEntries
      <3> QED BY <3>1
    <2>2. ASSUME NEW t
          PROVE  t \in lsu' <=> \E m \in mshr' : t \in m.ids
      <3>1. ASSUME NEW m \in mshr', t \in m.ids
            PROVE  t \in lsu'
        <4>1. PICK k \in mshr : m = [k EXCEPT !.ids = @ \ Answered]
          BY <1>1 DEF Release
        <4>2. k \in MissEntries
          BY DEF LsuInv, LsuBooked
        <4>3. t \in k.ids /\ t \notin Answered
          BY <3>1, <4>1, <4>2
        <4> QED BY <1>1, <4>3 DEF LsuInv, LsuBooked
      <3>2. ASSUME t \in lsu'
            PROVE  \E m \in mshr' : t \in m.ids
        <4>1. t \in lsu /\ t \notin Answered
          BY <1>1, <3>2
        <4>2. PICK k \in mshr : t \in k.ids
          BY <4>1 DEF LsuInv, LsuBooked
        <4>3. k \in MissEntries
          BY DEF LsuInv, LsuBooked
        <4> DEFINE m == [k EXCEPT !.ids = @ \ Answered]
        <4>4. t \in m.ids
          BY <4>1, <4>2, <4>3 DEF MissEntries
        <4>5. m \in mshr'
          BY <1>1, <4>4 DEF Release
        <4> QED BY <4>4, <4>5
      <3> QED BY <3>1, <3>2
    <2>3. lsu' = UNION {m.ids : m \in mshr'}
      BY <2>2
    <2>4. ASSUME NEW t \in lsu'
          PROVE  t \in Tags(sq')
      <3>1. t \in lsu /\ t \notin Answered
        BY <1>1
      <3>2. PICK e \in sq : e.tag = t
        BY <3>1 DEF LsuInv, LsuBooked, Tags
      <3>3. IsMemory(e)
        BY <3>1, <3>2 DEF LsuInv, LsuAlone
      <3>4. t \notin tags
        BY <3>1, <3>2, <3>3 DEF LsuInv, UnitsTyped, tags
      <3>5. Wake(e, tags) \in sq' /\ Wake(e, tags).tag = t
        BY <1>1, <3>2, <3>4, WokenShaped DEF LsuInv, EntriesNamed
      <3> QED BY <3>5 DEF Tags
    <2> QED BY <2>1, <2>3, <2>4 DEF LsuBooked
  <1> QED BY <1>4, <1>5, <1>6, <1>7 DEF LsuInv

\* There is an oldest among the entries that may fire.
LEMMA OldestThere ==
    ASSUME LsuInv, MayFire # {}
    PROVE  OldestMayFire \in MayFire
  <1> DEFINE N == {e.inst.n : e \in MayFire}
  <1>1. N \subseteq Nat /\ N # {}
    BY DEF MayFire, LsuInv, EntriesNamed, Shaped, Fetched
  <1> HIDE DEF N
  <1>2. PICK x \in N : \A y \in N : ~ (<<y, x>> \in OpToRel(<, Nat))
    BY <1>1, NatLessThanWellFounded, WFMin
  <1>3. ASSUME NEW y \in N PROVE x <= y
    <2>1. <<y, x>> \notin {p \in Nat \X Nat : p[1] < p[2]}
      BY <1>2, Zenon DEF OpToRel
    <2> QED BY <1>1, <2>1
  <1>4. PICK e \in MayFire : e.inst.n = x
    BY DEF N
  <1>5. \A f \in MayFire : e.inst.n <= f.inst.n
    BY <1>3, <1>4 DEF N
  <1> QED BY <1>5 DEF OldestMayFire

\* The MSHRs hold one id more.
LEMMA AllocateHolds ==
    ASSUME LsuInv, NEW e \in sq
    PROVE  /\ MshrAllocate(e) \subseteq MissEntries
           /\ UNION {m.ids : m \in MshrAllocate(e)} = lsu \cup {e.tag}
  <1> DEFINE b == e.inst.block
  <1>1. mshr \subseteq MissEntries /\ lsu = UNION {m.ids : m \in mshr}
    BY DEF LsuInv, LsuBooked
  <1>2. e.tag \in Nat /\ b \in Blocks \cup {NoBlock}
    BY DEF LsuInv, EntriesNamed, Shaped, Fetched
  <1>3. CASE Targeting(b) # {}
    <2>1. MshrAllocate(e) =
            {IF m.block = b THEN [m EXCEPT !.ids = @ \cup {e.tag}] ELSE m : m \in mshr}
      BY <1>3 DEF MshrAllocate
    <2>2. ASSUME NEW k \in mshr
          PROVE  LET m == IF k.block = b THEN [k EXCEPT !.ids = @ \cup {e.tag}] ELSE k
                 IN  m \in MissEntries /\ m.ids = IF k.block = b THEN k.ids \cup {e.tag} ELSE k.ids
      BY <1>1, <1>2 DEF MissEntries
    <2>3. PICK k \in mshr : k.block = b
      BY <1>3 DEF Targeting
    <2>4. ASSUME NEW t
          PROVE  (\E m \in MshrAllocate(e) : t \in m.ids) <=> t \in lsu \cup {e.tag}
      <3>1. ASSUME NEW m \in MshrAllocate(e), t \in m.ids
            PROVE  t \in lsu \cup {e.tag}
        <4>1. PICK j \in mshr : m = IF j.block = b THEN [j EXCEPT !.ids = @ \cup {e.tag}] ELSE j
          BY <2>1
        <4>2. m.ids \subseteq j.ids \cup {e.tag}
          BY <2>2, <4>1
        <4> QED BY <1>1, <3>1, <4>2
      <3>2. ASSUME NEW j \in mshr, t \in j.ids \/ (j = k /\ t = e.tag)
            PROVE  \E m \in MshrAllocate(e) : t \in m.ids
        <4> DEFINE m == IF j.block = b THEN [j EXCEPT !.ids = @ \cup {e.tag}] ELSE j
        <4>1. t \in m.ids
          BY <2>2, <2>3, <3>2
        <4>2. m \in MshrAllocate(e)
          BY <2>1
        <4> QED BY <4>1, <4>2
      <3> QED BY <1>1, <3>1, <3>2
    <2> QED BY <2>1, <2>2, <2>4
  <1>4. CASE Targeting(b) = {}
    <2> DEFINE new == [block |-> b, ids |-> {e.tag}, ready |-> FALSE]
    <2>1. MshrAllocate(e) = mshr \cup {new}
      BY <1>4 DEF MshrAllocate
    <2>2. new \in MissEntries /\ new.ids = {e.tag}
      BY <1>2 DEF MissEntries
    <2> HIDE DEF new
    <2> QED BY <1>1, <2>1, <2>2
  <1> QED BY <1>3, <1>4

\* The access that fires was unambiguous, and is the LSUs' from now on.
LEMMA FireKeeps == ASSUME LsuInv, FireLsu PROVE LsuInv'
  <1> DEFINE e == OldestMayFire
  <1>1. e \in MayFire
    BY OldestThere DEF FireLsu, LsuGoesOn
  <1>2. /\ lsu' = lsu \cup {e.tag} /\ sq' = MarkBusy({e}) /\ mshr' = MshrAllocate(e)
        /\ UNCHANGED <<dispq, nextTag, alu, mul, dynCount>>
    BY DEF FireLsu, front
  <1> HIDE DEF e
  <1>3. e \in sq /\ IsMemory(e) /\ ~Ambiguous(e)
    BY <1>1 DEF MayFire
  <1>4. Renews /\ Tags(sq) = Tags(sq') /\ \A f \in sq' : f.tag = e.tag => f.busy
    BY <1>2, <1>3, MarkRenews
  <1>5. /\ FrontOrdered' /\ EntriesNamed'
        /\ \A f \in sq' : f.tag \in lsu => f.busy /\ IsMemory(f) /\ ~Ambiguous(f)'
    BY <1>2, <1>4, Renewed
  <1>6. UnitsTyped'
    <2>1. ASSUME NEW f \in sq'
          PROVE  /\ f.tag \in alu => ~IsMemory(f)
                 /\ \A i \in 1 .. 3 : f.tag \in mul[i] => ~IsMemory(f)
      <3>1. PICK d \in sq : f.inst = d.inst /\ f.tag = d.tag
        BY <1>4 DEF Renews
      <3> QED BY <3>1 DEF LsuInv, UnitsTyped, IsMemory, IsLoad, IsStore
    <2> QED BY <1>2, <2>1 DEF LsuInv, UnitsTyped
  <1>7. LsuBooked'
    <2>1. lsu' \subseteq Tags(sq')
      BY <1>2, <1>3, <1>4 DEF LsuInv, LsuBooked, Tags
    <2> QED BY <1>2, <1>3, <2>1, AllocateHolds DEF LsuBooked
  <1>8. ASSUME NEW f \in sq', f.tag = e.tag
        PROVE  f.busy /\ IsMemory(f) /\ ~Ambiguous(f)'
    <2>1. PICK d \in sq : f.inst = d.inst /\ f.tag = d.tag
      BY <1>4 DEF Renews
    <2>2. f.inst = e.inst
      BY <1>3, <1>8, <2>1 DEF LsuInv, EntriesNamed
    <2>3. ~Ambiguous(f)'
      <3>1. SUFFICES ASSUME NEW g \in sq', g.inst.n < f.inst.n,
                            IsStore(g) \/ (IsStore(f) /\ IsLoad(g))
                     PROVE  FALSE
        BY DEF Ambiguous, IsStore, IsLoad
      <3>2. PICK c \in sq : g.inst = c.inst
        BY <1>4 DEF Renews
      <3> QED BY <1>3, <2>2, <3>1, <3>2 DEF Ambiguous, IsStore, IsLoad
    <2> QED BY <1>3, <1>4, <1>8, <2>2, <2>3 DEF IsMemory, IsStore, IsLoad
  <1>9. LsuAlone'
    BY <1>2, <1>5, <1>8 DEF LsuAlone
  <1> QED BY <1>5, <1>6, <1>7, <1>9 DEF LsuInv

\* An answer changes no id.
LEMMA ReadyKeeps == ASSUME LsuInv, NEW b \in Blocks, MarkReady(b) PROVE LsuInv'
  <1>1. PICK m \in mshr : mshr' = (mshr \ {m}) \cup {[m EXCEPT !.ready = TRUE]}
    BY DEF MarkReady
  <1>2. UNCHANGED <<dispq, sq, nextTag, alu, mul, lsu, dynCount>>
    BY DEF MarkReady, window, front
  <1> DEFINE new == [m EXCEPT !.ready = TRUE]
  <1>3. mshr \subseteq MissEntries /\ lsu = UNION {k.ids : k \in mshr} /\ lsu \subseteq Tags(sq)
    BY DEF LsuInv, LsuBooked
  <1>4. new \in MissEntries /\ new.ids = m.ids
    BY <1>3 DEF MissEntries
  <1>5. mshr' \subseteq MissEntries
    BY <1>1, <1>3, <1>4
  <1>6. UNION {k.ids : k \in mshr'} = UNION {k.ids : k \in mshr}
    <2> HIDE DEF new
    <2> QED BY <1>1, <1>4 DEF new
  <1>7. LsuBooked'
    BY <1>2, <1>3, <1>5, <1>6 DEF LsuBooked, Tags
  <1>8. FrontOrdered' /\ EntriesNamed' /\ UnitsTyped' /\ LsuAlone'
    BY <1>2 DEF LsuInv, FrontOrdered, EntriesNamed, UnitsTyped, LsuAlone, Ambiguous
  <1> QED BY <1>7, <1>8 DEF LsuInv

-----------------------------------------------------------------------------
(* The theorem.                                                            *)

LEMMA StepKeeps == ASSUME LsuInv, [Next]_vars PROVE LsuInv'
  <1>1. CASE Retire \/ LsuDone \/ DispatchDone \/ FetchDone \/ FetchEof \/ EndCycle
             \/ UNCHANGED vars
    <2>1. UNCHANGED <<dispq, sq, nextTag, units, dynCount>>
      BY <1>1 DEF Retire, LsuDone, DispatchDone, FetchDone, FetchEof, EndCycle, vars,
                  window, front
    <2> QED BY <2>1, FrameKeeps
  <1>2. CASE Exec
    BY <1>2, ExecKeeps
  <1>3. CASE ScheduleAlu \/ ScheduleMul
    BY <1>3, ScheduleKeeps
  <1>4. CASE FireLsu
    BY <1>4, FireKeeps
  <1>5. CASE Dispatch
    BY <1>5, DispatchKeeps
  <1>6. CASE Fetch
    BY <1>6, FetchKeeps
  <1>7. ASSUME NEW b \in Blocks, MarkReady(b) PROVE LsuInv'
    BY <1>7, ReadyKeeps
  <1> QED BY <1>1, <1>2, <1>3, <1>4, <1>5, <1>6, <1>7 DEF Next

\* A store that may fire has no older access before it, and a younger one that
\* is out would have been held back by it: nothing is out.
LEMMA InvStoresAlone == LsuInv => StoresFindMshrEmpty
  <1> SUFFICES ASSUME LsuInv, NEW e \in MayFire, IsStore(e)
               PROVE  mshr = {} /\ lsu = {}
    BY DEF StoresFindMshrEmpty
  <1>1. e \in sq /\ ~e.busy /\ ~Ambiguous(e)
    BY DEF MayFire
  <1>2. lsu = {}
    <2>1. SUFFICES ASSUME NEW t \in lsu PROVE FALSE
      OBVIOUS
    <2>2. PICK f \in sq : f.tag = t
      BY DEF LsuInv, LsuBooked, Tags
    <2>3. f.busy /\ IsMemory(f) /\ ~Ambiguous(f)
      BY <2>2 DEF LsuInv, LsuAlone
    <2>4. e.inst.n \in Nat /\ f.inst.n \in Nat /\ e.inst.n # f.inst.n
      BY <1>1, <2>3 DEF LsuInv, EntriesNamed, Shaped, Fetched
    <2>5. CASE f.inst.n < e.inst.n
      BY <1>1, <2>3, <2>5 DEF Ambiguous, IsMemory
    <2>6. CASE e.inst.n < f.inst.n
      BY <1>1, <2>3, <2>6 DEF Ambiguous
    <2> QED BY <2>4, <2>5, <2>6
  <1>3. mshr = {}
    BY <1>2 DEF LsuInv, LsuBooked, MissEntries
  <1> QED BY <1>2, <1>3

\* For any trace, any sizes of queues, pools and MSHR table, and answers at any
\* time: a store that is about to be issued finds no access outstanding
\* (stage_schedule, core.cpp:367-430), so Cache::issue cannot refuse it and it
\* never merges into the slot of a read.
THEOREM StoresIssueAlone == Spec => []StoresFindMshrEmpty
  <1>1. LsuInv /\ [Next]_vars => LsuInv'
    BY StepKeeps
  <1> QED BY InitLsuInv, <1>1, InvStoresAlone, PTL DEF Spec

-----------------------------------------------------------------------------
(* Order, books and dataflow.                                              *)

RobType == [slot : [0 .. RobSize - 1 -> SlotType], head : 0 .. RobSize - 1,
            tail : 0 .. RobSize - 1, count : 0 .. RobSize]
Live == 1 .. rob.count
Around(x) == x % RobSize
SlotAt(i) == Around(rob.head + (i - 1))
RobEntries == [ready : BOOLEAN, tag : TagType, inst : InstType]

\* The ring is well formed, and the numbers of what is in flight go on from
\* those of what has retired; the tags follow them.
RingShaped ==
    /\ rob \in RobType /\ rob.tail = Around(rob.head + rob.count)
    /\ retired \in Nat /\ dynCount \in 0 .. MaxFetch
    /\ dynCount = retired + rob.count + Len(dispq)
    /\ nextTag = NumRegs + 1 + retired + rob.count

LiveNumbered ==
    \A i \in Live : /\ InFlight[i] \in RobEntries
                    /\ InFlight[i].inst.n = retired + i
                    /\ InFlight[i].tag = NumRegs + retired + i

QueueNumbered ==
    /\ dispq \in Seq(InstType) /\ Len(dispq) <= DispqCap
    /\ \A i \in DOMAIN dispq : dispq[i].n = retired + rob.count + i

\* A scheduling entry and the live entry it stands for.
StandsFor(e, i) ==
    e.slot = SlotAt(i) /\ InFlight[i] = [ready |-> FALSE, tag |-> e.tag, inst |-> e.inst]

SchedPlaced ==
    /\ sq \in SUBSET SchedType
    /\ \A e \in sq : \E i \in Live : StandsFor(e, i)
    /\ \A i \in Live : InFlight[i].ready \/ InFlight[i].tag \in Tags(sq)

\* What the units hold is busy, and no two of them hold the same.
InUnits == alu \cup mul[1] \cup mul[2] \cup mul[3] \cup lsu
UnitsBooked ==
    /\ Tags({e \in sq : e.busy}) = InUnits
    /\ alu \cap (mul[1] \cup mul[2] \cup mul[3]) = {}
    /\ mul[1] \cap (mul[2] \cup mul[3]) = {} /\ mul[2] \cap mul[3] = {}

BranchLast ==
    /\ inMispred \in BOOLEAN
    /\ \A i \in Live : InFlight[i].inst.op = "Branch" /\ InFlight[i].inst.mispredict
                       => i = rob.count /\ dispq = <<>> /\ inMispred
    /\ \A i \in DOMAIN dispq : dispq[i].op = "Branch" /\ dispq[i].mispredict
                               => i = Len(dispq) /\ inMispred

\* Follows, without the maximum.
LastWriter(w, r, n) ==
    w \in WritersBefore(r, n) /\ \A x \in WritersBefore(r, n) : x <= w
Tracks(o, r, n) ==
    /\ (r = NoReg \/ WritersBefore(r, n) = {}) => o.ready
    /\ \A w \in Live : r # NoReg /\ LastWriter(w, r, n) =>
         /\ o.ready = InFlight[w].ready
         /\ InFlight[w].ready \/ o.tag = InFlight[w].tag

Renamed ==
    /\ rat \in [Regs -> RatType]
    /\ \A e \in sq, i \in 1 .. 2 : Tracks(e.src[i], e.inst.src[i], e.inst.n)
    /\ \A r \in Regs : Tracks(rat[r], r, dynCount + 1)

MemoryPair(i, j) ==
    /\ i < j /\ {InFlight[i].inst.op, InFlight[j].inst.op} \subseteq {"Load", "Store"}
    /\ "Store" \in {InFlight[i].inst.op, InFlight[j].inst.op}
Serialised ==
    \A i, j \in Live :
        MemoryPair(i, j) /\ (InFlight[j].ready \/ InFlight[j].tag \in lsu) => InFlight[i].ready

OrderInv ==
    /\ RingShaped /\ LiveNumbered /\ QueueNumbered /\ SchedPlaced /\ UnitsBooked
    /\ BranchLast /\ Renamed /\ Serialised

-----------------------------------------------------------------------------
(* The ring.                                                               *)

LEMMA Sizes ==
    /\ RobSize \in Nat \ {0} /\ NumRegs \in Nat \ {0} /\ MaxFetch \in Nat
    /\ SchedqCap \in Nat \ {0} /\ DispqCap \in Nat \ {0} /\ FetchWidth \in Nat \ {0}
    /\ AluFus \in Nat \ {0} /\ MulFus \in Nat \ {0} /\ LsuFus \in Nat \ {0}
    /\ MshrSize \in Nat \ {0} /\ Threshold \in Nat
  BY CoreAssumption

\* One subtraction is enough to come back into the ring.
LEMMA Wrapped ==
    ASSUME NEW h \in 0 .. RobSize - 1, NEW i \in 0 .. RobSize
    PROVE  /\ Around(h + i) = IF h + i < RobSize THEN h + i ELSE h + i - RobSize
           /\ Around(h + i) \in 0 .. RobSize - 1
  <1>1. RobSize \in Nat \ {0}
    BY Sizes
  <1>2. CASE h + i < RobSize
    BY <1>1, <1>2 DEF Around
  <1>3. CASE ~(h + i < RobSize)
    BY <1>1, <1>3 DEF Around
  <1> QED BY <1>2, <1>3

LEMMA WrappedTwice ==
    ASSUME NEW h \in 0 .. RobSize - 1, NEW i \in 0 .. RobSize, NEW j \in 0 .. RobSize,
           i + j <= RobSize
    PROVE  Around(Around(h + i) + j) = Around(h + (i + j))
  <1>1. RobSize \in Nat \ {0} /\ i + j \in 0 .. RobSize
    BY Sizes
  <1> DEFINE g == Around(h + i)
  <1>2. /\ g = IF h + i < RobSize THEN h + i ELSE h + i - RobSize
        /\ g \in 0 .. RobSize - 1
    BY Wrapped
  <1> HIDE DEF g
  <1>3. Around(g + j) = IF g + j < RobSize THEN g + j ELSE g + j - RobSize
    BY <1>2, Wrapped
  <1>4. Around(h + (i + j)) = IF h + (i + j) < RobSize THEN h + (i + j)
                              ELSE h + (i + j) - RobSize
    BY <1>1, Wrapped
  <1>5. Around(g + j) = Around(h + (i + j))
    BY <1>1, <1>2, <1>3, <1>4
  <1> QED BY <1>5 DEF g

LEMMA WrappedApart ==
    ASSUME NEW h \in 0 .. RobSize - 1, NEW i \in 0 .. RobSize - 1, NEW j \in 0 .. RobSize - 1,
           Around(h + i) = Around(h + j)
    PROVE  i = j
  <1>1. RobSize \in Nat \ {0} /\ i \in 0 .. RobSize /\ j \in 0 .. RobSize
    BY Sizes
  <1>2. /\ Around(h + i) = IF h + i < RobSize THEN h + i ELSE h + i - RobSize
        /\ Around(h + j) = IF h + j < RobSize THEN h + j ELSE h + j - RobSize
    BY <1>1, Wrapped
  <1> QED BY <1>1, <1>2

LEMMA RingFields ==
    ASSUME RingShaped
    PROVE  /\ rob.slot \in [0 .. RobSize - 1 -> SlotType] /\ rob.head \in 0 .. RobSize - 1
           /\ rob.tail \in 0 .. RobSize - 1 /\ rob.count \in 0 .. RobSize
           /\ rob = [slot |-> rob.slot, head |-> rob.head, tail |-> rob.tail,
                     count |-> rob.count]
           /\ rob.tail = Around(rob.head + rob.count) /\ RobSize \in Nat \ {0}
  BY Sizes DEF RingShaped, RobType

\* Live entries are in slots of their own; the tail comes after the last one.
LEMMA SlotsApart ==
    ASSUME RingShaped
    PROVE  /\ \A i \in Live : /\ i \in 1 .. RobSize /\ SlotAt(i) \in 0 .. RobSize - 1
                              /\ InFlight[i] = rob.slot[SlotAt(i)]
           /\ \A i, j \in Live : SlotAt(i) = SlotAt(j) => i = j
           /\ rob.count < RobSize => /\ rob.tail = SlotAt(rob.count + 1)
                                     /\ \A i \in Live : SlotAt(i) # rob.tail
  <1>1. /\ RobSize \in Nat \ {0} /\ rob.head \in 0 .. RobSize - 1
        /\ rob.count \in 0 .. RobSize /\ rob.tail = Around(rob.head + rob.count)
    BY RingFields
  <1>2. \A i \in Live : /\ i \in 1 .. RobSize /\ i - 1 \in 0 .. RobSize - 1
                        /\ i - 1 \in 0 .. RobSize /\ i - 1 < rob.count
    BY <1>1 DEF Live
  <1>3. \A i \in Live : SlotAt(i) \in 0 .. RobSize - 1
    BY <1>1, <1>2, Wrapped DEF SlotAt
  <1>4. ASSUME NEW i \in Live, NEW j \in Live, SlotAt(i) = SlotAt(j)
        PROVE  i = j
    <2>1. i - 1 = j - 1
      BY <1>1, <1>2, <1>4, WrappedApart DEF SlotAt
    <2> QED BY <1>2, <2>1
  <1>5. ASSUME rob.count < RobSize
        PROVE  rob.tail = SlotAt(rob.count + 1) /\ \A i \in Live : SlotAt(i) # rob.tail
    <2>1. (rob.count + 1) - 1 = rob.count /\ rob.count \in 0 .. RobSize - 1
      BY <1>1, <1>5
    <2>2. rob.tail = SlotAt(rob.count + 1)
      BY <1>1, <2>1 DEF SlotAt
    <2>3. ASSUME NEW i \in Live, SlotAt(i) = rob.tail
          PROVE  FALSE
      <3>1. i - 1 = rob.count
        BY <1>1, <1>2, <2>1, <2>3, WrappedApart DEF SlotAt
      <3> QED BY <1>1, <1>2, <3>1
    <2> QED BY <2>2, <2>3
  <1>6. ASSUME NEW i \in Live
        PROVE  InFlight[i] = rob.slot[SlotAt(i)]
    <2>1. rob.head + (i - 1) = rob.head + i - 1
      BY <1>1, <1>2
    <2> QED BY <2>1 DEF Live, InFlight, SlotAt, Around
  <1> QED BY <1>2, <1>3, <1>4, <1>5, <1>6

\* The slots of a well-formed ring after a step.
LEMMA SlotsAfter ==
    ASSUME rob' \in RobType
    PROVE  \A i \in Live' : InFlight'[i] = rob'.slot[SlotAt(i)'] /\ i \in 1 .. RobSize
  <1>1. ASSUME NEW i \in Live'
        PROVE  InFlight'[i] = rob'.slot[SlotAt(i)'] /\ i \in 1 .. RobSize
    <2>1. /\ rob'.head \in 0 .. RobSize - 1 /\ RobSize \in Nat \ {0} /\ i \in 1 .. rob'.count
          /\ rob'.count \in 0 .. RobSize
      BY Sizes DEF RobType, Live
    <2>2. rob'.head + (i - 1) = rob'.head + i - 1 /\ i \in 1 .. RobSize
      BY <2>1
    <2> QED BY <2>1, <2>2 DEF InFlight, SlotAt, Around
  <1> QED BY <1>1

\* Retirement takes entries from the front.
LEMMA RetireView ==
    ASSUME RingShaped, NEW k \in 0 .. rob.count, rob' = RetireHeads(rob, k)
    PROVE  /\ rob' \in RobType
           /\ rob'.tail = Around(rob'.head + rob'.count)
           /\ rob'.count = rob.count - k
           /\ \A i \in Live' : /\ i + k \in Live /\ SlotAt(i)' = SlotAt(i + k)
                               /\ InFlight'[i] = InFlight[i + k]
           /\ \A i \in Live : i > k => i - k \in Live'
  <1>1. /\ RobSize \in Nat \ {0} /\ rob.head \in 0 .. RobSize - 1
        /\ rob.count \in 0 .. RobSize /\ rob.tail = Around(rob.head + rob.count)
        /\ rob.tail \in 0 .. RobSize - 1
    BY RingFields
  <1>2. /\ rob'.slot = rob.slot /\ rob'.head = Around(rob.head + k)
        /\ rob'.tail = rob.tail /\ rob'.count = rob.count - k
        /\ rob' = [slot |-> rob'.slot, head |-> rob'.head, tail |-> rob'.tail,
                   count |-> rob'.count]
    BY RingFields DEF RetireHeads, Around
  <1>3. /\ k \in 0 .. RobSize /\ rob.count - k \in 0 .. RobSize /\ k + (rob.count - k) = rob.count
    BY <1>1
  <1>4. rob'.head \in 0 .. RobSize - 1
    BY <1>1, <1>2, <1>3, Wrapped
  <1>5. rob' \in RobType
    BY <1>1, <1>2, <1>3, <1>4, RingFields DEF RobType
  <1>6. rob'.tail = Around(rob'.head + rob'.count)
    <2>1. k + (rob.count - k) <= RobSize
      BY <1>1, <1>3
    <2>2. Around(Around(rob.head + k) + (rob.count - k)) = Around(rob.head + (k + (rob.count - k)))
      BY <1>1, <1>3, <2>1, WrappedTwice
    <2> QED BY <1>1, <1>2, <1>3, <2>2
  <1>7. ASSUME NEW i \in Live'
        PROVE  i + k \in Live /\ SlotAt(i)' = SlotAt(i + k) /\ InFlight'[i] = InFlight[i + k]
    <2>1. /\ i \in 1 .. rob.count - k
      BY <1>2 DEF Live
    <2>2. /\ i + k \in 1 .. rob.count /\ i - 1 \in 0 .. RobSize /\ k + (i - 1) <= RobSize
          /\ (i + k) - 1 = k + (i - 1)
      BY <1>1, <1>3, <2>1
    <2>3. Around(Around(rob.head + k) + (i - 1)) = Around(rob.head + (k + (i - 1)))
      BY <1>1, <1>3, <2>2, WrappedTwice
    <2>4. SlotAt(i)' = Around(rob'.head + (i - 1))
      BY DEF SlotAt, Around
    <2>5. SlotAt(i)' = SlotAt(i + k)
      BY <1>2, <2>2, <2>3, <2>4 DEF SlotAt
    <2>6. i + k \in Live
      BY <2>2 DEF Live
    <2>7. InFlight'[i] = rob'.slot[SlotAt(i)'] /\ InFlight[i + k] = rob.slot[SlotAt(i + k)]
      BY <1>5, <2>6, SlotsAfter, SlotsApart
    <2> QED BY <1>2, <2>5, <2>6, <2>7
  <1>8. \A i \in Live : i > k => i - k \in Live'
    BY <1>1, <1>2 DEF Live
  <1> QED BY <1>2, <1>5, <1>6, <1>7, <1>8

\* Dispatch adds one at the end.
LEMMA AllocateView ==
    ASSUME RingShaped, ~RobFull, NEW e \in SlotType, rob' = RobAllocate(rob, e)
    PROVE  /\ rob' \in RobType
           /\ rob'.tail = Around(rob'.head + rob'.count)
           /\ rob'.count = rob.count + 1
           /\ \A i \in Live : i \in Live' /\ SlotAt(i)' = SlotAt(i) /\ InFlight'[i] = InFlight[i]
           /\ rob'.count \in Live' /\ SlotAt(rob.count)' = rob.tail /\ InFlight'[rob'.count] = e
           /\ \A i \in Live' : i \in Live \/ i = rob'.count
  <1>1. /\ RobSize \in Nat \ {0} /\ rob.head \in 0 .. RobSize - 1
        /\ rob.count \in 0 .. RobSize /\ rob.tail = Around(rob.head + rob.count)
        /\ rob.tail \in 0 .. RobSize - 1 /\ rob.count < RobSize
    BY RingFields DEF RobFull
  <1>2. /\ rob'.slot = [rob.slot EXCEPT ![rob.tail] = e] /\ rob'.head = rob.head
        /\ rob'.tail = Around(rob.tail + 1) /\ rob'.count = rob.count + 1
        /\ rob' = [slot |-> rob'.slot, head |-> rob'.head, tail |-> rob'.tail,
                   count |-> rob'.count]
    BY RingFields DEF RobAllocate, Around
  <1>3. rob'.tail = Around(rob'.head + rob'.count) /\ rob'.tail \in 0 .. RobSize - 1
    <2>1. 1 \in 0 .. RobSize /\ rob.count + 1 <= RobSize
      BY <1>1
    <2>2. Around(Around(rob.head + rob.count) + 1) = Around(rob.head + (rob.count + 1))
      BY <1>1, <2>1, WrappedTwice
    <2>3. Around(rob.tail + 1) \in 0 .. RobSize - 1
      BY <1>1, <2>1, Wrapped
    <2> QED BY <1>1, <1>2, <2>2, <2>3
  <1>4. rob'.slot \in [0 .. RobSize - 1 -> SlotType]
    BY <1>2, RingFields
  <1>5. rob' \in RobType
    <2>1. rob'.count \in 0 .. RobSize
      BY <1>1, <1>2
    <2> QED BY <1>1, <1>2, <1>3, <1>4, <2>1 DEF RobType
  <1>6. \A i : SlotAt(i)' = SlotAt(i)
    BY <1>2 DEF SlotAt, Around
  <1>7. /\ \A i \in Live : i \in Live'
        /\ rob'.count \in Live' /\ \A i \in Live' : i \in Live \/ i = rob'.count
    BY <1>1, <1>2 DEF Live
  <1>8. ASSUME NEW i \in Live
        PROVE  InFlight'[i] = InFlight[i]
    <2>1. SlotAt(i) # rob.tail /\ SlotAt(i) \in 0 .. RobSize - 1 /\ InFlight[i] = rob.slot[SlotAt(i)]
      BY <1>1, SlotsApart
    <2>2. InFlight'[i] = rob'.slot[SlotAt(i)]
      BY <1>5, <1>6, <1>7, SlotsAfter
    <2>3. rob'.slot[SlotAt(i)] = rob.slot[SlotAt(i)]
      BY <1>2, <2>1, RingFields
    <2> QED BY <2>1, <2>2, <2>3
  <1>9. SlotAt(rob.count)' = rob.tail /\ InFlight'[rob'.count] = e
    <2>1. rob'.head + (rob'.count - 1) = rob.head + rob.count
      BY <1>1, <1>2
    <2>2. SlotAt(rob.count)' = Around(rob'.head + (rob'.count - 1))
      BY DEF SlotAt, Around
    <2>3. SlotAt(rob.count)' = rob.tail
      BY <1>1, <2>1, <2>2
    <2>4. InFlight'[rob'.count] = rob'.slot[SlotAt(rob.count)']
      BY <1>5, <1>7, SlotsAfter
    <2>5. rob'.slot[rob.tail] = e
      <3>1. rob.tail \in DOMAIN rob.slot
        BY RingFields
      <3> QED BY <1>2, <3>1
    <2> QED BY <2>3, <2>4, <2>5
  <1> QED BY <1>2, <1>3, <1>5, <1>6, <1>7, <1>8, <1>9

\* Steps that leave the ring alone.
LEMMA SameView ==
    ASSUME rob' = rob
    PROVE  /\ Live' = Live /\ InFlight' = InFlight
           /\ \A i : SlotAt(i)' = SlotAt(i)
           /\ \A r, n : WritersBefore(r, n)' = WritersBefore(r, n)
           /\ \A w, r, n : LastWriter(w, r, n)' = LastWriter(w, r, n)
  BY DEF Live, InFlight, SlotAt, WritersBefore, LastWriter

-----------------------------------------------------------------------------
(* What the parts of the invariant say of one entry.                       *)

\* A bounded set of numbers has a greatest, and that is what Max is.
LEMMA MaxIs ==
    ASSUME NEW N \in Nat, NEW S \in SUBSET (0 .. N), S # {}
    PROVE  Max(S) \in S /\ \A x \in S : x <= Max(S)
  <1> DEFINE D == {N - x : x \in S}
  <1>1. D \subseteq Nat /\ D # {}
    <2>1. \A x \in S : N - x \in Nat
      OBVIOUS
    <2> QED BY <2>1
  <1>2. \A x \in S : N - x \in D
    OBVIOUS
  <1>3. \A d \in D : \E x \in S : d = N - x
    OBVIOUS
  <1> HIDE DEF D
  <1>4. PICK d \in D : \A y \in D : ~ (<<y, d>> \in OpToRel(<, Nat))
    BY <1>1, NatLessThanWellFounded, WFMin
  <1>5. ASSUME NEW y \in D PROVE d <= y
    <2>1. <<y, d>> \notin {p \in Nat \X Nat : p[1] < p[2]}
      BY <1>4, Zenon DEF OpToRel
    <2> QED BY <1>1, <2>1
  <1>6. PICK m \in S : d = N - m
    BY <1>3
  <1>7. ASSUME NEW x \in S PROVE m >= x
    <2>1. N - m <= N - x
      BY <1>2, <1>5, <1>6
    <2>2. m \in 0 .. N /\ x \in 0 .. N
      OBVIOUS
    <2> QED BY <2>1, <2>2
  <1>8. Max(S) \in S /\ \A y \in S : Max(S) >= y
    BY <1>6, <1>7, Zenon DEF Max
  <1>9. ASSUME NEW x \in S PROVE x <= Max(S)
    <2>1. Max(S) \in 0 .. N /\ x \in 0 .. N /\ Max(S) >= x
      BY <1>8
    <2> QED BY <2>1
  <1> QED BY <1>8, <1>9

LEMMA RetirableIs ==
    ASSUME RingShaped
    PROVE  /\ Retirable \in 0 .. rob.count
           /\ \A i \in 1 .. Retirable : InFlight[i].ready
           /\ \A i \in 1 .. Retirable - 1 : ~Mispredicted(InFlight[i])
  <1> DEFINE ends == {k \in 0 .. rob.count :
                        /\ \A i \in 1 .. k : InFlight[i].ready
                        /\ \A i \in 1 .. k - 1 : ~Mispredicted(InFlight[i])}
  <1>1. rob.count \in Nat
    BY RingFields
  <1>2. 0 \in ends
    BY <1>1
  <1>3. Max(ends) \in ends
    BY <1>1, <1>2, MaxIs
  <1>4. Retirable = Max(ends)
    BY DEF Retirable
  <1> QED BY <1>3, <1>4

\* The last writer of a register is there when there is one at all.
LEMMA WritersLast ==
    ASSUME RingShaped, NEW r, NEW n, WritersBefore(r, n) # {}
    PROVE  /\ Max(WritersBefore(r, n)) \in Live
           /\ LastWriter(Max(WritersBefore(r, n)), r, n)
           /\ \A w : LastWriter(w, r, n) => w = Max(WritersBefore(r, n))
  <1> DEFINE W == WritersBefore(r, n)
  <1>1. rob.count \in Nat /\ W \subseteq Live
    BY RingFields DEF WritersBefore, Live
  <1>2. W \in SUBSET (0 .. rob.count)
    BY <1>1 DEF Live
  <1>3. Max(W) \in W /\ \A x \in W : x <= Max(W)
    BY <1>1, <1>2, MaxIs
  <1>4. ASSUME NEW w, LastWriter(w, r, n)
        PROVE  w = Max(W)
    <2>1. w \in W /\ w <= Max(W) /\ Max(W) <= w
      BY <1>3, <1>4 DEF LastWriter
    <2>2. w \in Int /\ Max(W) \in Int
      BY <1>2, <1>3, <2>1
    <2> QED BY <2>1, <2>2
  <1> QED BY <1>1, <1>3, <1>4 DEF LastWriter

LEMMA FollowsIs ==
    ASSUME RingShaped, NEW o, NEW r, NEW n, Tracks(o, r, n)
    PROVE  Follows(o, r, n)
  <1>1. CASE r = NoReg \/ WritersBefore(r, n) = {}
    BY <1>1 DEF Tracks, Follows
  <1>2. CASE ~(r = NoReg \/ WritersBefore(r, n) = {})
    <2> DEFINE w == Max(WritersBefore(r, n))
    <2>1. w \in Live /\ LastWriter(w, r, n)
      BY <1>2, WritersLast
    <2>2. /\ o.ready = InFlight[w].ready
          /\ InFlight[w].ready \/ o.tag = InFlight[w].tag
      BY <1>2, <2>1 DEF Tracks
    <2> HIDE DEF w
    <2> QED BY <1>2, <2>2 DEF Follows, w
  <1> QED BY <1>1, <1>2

\* A scheduling entry and its place among the live entries.
LEMMA EntryPlaced ==
    ASSUME OrderInv, NEW e \in sq
    PROVE  \E i \in Live : /\ StandsFor(e, i) /\ ~InFlight[i].ready
                           /\ InFlight[i].inst = e.inst /\ InFlight[i].tag = e.tag
                           /\ e.inst.n = retired + i /\ e.tag = NumRegs + retired + i
  <1>1. PICK i \in Live : StandsFor(e, i)
    BY DEF OrderInv, SchedPlaced
  <1>2. InFlight[i] = [ready |-> FALSE, tag |-> e.tag, inst |-> e.inst]
    BY <1>1 DEF StandsFor
  <1> QED BY <1>1, <1>2 DEF OrderInv, LiveNumbered

\* Numbers and tags tell live entries apart; all are older than the queue.
LEMMA LiveApart ==
    ASSUME OrderInv
    PROVE  /\ Live \subseteq Nat \ {0} /\ rob.count \in Nat /\ retired \in Nat /\ NumRegs \in Nat
           /\ \A i, j \in Live : InFlight[i].tag = InFlight[j].tag => i = j
           /\ \A i, j \in Live : InFlight[i].inst.n < InFlight[j].inst.n <=> i < j
           /\ \A i \in Live : /\ InFlight[i].inst.n \in Nat
                              /\ InFlight[i].inst.n < dynCount + 1
                              /\ InFlight[i].inst.n < retired + rob.count + 1
                              /\ InFlight[i].inst \in InstType
                              /\ InFlight[i].tag \in TagType
                              /\ InFlight[i].ready \in BOOLEAN
  <1>1. rob.count \in Nat /\ retired \in Nat /\ NumRegs \in Nat
    BY RingFields, Sizes DEF OrderInv, RingShaped
  <1>2. Live \subseteq Nat \ {0}
    BY <1>1 DEF Live
  <1>3. Len(dispq) \in Nat /\ dynCount = retired + rob.count + Len(dispq)
    BY DEF OrderInv, QueueNumbered, RingShaped
  <1>4. \A i \in Live : InFlight[i].inst.n = retired + i /\ InFlight[i].tag = NumRegs + retired + i
    BY DEF OrderInv, LiveNumbered
  <1>5. \A i \in Live : i <= rob.count
    BY <1>1 DEF Live
  <1>6. \A i, j \in Live : InFlight[i].tag = InFlight[j].tag => i = j
    BY <1>1, <1>2, <1>4
  <1>7. \A i, j \in Live : InFlight[i].inst.n < InFlight[j].inst.n <=> i < j
    BY <1>1, <1>2, <1>4
  <1>8. \A i \in Live : /\ InFlight[i].inst.n \in Nat /\ InFlight[i].inst.n < dynCount + 1
                        /\ InFlight[i].inst.n < retired + rob.count + 1
    BY <1>1, <1>2, <1>3, <1>4, <1>5, SMTT(30)
  <1>9. \A i \in Live : /\ InFlight[i].inst \in InstType
                        /\ InFlight[i].tag \in TagType /\ InFlight[i].ready \in BOOLEAN
    BY DEF OrderInv, LiveNumbered, RobEntries
  <1> QED BY <1>1, <1>2, <1>6, <1>7, <1>8, <1>9

\* Completion: the live entries with these tags become ready, nothing moves.
LEMMA ExecView ==
    ASSUME OrderInv, NEW tags, tags \subseteq Tags(sq), WriteBack(tags)
    PROVE  /\ rob' \in RobType /\ Live' = Live
           /\ UNCHANGED <<rob.head, rob.tail, rob.count>>
           /\ \A i : SlotAt(i)' = SlotAt(i)
           /\ \A i \in Live : InFlight'[i] = [InFlight[i] EXCEPT !.ready = @ \/ InFlight[i].tag \in tags]
  <1> USE DEF OrderInv
  <1> DEFINE hit(i) == \E e \in sq : e.tag \in tags /\ e.slot = i
  <1>1. /\ rob.slot \in [0 .. RobSize - 1 -> SlotType] /\ rob.head \in 0 .. RobSize - 1
        /\ rob.tail \in 0 .. RobSize - 1 /\ rob.count \in 0 .. RobSize
        /\ rob = [slot |-> rob.slot, head |-> rob.head, tail |-> rob.tail,
                  count |-> rob.count]
    BY RingFields
  <1>2. /\ rob'.slot = [i \in DOMAIN rob.slot |->
                          IF hit(i) THEN [rob.slot[i] EXCEPT !.ready = TRUE] ELSE rob.slot[i]]
        /\ UNCHANGED <<rob.head, rob.tail, rob.count>>
        /\ rob' = [slot |-> rob'.slot, head |-> rob'.head, tail |-> rob'.tail,
                   count |-> rob'.count]
    BY <1>1 DEF WriteBack
  <1> HIDE DEF hit
  <1>3. Live' = Live /\ \A i : SlotAt(i)' = SlotAt(i)
    BY <1>2 DEF Live, SlotAt, Around
  <1>4. ASSUME NEW i \in Live
        PROVE  /\ hit(SlotAt(i)) <=> ~InFlight[i].ready /\ InFlight[i].tag \in tags
               /\ InFlight[i].tag \in tags => ~InFlight[i].ready
               /\ SlotAt(i) \in 0 .. RobSize - 1 /\ InFlight[i] = rob.slot[SlotAt(i)]
               /\ InFlight[i] \in RobEntries
    <2>1. /\ SlotAt(i) \in 0 .. RobSize - 1 /\ InFlight[i] = rob.slot[SlotAt(i)]
          /\ InFlight[i] \in RobEntries
      BY SlotsApart DEF LiveNumbered
    <2>2. ASSUME hit(SlotAt(i))
          PROVE  ~InFlight[i].ready /\ InFlight[i].tag \in tags
      <3>1. PICK e \in sq : e.tag \in tags /\ e.slot = SlotAt(i)
        BY <2>2 DEF hit
      <3>2. PICK j \in Live : StandsFor(e, j) /\ ~InFlight[j].ready /\ InFlight[j].tag = e.tag
        BY EntryPlaced
      <3>3. j = i
        BY <3>1, <3>2, SlotsApart DEF StandsFor
      <3> QED BY <3>1, <3>2, <3>3
    <2>3. ASSUME InFlight[i].tag \in tags
          PROVE  hit(SlotAt(i)) /\ ~InFlight[i].ready
      <3>1. PICK e \in sq : e.tag = InFlight[i].tag
        BY <2>3 DEF Tags
      <3>2. PICK j \in Live : StandsFor(e, j) /\ ~InFlight[j].ready /\ InFlight[j].tag = e.tag
        BY EntryPlaced
      <3>3. j = i
        BY <3>1, <3>2, LiveApart
      <3> QED BY <2>3, <3>1, <3>2, <3>3 DEF hit, StandsFor
    <2> QED BY <2>1, <2>2, <2>3
  <1>5. rob'.slot \in [0 .. RobSize - 1 -> SlotType]
    <2>1. ASSUME NEW i \in 0 .. RobSize - 1
          PROVE  rob'.slot[i] \in SlotType
      <3>1. rob'.slot[i] = IF hit(i) THEN [rob.slot[i] EXCEPT !.ready = TRUE] ELSE rob.slot[i]
        BY <1>1, <1>2
      <3>2. CASE hit(i)
        <4>1. PICK e \in sq : e.tag \in tags /\ e.slot = i
          BY <3>2 DEF hit
        <4>2. PICK j \in Live : StandsFor(e, j)
          BY EntryPlaced
        <4>3. rob.slot[i] \in RobEntries
          BY <1>4, <4>1, <4>2 DEF StandsFor
        <4>4. [rob.slot[i] EXCEPT !.ready = TRUE] \in RobEntries
          BY <4>3 DEF RobEntries
        <4> QED BY <3>1, <3>2, <4>4 DEF SlotType, RobEntries
      <3>3. CASE ~hit(i)
        BY <1>1, <3>1, <3>3
      <3> QED BY <3>2, <3>3
    <2> QED BY <1>1, <1>2, <2>1
  <1>6. rob' \in RobType
    BY <1>1, <1>2, <1>5 DEF RobType
  <1>7. ASSUME NEW i \in Live
        PROVE  InFlight'[i] = [InFlight[i] EXCEPT !.ready = @ \/ InFlight[i].tag \in tags]
    <2>1. InFlight'[i] = rob'.slot[SlotAt(i)]
      BY <1>3, <1>6, SlotsAfter
    <2>2. rob'.slot[SlotAt(i)] = IF hit(SlotAt(i)) THEN [InFlight[i] EXCEPT !.ready = TRUE]
                                 ELSE InFlight[i]
      BY <1>1, <1>2, <1>4
    <2>3. InFlight[i] = [ready |-> InFlight[i].ready, tag |-> InFlight[i].tag,
                         inst |-> InFlight[i].inst] /\ InFlight[i].ready \in BOOLEAN
      BY <1>4 DEF RobEntries
    <2> QED BY <1>4, <2>1, <2>2, <2>3
  <1> QED BY <1>2, <1>3, <1>6, <1>7

-----------------------------------------------------------------------------
(* One lemma for each kind of step.                                        *)

LEMMA InitOrderInv == Init => OrderInv
  <1> SUFFICES ASSUME Init PROVE OrderInv
    OBVIOUS
  <1>1. /\ dispq = <<>> /\ sq = {} /\ nextTag = NumRegs + 1 /\ dynCount = 0 /\ retired = 0
        /\ alu = {} /\ mul = <<{}, {}, {}>> /\ lsu = {} /\ inMispred = FALSE
        /\ rob = [slot |-> [i \in 0 .. RobSize - 1 |-> EmptySlot], head |-> 0, tail |-> 0,
                  count |-> 0]
        /\ rat = [r \in Regs |-> [tag |-> r, ready |-> TRUE]]
    BY DEF Init
  <1>2. RobSize \in Nat \ {0} /\ NumRegs \in Nat \ {0} /\ MaxFetch \in Nat /\ DispqCap \in Nat \ {0}
    BY Sizes
  <1>3. Live = {}
    BY <1>1 DEF Live
  <1>4. RingShaped
    <2>1. rob.slot \in [0 .. RobSize - 1 -> SlotType]
      BY <1>1 DEF SlotType
    <2>2. 0 \in 0 .. RobSize - 1 /\ 0 \in 0 .. RobSize
      BY <1>2
    <2>3. rob \in RobType
      BY <1>1, <2>1, <2>2 DEF RobType
    <2>4. Around(0) = 0
      BY <2>2, <1>2, Wrapped
    <2>5. rob.tail = Around(rob.head + rob.count)
      BY <1>1, <2>4
    <2>6. Len(dispq) = 0 /\ rob.count = 0
      BY <1>1
    <2> QED BY <1>1, <1>2, <2>3, <2>5, <2>6 DEF RingShaped
  <1>5. LiveNumbered /\ QueueNumbered /\ SchedPlaced /\ UnitsBooked /\ BranchLast /\ Serialised
    <2>1. DOMAIN dispq = {} /\ Len(dispq) = 0 /\ dispq \in Seq(InstType)
      BY <1>1
    <2>2. mul[1] = {} /\ mul[2] = {} /\ mul[3] = {}
      BY <1>1
    <2>3. QueueNumbered /\ BranchLast
      <3>1. inMispred = FALSE /\ Len(dispq) <= DispqCap
        BY <1>1, <1>2, <2>1
      <3>2. QueueNumbered
        BY <2>1, <3>1 DEF QueueNumbered
      <3>3. BranchLast
        BY <1>3, <2>1, <3>1 DEF BranchLast
      <3> QED BY <3>2, <3>3
    <2>4. UnitsBooked
      BY <1>1, <2>2 DEF UnitsBooked, Tags, InUnits
    <2> QED BY <1>1, <1>3, <2>3, <2>4 DEF LiveNumbered, SchedPlaced, Serialised
  <1>6. Renamed
    <2>1. rat \in [Regs -> RatType]
      BY <1>1, <1>2 DEF Regs, RatType, TagType
    <2>2. \A r \in Regs : Tracks(rat[r], r, dynCount + 1)
      BY <1>1, <1>3 DEF Tracks
    <2> QED BY <1>1, <2>1, <2>2 DEF Renamed
  <1> QED BY <1>4, <1>5, <1>6 DEF OrderInv

\* The steps that end a stage, and the answers of the cache.
LEMMA FrameKeepsOrder ==
    ASSUME OrderInv,
           UNCHANGED <<window, alu, mul, lsu, inMispred, dynCount, retired>>
    PROVE  OrderInv'
  <1>1. UNCHANGED <<dispq, sq, rob, rat, nextTag>>
    BY DEF window
  <1>2. /\ Live' = Live /\ InFlight' = InFlight /\ \A i : SlotAt(i)' = SlotAt(i)
        /\ \A r, n : WritersBefore(r, n)' = WritersBefore(r, n)
        /\ \A w, r, n : LastWriter(w, r, n)' = LastWriter(w, r, n)
    BY <1>1, SameView
  <1>3. RingShaped' /\ LiveNumbered' /\ QueueNumbered' /\ UnitsBooked' /\ BranchLast' /\ Serialised'
    BY <1>1, <1>2 DEF OrderInv, RingShaped, Around, LiveNumbered, QueueNumbered,
                      UnitsBooked, Tags, InUnits, BranchLast, Serialised, MemoryPair
  <1>4. SchedPlaced'
    BY <1>1, <1>2 DEF OrderInv, SchedPlaced, StandsFor, Tags
  <1>5. Renamed'
    <2>1. ASSUME NEW e \in sq', NEW i \in 1 .. 2
          PROVE  Tracks(e.src[i], e.inst.src[i], e.inst.n)'
      <3>0. e \in sq
        BY <1>1
      <3>1. Tracks(e.src[i], e.inst.src[i], e.inst.n)
        BY <3>0, Zenon DEF OrderInv, Renamed
      <3> QED BY <1>2, <3>1 DEF Tracks
    <2>2. ASSUME NEW r \in Regs
          PROVE  Tracks(rat[r], r, dynCount + 1)'
      <3>1. Tracks(rat[r], r, dynCount + 1)
        BY DEF OrderInv, Renamed
      <3> QED BY <1>1, <3>1, Zenon DEF Tracks, LastWriter, WritersBefore, InFlight, Live
    <2> QED BY <1>1, <2>1, <2>2 DEF OrderInv, Renamed
  <1> QED BY <1>3, <1>4, <1>5 DEF OrderInv

\* An operand follows its producer through retirement: what retires is ready.
LEMMA TracksRetired ==
    ASSUME RingShaped, NEW k \in 0 .. rob.count, rob' = RetireHeads(rob, k),
           \A i \in 1 .. k : InFlight[i].ready,
           NEW o, NEW r, NEW n, Tracks(o, r, n)
    PROVE  /\ (r = NoReg \/ WritersBefore(r, n)' = {}) => o.ready
           /\ \A w \in Live' : r # NoReg /\ LastWriter(w, r, n)' =>
                /\ o.ready = InFlight'[w].ready
                /\ InFlight'[w].ready \/ o.tag = InFlight'[w].tag
  <1>1. /\ rob.count \in Nat /\ k \in Nat /\ Live \subseteq Nat
        /\ \A i \in Live : i > k \/ i \in 1 .. k
    BY RingFields DEF Live
  <1>2. /\ \A i \in Live' : i + k \in Live /\ InFlight'[i] = InFlight[i + k] /\ i \in Nat
        /\ \A i \in Live : i > k => i - k \in Live'
    BY RetireView, RingFields DEF Live
  <1>3. WritersBefore(r, n) \subseteq Live
    BY DEF WritersBefore, Live
  <1>4. \A i \in Live' : i \in WritersBefore(r, n)' <=> i + k \in WritersBefore(r, n)
    BY <1>2 DEF WritersBefore, Live
  <1>5. \A i \in WritersBefore(r, n) : i > k => i - k \in WritersBefore(r, n)' /\ i - k \in Live'
    <2>1. ASSUME NEW i \in WritersBefore(r, n), i > k
          PROVE  i - k \in WritersBefore(r, n)' /\ i - k \in Live'
      <3>1. i \in Live /\ i \in Nat
        BY <1>1, <1>3
      <3>2. i - k \in Live'
        BY <1>2, <2>1, <3>1
      <3>3. (i - k) + k = i
        BY <1>1, <3>1
      <3> QED BY <1>4, <3>2, <3>3
    <2> QED BY <2>1
  <1>6. CASE r = NoReg
    BY <1>6 DEF Tracks
  <1>7. ASSUME WritersBefore(r, n)' = {}, r # NoReg
        PROVE  o.ready
    <2>1. CASE WritersBefore(r, n) = {}
      BY <2>1 DEF Tracks
    <2>2. CASE WritersBefore(r, n) # {}
      <3> DEFINE w == Max(WritersBefore(r, n))
      <3>1. w \in Live /\ LastWriter(w, r, n)
        BY <2>2, WritersLast
      <3>2. w \in WritersBefore(r, n)
        BY <3>1 DEF LastWriter
      <3> HIDE DEF w
      <3>3. ~(w > k)
        BY <1>5, <1>7, <3>2
      <3>4. InFlight[w].ready
        BY <1>1, <3>1, <3>3
      <3> QED BY <1>7, <3>1, <3>4 DEF Tracks
    <2> QED BY <2>1, <2>2
  <1>8. ASSUME NEW w \in Live', r # NoReg, LastWriter(w, r, n)'
        PROVE  /\ o.ready = InFlight'[w].ready
               /\ InFlight'[w].ready \/ o.tag = InFlight'[w].tag
    <2>1. /\ w \in WritersBefore(r, n)' /\ \A x \in WritersBefore(r, n)' : x <= w
      BY <1>8 DEF LastWriter
    <2>2. w + k \in WritersBefore(r, n)
      BY <1>4, <2>1
    <2>3. ASSUME NEW x \in WritersBefore(r, n)
          PROVE  x <= w + k
      <3>1. x \in Nat /\ w \in Nat /\ (x > k => x - k <= w)
        BY <1>1, <1>2, <1>3, <1>5, <2>1
      <3> QED BY <1>1, <3>1
    <2>4. LastWriter(w + k, r, n)
      BY <2>2, <2>3 DEF LastWriter
    <2> QED BY <1>2, <1>8, <2>4 DEF Tracks
  <1> QED BY <1>6, <1>7, <1>8

LEMMA RetireKeepsOrder == ASSUME OrderInv, Retire PROVE OrderInv'
  <1>0. PICK k : k = Retirable
    OBVIOUS
  <1>1. /\ k \in 0 .. rob.count /\ \A i \in 1 .. k : InFlight[i].ready
    BY <1>0, RetirableIs DEF OrderInv
  <1>2. /\ rob' = RetireHeads(rob, k) /\ retired' = retired + k
        /\ UNCHANGED <<dispq, sq, nextTag, alu, mul, lsu, dynCount>>
        /\ \/ /\ k > 0 /\ Mispredicted(InFlight[k])
              /\ rat' = FlushToReady /\ inMispred' = FALSE
           \/ UNCHANGED <<rat, inMispred>>
    BY <1>0 DEF Retire, units
  <1>3. RingShaped
    BY DEF OrderInv
  <1>4. /\ rob.count \in Nat /\ k \in Nat /\ retired \in Nat /\ Live \subseteq Nat
        /\ \A i \in Live : i > k \/ i \in 1 .. k
        /\ \A i \in Live : i <= rob.count
    BY <1>1, RingFields DEF Live, OrderInv, RingShaped
  <1>5. /\ rob' \in RobType
        /\ rob'.tail = Around(rob'.head + rob'.count)
        /\ rob'.count = rob.count - k
        /\ \A i \in Live' : /\ i + k \in Live /\ SlotAt(i)' = SlotAt(i + k)
                            /\ InFlight'[i] = InFlight[i + k]
        /\ \A i \in Live : i > k => i - k \in Live'
    BY <1>1, <1>2, <1>3, RetireView
  <1>6. \A i \in Live' : i \in Nat
    BY <1>4, <1>5 DEF Live
  <1>7. RingShaped'
    <2>1. /\ dynCount = retired + rob.count + Len(dispq) /\ Len(dispq) \in Nat
          /\ nextTag = NumRegs + 1 + retired + rob.count /\ NumRegs \in Nat
      BY Sizes DEF OrderInv, RingShaped, QueueNumbered
    <2>2. /\ retired' = retired + k /\ rob'.count = rob.count - k /\ dynCount' = dynCount
          /\ dispq' = dispq /\ nextTag' = nextTag
      BY <1>2, <1>5
    <2>3. /\ retired' \in Nat /\ dynCount' = retired' + rob'.count + Len(dispq')
          /\ nextTag' = NumRegs + 1 + retired' + rob'.count
      BY <1>4, <2>1, <2>2
    <2>4. rob'.tail = (rob'.head + rob'.count) % RobSize
      BY <1>5 DEF Around
    <2> QED BY <1>5, <2>2, <2>3, <2>4 DEF OrderInv, RingShaped, Around
  <1>8. LiveNumbered'
    <2>1. ASSUME NEW i \in Live'
          PROVE  /\ InFlight'[i] \in RobEntries
                 /\ InFlight'[i].inst.n = retired' + i
                 /\ InFlight'[i].tag = NumRegs + retired' + i
      <3>1. /\ i + k \in Live /\ InFlight'[i] = InFlight[i + k] /\ i \in Nat
        BY <1>5, <1>6
      <3>2. /\ InFlight'[i] \in RobEntries /\ InFlight'[i].inst.n = retired + (i + k)
            /\ InFlight'[i].tag = NumRegs + retired + (i + k)
        BY <3>1 DEF OrderInv, LiveNumbered
      <3> QED BY <1>2, <1>4, <3>1, <3>2, Sizes
    <2> QED BY <2>1 DEF LiveNumbered, RobEntries
  <1>9. QueueNumbered'
    <2>1. retired' + rob'.count = retired + rob.count
      BY <1>2, <1>4, <1>5
    <2> QED BY <1>2, <2>1 DEF OrderInv, QueueNumbered
  <1>10. ASSUME NEW e \in sq
         PROVE  \E i \in Live' : StandsFor(e, i)'
    <2>1. PICK j \in Live : StandsFor(e, j) /\ ~InFlight[j].ready
      BY EntryPlaced
    <2>2. j > k /\ j - k \in Live'
      BY <1>1, <1>4, <1>5, <2>1
    <2>3. (j - k) + k = j
      BY <1>4, <2>1
    <2>4. SlotAt(j - k)' = SlotAt(j) /\ InFlight'[j - k] = InFlight[j]
      <3>1. SlotAt(j - k)' = SlotAt((j - k) + k) /\ InFlight'[j - k] = InFlight[(j - k) + k]
        BY <1>5, <2>2
      <3> QED BY <2>3, <3>1
    <2>5. StandsFor(e, j - k)'
      BY <2>1, <2>4 DEF StandsFor
    <2> QED BY <2>2, <2>5
  <1>11. SchedPlaced'
    <2>1. \A i \in Live' : InFlight'[i].ready \/ InFlight'[i].tag \in Tags(sq)
      BY <1>5 DEF OrderInv, SchedPlaced
    <2>2. Tags(sq)' = Tags(sq)
      BY <1>2 DEF Tags
    <2> QED BY <1>2, <1>10, <2>1, <2>2 DEF OrderInv, SchedPlaced
  <1>12. UnitsBooked'
    BY <1>2 DEF OrderInv, UnitsBooked, InUnits, Tags
  <1>13. CASE k > 0 /\ Mispredicted(InFlight[k]) /\ rat' = FlushToReady /\ inMispred' = FALSE
    <2>1. k \in Live
      BY <1>1, <1>13 DEF Live
    <2>2. k = rob.count /\ dispq = <<>>
      BY <1>13, <2>1 DEF OrderInv, BranchLast, Mispredicted
    <2>3. Live' = {}
      BY <1>4, <1>5, <2>2 DEF Live
    <2>4. sq = {}
      BY <1>10, <2>3
    <2>5. BranchLast' /\ Serialised'
      <3>1. dispq' = <<>> /\ DOMAIN dispq' = {}
        BY <1>2, <2>2
      <3> QED BY <1>13, <2>3, <3>1 DEF BranchLast, Serialised
    <2>6. rat' \in [Regs -> RatType] /\ \A r \in Regs : rat'[r].ready
      BY <1>13 DEF OrderInv, Renamed, FlushToReady, RatType
    <2>7. Renamed'
      BY <1>2, <2>3, <2>4, <2>6 DEF Renamed, Tracks
    <2> QED BY <1>7, <1>8, <1>9, <1>11, <1>12, <2>5, <2>7 DEF OrderInv
  <1>14. CASE UNCHANGED <<rat, inMispred>>
    <2>1. BranchLast'
      <3>1. ASSUME NEW i \in Live', InFlight'[i].inst.op = "Branch", InFlight'[i].inst.mispredict
            PROVE  i = rob'.count /\ dispq' = <<>> /\ inMispred'
        <4>1. i + k \in Live /\ InFlight'[i] = InFlight[i + k] /\ i \in Nat
          BY <1>5, <1>6
        <4>2. i + k = rob.count /\ dispq = <<>> /\ inMispred
          BY <3>1, <4>1 DEF OrderInv, BranchLast
        <4> QED BY <1>2, <1>4, <1>5, <1>14, <4>1, <4>2
      <3> QED BY <1>2, <1>14, <3>1 DEF OrderInv, BranchLast
    <2>2. Serialised'
      <3>1. ASSUME NEW i \in Live', NEW j \in Live', MemoryPair(i, j)',
                   InFlight'[j].ready \/ InFlight'[j].tag \in lsu'
            PROVE  InFlight'[i].ready
        <4>1. /\ i + k \in Live /\ InFlight'[i] = InFlight[i + k] /\ i \in Nat
              /\ j + k \in Live /\ InFlight'[j] = InFlight[j + k] /\ j \in Nat
          BY <1>5, <1>6
        <4>2. i + k < j + k
          BY <1>4, <3>1, <4>1 DEF MemoryPair
        <4>3. MemoryPair(i + k, j + k)
          BY <3>1, <4>1, <4>2 DEF MemoryPair
        <4> QED BY <1>2, <3>1, <4>1, <4>3 DEF OrderInv, Serialised
      <3> QED BY <3>1 DEF Serialised
    <2>3. Renamed'
      <3>1. ASSUME NEW o, NEW r, NEW n, Tracks(o, r, n)
            PROVE  /\ (r = NoReg \/ WritersBefore(r, n)' = {}) => o.ready
                   /\ \A w \in Live' : r # NoReg /\ LastWriter(w, r, n)' =>
                        /\ o.ready = InFlight'[w].ready
                        /\ InFlight'[w].ready \/ o.tag = InFlight'[w].tag
        BY <1>1, <1>2, <1>3, <3>1, TracksRetired
      <3>2. ASSUME NEW e \in sq', NEW i \in 1 .. 2
            PROVE  Tracks(e.src[i], e.inst.src[i], e.inst.n)'
        <4>1. Tracks(e.src[i], e.inst.src[i], e.inst.n)
          BY <1>2 DEF OrderInv, Renamed
        <4> QED BY <3>1, <4>1 DEF Tracks
      <3>3. ASSUME NEW r \in Regs
            PROVE  Tracks(rat[r], r, dynCount + 1)'
        <4>0. PICK o, n : o = rat[r] /\ n = dynCount + 1
          OBVIOUS
        <4>1. Tracks(o, r, n) /\ rat'[r] = o /\ dynCount' + 1 = n
          BY <1>2, <1>14, <4>0 DEF OrderInv, Renamed
        <4>2. /\ (r = NoReg \/ WritersBefore(r, n)' = {}) => o.ready
              /\ \A w \in Live' : r # NoReg /\ LastWriter(w, r, n)' =>
                   /\ o.ready = InFlight'[w].ready
                   /\ InFlight'[w].ready \/ o.tag = InFlight'[w].tag
          BY <3>1, <4>1
        <4> QED BY <4>1, <4>2 DEF Tracks, LastWriter, WritersBefore
      <3> QED BY <1>2, <1>14, <3>2, <3>3 DEF OrderInv, Renamed
    <2> QED BY <1>7, <1>8, <1>9, <1>11, <1>12, <2>1, <2>2, <2>3 DEF OrderInv
  <1> QED BY <1>2, <1>13, <1>14

\* What the LSUs hold is not in another unit, and names a memory operation.
LEMMA LsuApart ==
    ASSUME LsuInv, OrderInv
    PROVE  /\ lsu \cap (alu \cup mul[1] \cup mul[2] \cup mul[3]) = {}
           /\ \A i \in Live : /\ InFlight[i].inst.op \in {"Load", "Store"}
                              /\ InFlight[i].tag \in InUnits
                              => InFlight[i].tag \in lsu
           /\ InUnits \subseteq Tags(sq)
  <1>1. lsu \cap (alu \cup mul[1] \cup mul[2] \cup mul[3]) = {}
    <2>1. SUFFICES ASSUME NEW t \in lsu, t \in alu \cup mul[1] \cup mul[2] \cup mul[3]
                   PROVE  FALSE
      OBVIOUS
    <2>2. PICK e \in sq : e.tag = t
      BY DEF LsuInv, LsuBooked, Tags
    <2>3. IsMemory(e)
      BY <2>2 DEF LsuInv, LsuAlone
    <2> QED BY <2>1, <2>2, <2>3 DEF LsuInv, UnitsTyped
  <1>2. InUnits \subseteq Tags(sq)
    BY DEF OrderInv, UnitsBooked, Tags
  <1>3. ASSUME NEW i \in Live, InFlight[i].inst.op \in {"Load", "Store"}, InFlight[i].tag \in InUnits
        PROVE  InFlight[i].tag \in lsu
    <2>1. PICK e \in sq : e.tag = InFlight[i].tag
      BY <1>2, <1>3 DEF Tags
    <2>2. PICK j \in Live : InFlight[j].inst = e.inst /\ InFlight[j].tag = e.tag
      BY EntryPlaced
    <2>3. j = i
      BY <2>1, <2>2, LiveApart
    <2>4. IsMemory(e)
      BY <1>3, <2>2, <2>3 DEF IsMemory, IsLoad, IsStore
    <2> QED BY <1>3, <2>1, <2>4 DEF InUnits, LsuInv, UnitsTyped
  <1> QED BY <1>1, <1>2, <1>3

\* What a set of results makes of an operand.
Completes(p, o, tags) == p.ready = (o.ready \/ o.tag \in tags) /\ p.tag = o.tag

LEMMA ExecKeepsOrder == ASSUME LsuInv, OrderInv, Exec PROVE OrderInv'
  <1>0. PICK tags : tags = alu \cup mul[3] \cup Answered
    OBVIOUS
  <1>1. /\ WriteBack(tags)
        /\ alu' = {} /\ mul' = <<{}, mul[1], mul[2]>> /\ lsu' = lsu \ Answered
        /\ UNCHANGED <<dispq, nextTag, inMispred, dynCount, retired>>
    BY <1>0 DEF Exec, front
  <1>2. tags \subseteq InUnits /\ tags \subseteq Tags(sq) /\ Answered \subseteq lsu
    BY <1>0, LsuApart DEF Answered, InUnits
  <1>3. /\ rob' \in RobType /\ Live' = Live
        /\ UNCHANGED <<rob.head, rob.tail, rob.count>>
        /\ \A i : SlotAt(i)' = SlotAt(i)
        /\ \A i \in Live : InFlight'[i] = [InFlight[i] EXCEPT !.ready = @ \/ InFlight[i].tag \in tags]
    BY <1>1, <1>2, ExecView
  <1>4. \A i \in Live : /\ InFlight'[i] \in RobEntries
                        /\ InFlight'[i].inst = InFlight[i].inst /\ InFlight'[i].tag = InFlight[i].tag
                        /\ InFlight'[i].ready = (InFlight[i].ready \/ InFlight[i].tag \in tags)
                        /\ ~InFlight[i].ready /\ InFlight[i].tag \notin tags => InFlight'[i] = InFlight[i]
    <2>1. ASSUME NEW f \in RobEntries, NEW g, g = [f EXCEPT !.ready = @ \/ f.tag \in tags]
          PROVE  /\ g \in RobEntries /\ g.inst = f.inst /\ g.tag = f.tag
                 /\ g.ready = (f.ready \/ f.tag \in tags)
                 /\ ~f.ready /\ f.tag \notin tags => g = f
      BY <2>1 DEF RobEntries
    <2>2. \A i \in Live : InFlight[i] \in RobEntries
      BY DEF OrderInv, LiveNumbered
    <2> QED BY <1>3, <2>1, <2>2
  <1>5. \A w, r, n : WritersBefore(r, n)' = WritersBefore(r, n)
                     /\ LastWriter(w, r, n)' = LastWriter(w, r, n)
    BY <1>3, <1>4 DEF WritersBefore, LastWriter, Live
  <1>6. RingShaped'
    BY <1>1, <1>3 DEF OrderInv, RingShaped, Around
  <1>7. LiveNumbered' /\ QueueNumbered' /\ BranchLast'
    BY <1>1, <1>3, <1>4 DEF OrderInv, LiveNumbered, RobEntries, QueueNumbered, BranchLast
  <1>8. \A f \in sq' : \E e \in sq : /\ e.tag \notin tags /\ f = Wake(e, tags)
                                     /\ f.tag = e.tag /\ f.inst = e.inst /\ f.slot = e.slot
                                     /\ f.busy = e.busy
    BY <1>1 DEF WriteBack, Wake, OrderInv, SchedPlaced, SchedType
  <1>9. \A e \in sq : e.tag \notin tags => /\ Wake(e, tags) \in sq' /\ Wake(e, tags).tag = e.tag
                                           /\ Wake(e, tags).busy = e.busy
    BY <1>1 DEF WriteBack, Wake, OrderInv, SchedPlaced, SchedType
  <1>10. \A e \in sq, i \in 1 .. 2 :
            Wake(e, tags) \in SchedType /\ Completes(Wake(e, tags).src[i], e.src[i], tags)
    <2>1. ASSUME NEW e \in sq
          PROVE  /\ Wake(e, tags) \in SchedType
                 /\ \A i \in 1 .. 2 : Completes(Wake(e, tags).src[i], e.src[i], tags)
      <3> DEFINE p == [i \in 1 .. 2 |-> [e.src[i] EXCEPT !.ready = @ \/ e.src[i].tag \in tags]]
      <3>1. e \in SchedType
        BY DEF OrderInv, SchedPlaced
      <3>2. \A i \in 1 .. 2 : e.src[i] \in RatType
        BY <3>1 DEF SchedType
      <3>3. \A i \in 1 .. 2 : p[i] \in RatType /\ Completes(p[i], e.src[i], tags)
        BY <3>2 DEF RatType, Completes
      <3>4. p \in [1 .. 2 -> RatType]
        BY <3>3
      <3>5. Wake(e, tags) = [e EXCEPT !.src = p]
        BY DEF Wake
      <3> HIDE DEF p
      <3>6. Wake(e, tags) \in SchedType
        BY <3>1, <3>4, <3>5 DEF SchedType
      <3>7. Wake(e, tags).src = p
        BY <3>1, <3>5 DEF SchedType
      <3> QED BY <3>3, <3>6, <3>7
    <2> QED BY <2>1
  <1>11. SchedPlaced'
    <2>1. sq' \in SUBSET SchedType
      BY <1>8, <1>10
    <2>2. ASSUME NEW f \in sq'
          PROVE  \E i \in Live' : StandsFor(f, i)'
      <3>1. PICK e \in sq : e.tag \notin tags /\ f.tag = e.tag /\ f.inst = e.inst /\ f.slot = e.slot
        BY <1>8
      <3>2. PICK i \in Live : StandsFor(e, i) /\ ~InFlight[i].ready /\ InFlight[i].tag = e.tag
        BY EntryPlaced
      <3>3. InFlight'[i] = InFlight[i] /\ SlotAt(i)' = SlotAt(i)
        BY <1>3, <1>4, <3>1, <3>2
      <3>4. StandsFor(f, i)'
        BY <3>1, <3>2, <3>3 DEF StandsFor
      <3> QED BY <1>3, <3>4
    <2>3. ASSUME NEW i \in Live'
          PROVE  InFlight'[i].ready \/ InFlight'[i].tag \in Tags(sq')
      <3>1. i \in Live
        BY <1>3
      <3>2. CASE InFlight[i].ready \/ InFlight[i].tag \in tags
        BY <1>4, <3>1, <3>2
      <3>3. CASE ~InFlight[i].ready /\ InFlight[i].tag \notin tags
        <4>1. PICK e \in sq : e.tag = InFlight[i].tag
          BY <3>1, <3>3 DEF OrderInv, SchedPlaced, Tags
        <4>2. Wake(e, tags) \in sq' /\ Wake(e, tags).tag = InFlight'[i].tag
          BY <1>4, <1>9, <3>1, <3>3, <4>1
        <4> QED BY <4>2 DEF Tags
      <3> QED BY <3>2, <3>3
    <2> QED BY <2>1, <2>2, <2>3 DEF SchedPlaced, Tags
  <1>12. UnitsBooked'
    <2>1. mul'[1] = {} /\ mul'[2] = mul[1] /\ mul'[3] = mul[2]
      BY <1>1
    <2>2. /\ lsu \cap (alu \cup mul[1] \cup mul[2] \cup mul[3]) = {}
          /\ alu \cap (mul[1] \cup mul[2] \cup mul[3]) = {}
          /\ mul[1] \cap (mul[2] \cup mul[3]) = {} /\ mul[2] \cap mul[3] = {}
      BY LsuApart DEF OrderInv, UnitsBooked
    <2>3. InUnits' = InUnits \ tags
      BY <1>0, <1>1, <1>2, <2>1, <2>2 DEF InUnits
    <2>4. ASSUME NEW t
          PROVE  t \in Tags({f \in sq' : f.busy}) <=> t \in Tags({e \in sq : e.busy}) /\ t \notin tags
      BY <1>8, <1>9 DEF Tags
    <2>5. Tags({e \in sq : e.busy}) = InUnits
      BY DEF OrderInv, UnitsBooked
    <2>6. Tags({f \in sq' : f.busy}) = InUnits'
      BY <2>3, <2>4, <2>5
    <2>7. mul'[1] \cap (mul'[2] \cup mul'[3]) = {} /\ mul'[2] \cap mul'[3] = {}
      BY <2>1, <2>2
    <2> QED BY <1>1, <2>6, <2>7 DEF UnitsBooked, Tags
  <1>13. ASSUME NEW o, NEW p, Completes(p, o, tags), NEW r, NEW n, Tracks(o, r, n)
         PROVE  /\ (r = NoReg \/ WritersBefore(r, n)' = {}) => p.ready
                /\ \A w \in Live' : r # NoReg /\ LastWriter(w, r, n)' =>
                     /\ p.ready = InFlight'[w].ready
                     /\ InFlight'[w].ready \/ p.tag = InFlight'[w].tag
    <2>1. p.ready = (o.ready \/ o.tag \in tags) /\ p.tag = o.tag
      BY <1>13 DEF Completes
    <2>2. (r = NoReg \/ WritersBefore(r, n)' = {}) => p.ready
      BY <1>5, <1>13, <2>1 DEF Tracks
    <2>3. ASSUME NEW w \in Live', r # NoReg, LastWriter(w, r, n)'
          PROVE  /\ p.ready = InFlight'[w].ready
                 /\ InFlight'[w].ready \/ p.tag = InFlight'[w].tag
      <3>1. w \in Live /\ LastWriter(w, r, n)
        BY <1>3, <1>5, <2>3
      <3>2. /\ o.ready = InFlight[w].ready
            /\ InFlight[w].ready \/ o.tag = InFlight[w].tag
        BY <1>13, <2>3, <3>1 DEF Tracks
      <3> QED BY <1>4, <2>1, <3>1, <3>2
    <2> QED BY <2>2, <2>3
  <1>14. Renamed'
    <2>1. rat' = MarkComplete(tags)
      BY <1>1 DEF WriteBack
    <2>2. \A r \in Regs : /\ rat[r] \in RatType
                          /\ Completes(rat'[r], rat[r], tags)
                          /\ rat'[r] \in RatType
      BY <2>1 DEF MarkComplete, OrderInv, Renamed, RatType, Completes
    <2>3. rat' \in [Regs -> RatType]
      <3>1. rat' = [r \in Regs |-> rat'[r]]
        BY <2>1 DEF MarkComplete
      <3> QED BY <2>2, <3>1
    <2>4. ASSUME NEW f \in sq', NEW i \in 1 .. 2
          PROVE  Tracks(f.src[i], f.inst.src[i], f.inst.n)'
      <3>1. PICK e \in sq : f = Wake(e, tags) /\ f.inst = e.inst
        BY <1>8
      <3>2. /\ Tracks(e.src[i], f.inst.src[i], f.inst.n)
            /\ Completes(f.src[i], e.src[i], tags)
        BY <1>10, <3>1 DEF OrderInv, Renamed
      <3> QED BY <1>13, <3>2 DEF Tracks
    <2>5. ASSUME NEW r \in Regs
          PROVE  Tracks(rat[r], r, dynCount + 1)'
      <3>1. PICK o, p, n : o = rat[r] /\ p = rat'[r] /\ n = dynCount + 1
        OBVIOUS
      <3>2. Completes(p, o, tags) /\ Tracks(o, r, n)
        BY <2>2, <3>1 DEF OrderInv, Renamed
      <3>3. /\ (r = NoReg \/ WritersBefore(r, n)' = {}) => p.ready
            /\ \A w \in Live' : r # NoReg /\ LastWriter(w, r, n)' =>
                 /\ p.ready = InFlight'[w].ready
                 /\ InFlight'[w].ready \/ p.tag = InFlight'[w].tag
        BY <1>13, <3>2
      <3>4. p = rat'[r] /\ dynCount' + 1 = n
        BY <1>1, <3>1
      <3> QED BY <3>3, <3>4 DEF Tracks, LastWriter, WritersBefore
    <2> QED BY <2>3, <2>4, <2>5 DEF Renamed
  <1>15. Serialised'
    <2>1. ASSUME NEW i \in Live', NEW j \in Live', MemoryPair(i, j)',
                 InFlight'[j].ready \/ InFlight'[j].tag \in lsu'
          PROVE  InFlight'[i].ready
      <3>1. i \in Live /\ j \in Live /\ MemoryPair(i, j)
        BY <1>3, <1>4, <2>1 DEF MemoryPair
      <3>2. InFlight[j].inst.op \in {"Load", "Store"}
        BY <3>1 DEF MemoryPair
      <3>3. InFlight[j].ready \/ InFlight[j].tag \in lsu
        BY <1>1, <1>2, <1>4, <2>1, <3>1, <3>2, LsuApart
      <3>4. InFlight[i].ready
        BY <3>1, <3>3 DEF OrderInv, Serialised
      <3> QED BY <1>4, <3>1, <3>4
    <2> QED BY <2>1 DEF Serialised
  <1> QED BY <1>6, <1>7, <1>11, <1>12, <1>14, <1>15 DEF OrderInv

\* Entries that fire become busy; nothing else about the window changes.
LEMMA MarkKeepsOrder ==
    ASSUME LsuInv, OrderInv, NEW fired, fired \subseteq {e \in sq : ~e.busy},
           sq' = MarkBusy(fired),
           UNCHANGED <<dispq, rob, rat, nextTag, inMispred, dynCount, retired>>
    PROVE  /\ RingShaped' /\ LiveNumbered' /\ QueueNumbered' /\ SchedPlaced' /\ BranchLast'
           /\ Renamed'
           /\ Tags({e \in sq' : e.busy}) = InUnits \cup Tags(fired)
           /\ Tags(fired) \cap InUnits = {}
           /\ Live' = Live /\ InFlight' = InFlight
  <1>1. /\ Live' = Live /\ InFlight' = InFlight /\ \A i : SlotAt(i)' = SlotAt(i)
        /\ \A r, n : WritersBefore(r, n)' = WritersBefore(r, n)
        /\ \A w, r, n : LastWriter(w, r, n)' = LastWriter(w, r, n)
    BY SameView
  <1>2. RingShaped' /\ LiveNumbered' /\ QueueNumbered' /\ BranchLast'
    BY <1>1 DEF OrderInv, RingShaped, Around, LiveNumbered, QueueNumbered, BranchLast
  <1>3. /\ \A f \in sq' : \E e \in sq : /\ f.tag = e.tag /\ f.inst = e.inst /\ f.slot = e.slot
                                        /\ f.src = e.src /\ (f.busy <=> e.busy \/ e \in fired)
                                        /\ f \in SchedType
        /\ \A e \in sq : \E f \in sq' : f.tag = e.tag /\ (f.busy <=> e.busy \/ e \in fired)
    <2> DEFINE Marked(e) == IF e \in fired THEN [e EXCEPT !.busy = TRUE] ELSE e
    <2>1. ASSUME NEW e \in sq
          PROVE  LET f == Marked(e)
                 IN  /\ f.tag = e.tag /\ f.inst = e.inst /\ f.slot = e.slot
                     /\ f.src = e.src /\ (f.busy <=> e.busy \/ e \in fired)
                     /\ f \in SchedType
      <3>1. e \in SchedType /\ e.busy \in BOOLEAN
        BY DEF OrderInv, SchedPlaced, SchedType
      <3>2. CASE e \in fired
        <4>1. PICK f : f = [e EXCEPT !.busy = TRUE]
          OBVIOUS
        <4>2. /\ f \in SchedType /\ f.tag = e.tag /\ f.inst = e.inst /\ f.slot = e.slot
              /\ f.src = e.src /\ f.busy
          BY <3>1, <4>1 DEF SchedType
        <4> QED BY <3>2, <4>1, <4>2
      <3>3. CASE e \notin fired
        BY <3>1, <3>3
      <3> QED BY <3>2, <3>3
    <2>2. sq' = {Marked(e) : e \in sq}
      BY DEF MarkBusy
    <2> HIDE DEF Marked
    <2> QED BY <2>1, <2>2
  <1>4. SchedPlaced'
    <2>1. ASSUME NEW f \in sq'
          PROVE  \E i \in Live' : StandsFor(f, i)'
      <3>1. PICK e \in sq : f.tag = e.tag /\ f.inst = e.inst /\ f.slot = e.slot
        BY <1>3
      <3>2. PICK i \in Live : StandsFor(e, i)
        BY DEF OrderInv, SchedPlaced
      <3>3. StandsFor(f, i)'
        BY <1>1, <3>1, <3>2 DEF StandsFor
      <3> QED BY <1>1, <3>3
    <2>2. Tags(sq) \subseteq Tags(sq')
      BY <1>3 DEF Tags
    <2>3. \A i \in Live' : InFlight'[i].ready \/ InFlight'[i].tag \in Tags(sq')
      BY <1>1, <2>2 DEF OrderInv, SchedPlaced
    <2>4. sq' \in SUBSET SchedType
      BY <1>3
    <2> QED BY <2>1, <2>3, <2>4 DEF SchedPlaced, Tags
  <1>5. Renamed'
    <2>1. ASSUME NEW f \in sq', NEW i \in 1 .. 2
          PROVE  Tracks(f.src[i], f.inst.src[i], f.inst.n)'
      <3>1. PICK e \in sq : f.inst = e.inst /\ f.src = e.src
        BY <1>3
      <3>2. Tracks(f.src[i], f.inst.src[i], f.inst.n)
        BY <3>1 DEF OrderInv, Renamed
      <3> QED BY <1>1, <3>2 DEF Tracks
    <2>2. ASSUME NEW r \in Regs
          PROVE  Tracks(rat[r], r, dynCount + 1)'
      <3>1. Tracks(rat[r], r, dynCount + 1)
        BY DEF OrderInv, Renamed
      <3> QED BY <3>1, Zenon DEF Tracks, LastWriter, WritersBefore, InFlight, Live
    <2> QED BY <2>1, <2>2 DEF OrderInv, Renamed
  <1>6. ASSUME NEW t
        PROVE  t \in Tags({f \in sq' : f.busy}) <=> t \in Tags({e \in sq : e.busy}) \cup Tags(fired)
    <2>1. fired \subseteq sq
      OBVIOUS
    <2> QED BY <1>3, <2>1 DEF Tags
  <1>7. Tags({e \in sq : e.busy}) = InUnits
    BY DEF OrderInv, UnitsBooked
  <1>8. Tags(fired) \cap InUnits = {}
    <2>1. \A e, f \in sq : e.tag = f.tag => e = f
      BY DEF LsuInv, EntriesNamed
    <2>2. \A e \in fired : e \in sq /\ ~e.busy
      OBVIOUS
    <2> QED BY <1>7, <2>1, <2>2 DEF Tags
  <1> QED BY <1>1, <1>2, <1>4, <1>5, <1>6, <1>7, <1>8

LEMMA ScheduleKeepsOrder ==
    ASSUME LsuInv, OrderInv, ScheduleAlu \/ ScheduleMul
    PROVE  OrderInv'
  <1>1. PICK fired \in SUBSET {e \in sq : ~e.busy} :
            /\ sq' = MarkBusy(fired)
            /\ \/ alu' = alu \cup Tags(fired) /\ mul' = mul
               \/ /\ alu' = alu /\ mul'[1] = mul[1] \cup Tags(fired)
                  /\ mul'[2] = mul[2] /\ mul'[3] = mul[3]
            /\ UNCHANGED <<dispq, rob, rat, nextTag, lsu, inMispred, dynCount, retired>>
    <2>1. CASE ScheduleAlu
      <3> DEFINE F == OldestReady({"Alu", "Branch"}, AluFus - Cardinality(alu))
      <3>1. F \in SUBSET {e \in sq : ~e.busy}
        BY DEF OldestReady
      <3>2. /\ sq' = MarkBusy(F) /\ alu' = alu \cup Tags(F) /\ mul' = mul
            /\ UNCHANGED <<dispq, rob, rat, nextTag, lsu, inMispred, dynCount, retired>>
        BY <2>1 DEF ScheduleAlu, front
      <3> HIDE DEF F
      <3> QED BY <3>1, <3>2
    <2>2. CASE ScheduleMul
      <3> DEFINE F == OldestReady({"Mul"}, MulFus - Cardinality(mul[1]))
      <3>1. F \in SUBSET {e \in sq : ~e.busy}
        BY DEF OldestReady
      <3>2. /\ sq' = MarkBusy(F) /\ alu' = alu /\ mul' = [mul EXCEPT ![1] = @ \cup Tags(F)]
            /\ UNCHANGED <<dispq, rob, rat, nextTag, lsu, inMispred, dynCount, retired>>
        BY <2>2 DEF ScheduleMul, front
      <3> HIDE DEF F
      <3>3. mul'[1] = mul[1] \cup Tags(F) /\ mul'[2] = mul[2] /\ mul'[3] = mul[3]
        BY <3>2 DEF LsuInv, UnitsTyped
      <3> QED BY <3>1, <3>2, <3>3
    <2> QED BY <2>1, <2>2
  <1>2. /\ RingShaped' /\ LiveNumbered' /\ QueueNumbered' /\ SchedPlaced' /\ BranchLast'
        /\ Renamed'
        /\ Tags({e \in sq' : e.busy}) = InUnits \cup Tags(fired)
        /\ Tags(fired) \cap InUnits = {}
        /\ Live' = Live /\ InFlight' = InFlight
    BY <1>1, MarkKeepsOrder
  <1>3. UnitsBooked'
    <2>1. InUnits' = InUnits \cup Tags(fired)
      BY <1>1 DEF InUnits
    <2>2. alu' \cap (mul'[1] \cup mul'[2] \cup mul'[3]) = {}
      BY <1>1, <1>2 DEF InUnits, OrderInv, UnitsBooked
    <2>3. mul'[1] \cap (mul'[2] \cup mul'[3]) = {} /\ mul'[2] \cap mul'[3] = {}
      BY <1>1, <1>2 DEF InUnits, OrderInv, UnitsBooked
    <2> QED BY <1>2, <2>1, <2>2, <2>3 DEF UnitsBooked, Tags
  <1>4. Serialised'
    BY <1>1, <1>2 DEF OrderInv, Serialised, MemoryPair
  <1> QED BY <1>2, <1>3, <1>4 DEF OrderInv

\* An older operation that the new one must not overtake would still be in the
\* scheduling queue, and the walk would have found it.
LEMMA FireKeepsOrder == ASSUME LsuInv, OrderInv, FireLsu PROVE OrderInv'
  <1>0. PICK e : e = OldestMayFire
    OBVIOUS
  <1>1. e \in MayFire
    BY <1>0, OldestThere DEF FireLsu, LsuGoesOn
  <1>2. /\ lsu' = lsu \cup {e.tag} /\ sq' = MarkBusy({e})
        /\ UNCHANGED <<dispq, rob, rat, nextTag, alu, mul, inMispred, dynCount, retired>>
    BY <1>0 DEF FireLsu, front
  <1>3. e \in sq /\ ~e.busy /\ IsMemory(e) /\ ~Ambiguous(e)
    BY <1>1 DEF MayFire
  <1>4. Tags({e}) = {e.tag}
    BY DEF Tags
  <1>5. /\ RingShaped' /\ LiveNumbered' /\ QueueNumbered' /\ SchedPlaced' /\ BranchLast'
        /\ Renamed'
        /\ Tags({f \in sq' : f.busy}) = InUnits \cup {e.tag}
        /\ e.tag \notin InUnits
        /\ Live' = Live /\ InFlight' = InFlight
    <2>1. {e} \subseteq {f \in sq : ~f.busy}
      BY <1>3
    <2> QED BY <1>2, <1>4, <2>1, MarkKeepsOrder
  <1>6. UnitsBooked'
    <2>1. InUnits' = InUnits \cup {e.tag}
      BY <1>2 DEF InUnits
    <2> QED BY <1>2, <1>5, <2>1 DEF OrderInv, UnitsBooked, Tags
  <1>7. Serialised'
    <2>1. ASSUME NEW i \in Live, NEW j \in Live, MemoryPair(i, j),
                 InFlight[j].ready \/ InFlight[j].tag \in lsu \/ InFlight[j].tag = e.tag,
                 ~InFlight[i].ready
          PROVE  FALSE
      <3>1. InFlight[j].tag = e.tag
        BY <2>1 DEF OrderInv, Serialised
      <3>2. PICK k \in Live : InFlight[k].inst = e.inst /\ InFlight[k].tag = e.tag
        BY <1>3, EntryPlaced
      <3>3. InFlight[j].inst = e.inst
        BY <3>1, <3>2, LiveApart
      <3>4. PICK f \in sq : f.tag = InFlight[i].tag
        BY <2>1 DEF OrderInv, SchedPlaced, Tags
      <3>5. PICK m \in Live : InFlight[m].inst = f.inst /\ InFlight[m].tag = f.tag
        BY EntryPlaced
      <3>6. InFlight[i].inst = f.inst
        BY <3>4, <3>5, LiveApart
      <3>7. f.inst.n < e.inst.n
        BY <2>1, <3>3, <3>6, LiveApart DEF MemoryPair
      <3>8. IsStore(f) \/ (IsStore(e) /\ IsLoad(f))
        BY <2>1, <3>3, <3>6 DEF MemoryPair, IsStore, IsLoad
      <3> QED BY <1>3, <3>4, <3>7, <3>8 DEF Ambiguous
    <2> QED BY <1>2, <1>5, <2>1 DEF Serialised, MemoryPair
  <1> QED BY <1>5, <1>6, <1>7 DEF OrderInv

LEMMA FetchKeepsOrder == ASSUME OrderInv, Fetch PROVE OrderInv'
  <1>0. PICK i \in Insts, wrong \in BOOLEAN :
            /\ dispq' = Append(dispq, [n |-> dynCount', op |-> i.op, dest |-> i.dest,
                                       src |-> i.src, block |-> i.block, mispredict |-> wrong])
            /\ inMispred' = wrong
    BY DEF Fetch
  <1>1. /\ dynCount' = dynCount + 1 /\ dynCount < MaxFetch /\ ~inMispred /\ Len(dispq) < DispqCap
        /\ UNCHANGED <<sq, rob, rat, nextTag, alu, mul, lsu, retired>>
    BY DEF Fetch, MayFetch, units
  <1>2. PICK new : new = [n |-> dynCount', op |-> i.op, dest |-> i.dest, src |-> i.src,
                          block |-> i.block, mispredict |-> wrong]
    OBVIOUS
  <1>3. dynCount \in 0 .. MaxFetch /\ MaxFetch \in Nat /\ DispqCap \in Nat
    BY Sizes DEF OrderInv, RingShaped
  <1>4. new \in InstType /\ new.n = dynCount + 1 /\ new.mispredict = wrong
    <2>1. dynCount' \in 1 .. MaxFetch
      BY <1>1, <1>3
    <2>2. /\ i.op \in Opcodes /\ i.dest \in Regs \cup {NoReg}
          /\ i.src \in [1 .. 2 -> Regs \cup {NoReg}] /\ i.block \in Blocks \cup {NoBlock}
      BY CoreAssumption DEF Templates
    <2> QED BY <1>1, <1>2, <2>1, <2>2 DEF InstType
  <1>5. dispq \in Seq(InstType) /\ dispq' = Append(dispq, new)
    BY <1>0, <1>2 DEF OrderInv, QueueNumbered
  <1>6. /\ dispq' \in Seq(InstType) /\ Len(dispq') = Len(dispq) + 1 /\ Len(dispq) \in Nat
        /\ \A k \in DOMAIN dispq : dispq'[k] = dispq[k]
        /\ dispq'[Len(dispq) + 1] = new
        /\ \A k \in DOMAIN dispq' : k \in DOMAIN dispq \/ k = Len(dispq) + 1
    BY <1>4, <1>5
  <1>7. /\ Live' = Live /\ InFlight' = InFlight /\ \A j : SlotAt(j)' = SlotAt(j)
        /\ \A r, n : WritersBefore(r, n)' = WritersBefore(r, n)
        /\ \A w, r, n : LastWriter(w, r, n)' = LastWriter(w, r, n)
    BY <1>1, SameView
  <1>8. /\ rob.count \in Nat /\ retired \in Nat
        /\ dynCount = retired + rob.count + Len(dispq)
        /\ rob.tail = Around(rob.head + rob.count) /\ rob \in RobType
        /\ nextTag = NumRegs + 1 + retired + rob.count
    BY RingFields DEF OrderInv, RingShaped
  <1>9. RingShaped'
    <2>1. dynCount' \in 0 .. MaxFetch /\ dynCount' = retired + rob.count + Len(dispq')
      <3>1. PICK len \in Nat : len = Len(dispq)
        BY <1>6
      <3>2. Len(dispq') = len + 1
        BY <3>1, <1>6
      <3>3. PICK count \in Nat : count = rob.count
        BY <1>8
      <3>4. dynCount = retired + count + len
        BY <3>1, <3>3, <1>8
      <3>5. dynCount' = dynCount + 1 /\ dynCount < MaxFetch
        BY <1>1
      <3>6. dynCount' \in 0 .. MaxFetch
        BY <3>5, <1>3
      <3>7. retired \in Nat
        BY <1>8
      <3>8. dynCount' = retired + count + (len + 1)
        BY <3>4, <3>5, <3>7
      <3> QED BY <3>2, <3>3, <3>6, <3>8
    <2> QED BY <1>1, <1>8, <2>1 DEF RingShaped, Around
  <1>10. LiveNumbered' /\ SchedPlaced' /\ UnitsBooked' /\ Serialised'
    BY <1>1, <1>7 DEF OrderInv, LiveNumbered, RobEntries, SchedPlaced, StandsFor, UnitsBooked,
                      InUnits, Tags, Serialised, MemoryPair
  <1>11. QueueNumbered'
    <2>1. ASSUME NEW k \in DOMAIN dispq'
          PROVE  dispq'[k].n = retired + rob.count + k
      <3>1. CASE k \in DOMAIN dispq
        BY <1>6, <3>1 DEF OrderInv, QueueNumbered
      <3>2. CASE k = Len(dispq) + 1
        BY <1>4, <1>6, <1>8, <3>2
      <3> QED BY <1>6, <3>1, <3>2
    <2>2. Len(dispq') <= DispqCap
      BY <1>1, <1>3, <1>6
    <2> QED BY <1>1, <1>6, <2>1, <2>2 DEF QueueNumbered
  <1>12. BranchLast'
    <2>1. \A j \in Live : ~(InFlight[j].inst.op = "Branch" /\ InFlight[j].inst.mispredict)
      BY <1>1 DEF OrderInv, BranchLast
    <2>2. \A k \in DOMAIN dispq : ~(dispq[k].op = "Branch" /\ dispq[k].mispredict)
      BY <1>1 DEF OrderInv, BranchLast
    <2>3. \A k \in DOMAIN dispq' : dispq'[k].op = "Branch" /\ dispq'[k].mispredict
                                   => k = Len(dispq') /\ wrong
      BY <1>4, <1>6, <2>2
    <2> QED BY <1>0, <1>7, <2>1, <2>3 DEF BranchLast
  <1>13. Renamed'
    <2>1. ASSUME NEW e \in sq', NEW j \in 1 .. 2
          PROVE  Tracks(e.src[j], e.inst.src[j], e.inst.n)'
      <3>1. Tracks(e.src[j], e.inst.src[j], e.inst.n)
        BY <1>1 DEF OrderInv, Renamed
      <3> QED BY <1>7, <3>1 DEF Tracks
    <2>2. ASSUME NEW r \in Regs
          PROVE  Tracks(rat[r], r, dynCount + 1)'
      <3>1. PICK o, n : o = rat[r] /\ n = dynCount + 1
        OBVIOUS
      <3>2. Tracks(o, r, n)
        BY <3>1 DEF OrderInv, Renamed
      <3>3. \A x \in Live : InFlight[x].inst.n < n <=> InFlight[x].inst.n < dynCount' + 1
        <4>1. ASSUME NEW x \in Live
              PROVE  InFlight[x].inst.n < n <=> InFlight[x].inst.n < dynCount' + 1
          <5>1. InFlight[x].inst.n \in Nat /\ InFlight[x].inst.n < dynCount + 1
            BY LiveApart
          <5> QED BY <1>1, <1>3, <3>1, <5>1
        <4> QED BY <4>1
      <3>4. WritersBefore(r, n) = {x \in 1 .. rob.count :
                                     InFlight[x].inst.dest = r /\ InFlight[x].inst.n < dynCount' + 1}
        BY <3>3 DEF WritersBefore, Live
      <3>5. WritersBefore(r, dynCount + 1)' = WritersBefore(r, n)
        BY <1>1, <1>7, <3>4 DEF WritersBefore
      <3>6. \A w : LastWriter(w, r, dynCount + 1)' <=> LastWriter(w, r, n)
        BY <3>5 DEF LastWriter
      <3>7. rat'[r] = o
        BY <1>1, <3>1
      <3> QED BY <1>7, <3>2, <3>5, <3>6, <3>7 DEF Tracks
    <2> QED BY <1>1, <2>1, <2>2 DEF OrderInv, Renamed
  <1> QED BY <1>9, <1>10, <1>11, <1>12, <1>13 DEF OrderInv

\* The instruction gets the next tag, the tail slot and, as its operands, what
\* the RAT says of its sources; then the RAT says the same of it.
LEMMA DispatchKeepsOrder == ASSUME LsuInv, OrderInv, Dispatch PROVE OrderInv'
  <1>0. PICK inst, tag, c, n : /\ inst = Head(dispq) /\ tag = nextTag /\ c = rob.count + 1
                               /\ n = dynCount + 1
    OBVIOUS
  <1> DEFINE entry == [ready |-> FALSE, tag |-> tag, inst |-> inst]
  <1>1. PICK new : /\ new = [inst |-> inst, tag |-> tag, slot |-> rob.tail, busy |-> FALSE,
                             src |-> [i \in 1 .. 2 |-> RatRead(inst.src[i])]]
                   /\ sq' = sq \cup {new}
    BY <1>0 DEF Dispatch
  <1>2. /\ dispq # <<>> /\ ~RobFull /\ dispq' = Tail(dispq)
        /\ rob' = RobAllocate(rob, entry) /\ nextTag' = nextTag + 1
        /\ rat' = WriteUse(inst.dest, tag)
        /\ UNCHANGED <<alu, mul, lsu, inMispred, dynCount, retired>>
    BY <1>0 DEF Dispatch, MayDispatch, units, front
  <1>3. /\ dispq \in Seq(InstType) /\ Len(dispq) \in Nat \ {0} /\ 1 \in DOMAIN dispq
        /\ inst = dispq[1] /\ inst \in InstType
        /\ dispq' \in Seq(InstType) /\ Len(dispq') = Len(dispq) - 1
        /\ \A k \in DOMAIN dispq' : /\ k \in Nat /\ k + 1 \in DOMAIN dispq
                                    /\ dispq'[k] = dispq[k + 1]
    BY <1>0, <1>2 DEF OrderInv, QueueNumbered
  <1>4. /\ rob.count \in Nat /\ retired \in Nat /\ NumRegs \in Nat /\ MaxFetch \in Nat
        /\ dynCount = retired + rob.count + Len(dispq) /\ dynCount \in 0 .. MaxFetch
        /\ nextTag = NumRegs + 1 + retired + rob.count
        /\ DispqCap \in Nat /\ Len(dispq) <= DispqCap
    BY RingFields, Sizes DEF OrderInv, RingShaped, QueueNumbered
  <1>5. /\ inst.n = retired + c /\ c \in Nat /\ tag = NumRegs + retired + c /\ tag \in TagType
        /\ c = rob.count + 1 /\ n = dynCount + 1 /\ tag = nextTag /\ n \in Nat /\ inst.n < n
    <2>1. inst.n = retired + rob.count + 1
      BY <1>3 DEF OrderInv, QueueNumbered
    <2>2. c = rob.count + 1 /\ n = dynCount + 1 /\ tag = nextTag
      BY <1>0
    <2>3. Len(dispq) \in Nat \ {0}
      BY <1>3
    <2>4. /\ nextTag = NumRegs + 1 + retired + rob.count
          /\ rob.count \in Nat /\ retired \in Nat /\ NumRegs \in Nat
      BY <1>4
    <2>5. nextTag <= NumRegs + dynCount
      BY <1>4, <2>3, <2>4
    <2>6. 1 <= nextTag /\ nextTag \in Nat
      BY <2>4
    <2>7. tag \in 1 .. NumRegs + MaxFetch
      BY <1>4, <2>2, <2>5, <2>6, SMTT(30)
    <2>8. inst.n = retired + c /\ c \in Nat /\ tag = NumRegs + retired + c
      BY <2>1, <2>2, <2>4
    <2>9. n \in Nat
      BY <1>4, <2>2, SMTT(30)
    <2>10. retired + c < n
      BY <1>4, <2>2, <2>3, SMTT(30)
    <2> QED BY <2>2, <2>7, <2>8, <2>9, <2>10 DEF TagType
  <1>6. entry \in RobEntries /\ entry \in SlotType
    BY <1>3, <1>5 DEF RobEntries, SlotType
  <1>7. /\ rob' \in RobType
        /\ rob'.tail = Around(rob'.head + rob'.count)
        /\ rob'.count = c
        /\ \A i \in Live : i \in Live' /\ SlotAt(i)' = SlotAt(i) /\ InFlight'[i] = InFlight[i]
        /\ c \in Live' /\ SlotAt(c)' = rob.tail /\ InFlight'[c] = entry
        /\ \A i \in Live' : i \in Live \/ i = c
    <2>1. /\ rob' \in RobType
          /\ rob'.tail = Around(rob'.head + rob'.count)
          /\ rob'.count = rob.count + 1
          /\ \A i \in Live : i \in Live' /\ SlotAt(i)' = SlotAt(i) /\ InFlight'[i] = InFlight[i]
          /\ rob'.count \in Live' /\ SlotAt(rob.count)' = rob.tail /\ InFlight'[rob'.count] = entry
          /\ \A i \in Live' : i \in Live \/ i = rob'.count
      BY <1>2, <1>6, AllocateView DEF OrderInv
    <2>2. SlotAt(c)' = SlotAt(rob.count)'
      BY <1>0, <2>1 DEF SlotAt
    <2> QED BY <1>0, <2>1, <2>2
  <1>8. \A i \in Live : i \in Nat /\ i < c
    BY <1>0, <1>4, SMTT(30) DEF Live
  <1> HIDE DEF entry
  <1>9. entry.inst = inst /\ entry.tag = tag /\ entry.ready = FALSE
    BY DEF entry
  <1>10. RingShaped'
    <2>1. /\ dynCount' = dynCount /\ retired' = retired /\ rob'.count = c
          /\ Len(dispq') = Len(dispq) - 1 /\ nextTag' = nextTag + 1 /\ Len(dispq) \in Nat
      BY <1>2, <1>3, <1>7
    <2>2. /\ dynCount' = retired' + rob'.count + Len(dispq')
          /\ nextTag' = NumRegs + 1 + retired' + rob'.count
      <3>1. c = rob.count + 1 /\ nextTag = NumRegs + 1 + retired + rob.count
            /\ rob.count \in Nat /\ retired \in Nat /\ NumRegs \in Nat
        BY <1>4, <1>5
      <3>2. nextTag + 1 = NumRegs + 1 + retired + c
        BY <3>1
      <3>3. dynCount = retired + rob.count + Len(dispq) /\ Len(dispq) \in Nat
        BY <1>4, <2>1
      <3>4. dynCount = retired + c + (Len(dispq) - 1)
        <4>1. PICK l \in Nat : l = Len(dispq)
          BY <3>3
        <4>2. rob.count + l = c + (l - 1)
          BY <3>1
        <4>3. retired + rob.count + l = retired + (rob.count + l)
          BY <3>1
        <4>4. retired + c + (l - 1) = retired + (c + (l - 1))
          BY <3>1
        <4> QED BY <3>3, <4>1, <4>2, <4>3, <4>4
      <3>5. nextTag' = NumRegs + 1 + retired' + rob'.count
        BY <2>1, <3>1, <3>2
      <3>6. dynCount' = retired' + rob'.count + Len(dispq')
        BY <2>1, <3>1, <3>4
      <3> QED BY <3>5, <3>6
    <2>3. rob' \in RobType /\ rob'.tail = Around(rob'.head + rob'.count)
      BY <1>7
    <2> QED BY <1>4, <2>1, <2>2, <2>3 DEF RingShaped, RobType, Around
  <1>11. LiveNumbered'
    <2>1. ASSUME NEW i \in Live'
          PROVE  /\ InFlight'[i] \in RobEntries /\ InFlight'[i].inst.n = retired' + i
                 /\ InFlight'[i].tag = NumRegs + retired' + i
      <3>1. CASE i \in Live
        BY <1>2, <1>7, <3>1 DEF OrderInv, LiveNumbered
      <3>2. CASE i = c
        BY <1>2, <1>5, <1>6, <1>7, <1>9, <3>2
      <3> QED BY <1>7, <3>1, <3>2
    <2> QED BY <2>1 DEF LiveNumbered, RobEntries
  <1>12. QueueNumbered'
    <2>1. ASSUME NEW k \in DOMAIN dispq'
          PROVE  dispq'[k].n = retired' + rob'.count + k
      <3>1. dispq'[k].n = retired + rob.count + (k + 1) /\ k \in Nat
        BY <1>3 DEF OrderInv, QueueNumbered
      <3>2. retired' = retired /\ rob'.count = c
        BY <1>2, <1>7
      <3>3. c = rob.count + 1 /\ rob.count \in Nat /\ retired \in Nat
        BY <1>4, <1>5
      <3>4. retired + rob.count + (k + 1) = retired + c + k
        BY <3>1, <3>3
      <3> QED BY <3>1, <3>2, <3>4
    <2>2. Len(dispq') <= DispqCap
      BY <1>3, <1>4
    <2> QED BY <1>3, <2>1, <2>2 DEF QueueNumbered
  <1>13. \A i \in 1 .. 2 : RatRead(inst.src[i]) \in RatType
    BY <1>3 DEF RatRead, InstType, OrderInv, Renamed, RatType
  <1>14. /\ new \in SchedType /\ new.inst = inst /\ new.tag = tag /\ new.slot = rob.tail
         /\ new.busy = FALSE /\ \A i \in 1 .. 2 : new.src[i] = RatRead(inst.src[i])
    <2>1. PICK p : p = [i \in 1 .. 2 |-> RatRead(inst.src[i])]
      OBVIOUS
    <2>2. p \in [1 .. 2 -> RatType]
      BY <1>13, <2>1
    <2>3. rob.tail \in 0 .. RobSize - 1
      BY RingFields DEF OrderInv
    <2>4. new = [inst |-> inst, tag |-> tag, slot |-> rob.tail, busy |-> FALSE, src |-> p]
      BY <1>1, <2>1
    <2>5. new \in SchedType
      BY <1>3, <1>5, <2>2, <2>3, <2>4 DEF SchedType
    <2> QED BY <2>1, <2>4, <2>5
  <1>15. SchedPlaced'
    <2>1. ASSUME NEW e \in sq'
          PROVE  \E i \in Live' : StandsFor(e, i)'
      <3>1. CASE e \in sq
        <4>1. PICK i \in Live : StandsFor(e, i)
          BY <3>1 DEF OrderInv, SchedPlaced
        <4>2. i \in Live' /\ StandsFor(e, i)'
          BY <1>7, <4>1 DEF StandsFor
        <4> QED BY <4>2
      <3>2. CASE e = new
        <4>1. StandsFor(e, c)'
          BY <1>7, <1>14, <3>2 DEF StandsFor, entry
        <4> QED BY <1>7, <4>1
      <3> QED BY <1>1, <3>1, <3>2
    <2>2. ASSUME NEW i \in Live'
          PROVE  InFlight'[i].ready \/ InFlight'[i].tag \in Tags(sq')
      <3>1. CASE i \in Live
        BY <1>1, <1>7, <3>1 DEF OrderInv, SchedPlaced, Tags
      <3>2. CASE i = c
        BY <1>1, <1>7, <1>9, <1>14, <3>2 DEF Tags
      <3> QED BY <1>7, <3>1, <3>2
    <2>3. sq' \in SUBSET SchedType
      BY <1>1, <1>14 DEF OrderInv, SchedPlaced
    <2> QED BY <2>1, <2>2, <2>3 DEF SchedPlaced, Tags
  <1>16. UnitsBooked'
    <2>1. {e \in sq' : e.busy} = {e \in sq : e.busy}
      BY <1>1, <1>14
    <2> QED BY <1>2, <2>1 DEF OrderInv, UnitsBooked, InUnits, Tags
  <1>17. BranchLast'
    <2>1. ASSUME NEW i \in Live', InFlight'[i].inst.op = "Branch", InFlight'[i].inst.mispredict
          PROVE  i = rob'.count /\ dispq' = <<>> /\ inMispred'
      <3>1. i \notin Live
        BY <1>2, <1>7, <2>1 DEF OrderInv, BranchLast
      <3>2. i = c /\ inst.op = "Branch" /\ inst.mispredict
        BY <1>7, <1>9, <2>1, <3>1
      <3>3. 1 = Len(dispq) /\ inMispred
        BY <1>3, <3>2 DEF OrderInv, BranchLast
      <3>4. dispq' = <<>>
        BY <1>3, <3>3
      <3> QED BY <1>2, <1>7, <3>2, <3>3, <3>4
    <2>2. ASSUME NEW k \in DOMAIN dispq', dispq'[k].op = "Branch", dispq'[k].mispredict
          PROVE  k = Len(dispq') /\ inMispred'
      <3>1. k + 1 = Len(dispq) /\ inMispred
        BY <1>3, <2>2 DEF OrderInv, BranchLast
      <3> QED BY <1>2, <1>3, <3>1
    <2>3. inMispred' \in BOOLEAN
      BY <1>2 DEF OrderInv, BranchLast
    <2> QED BY <2>1, <2>2, <2>3 DEF BranchLast
  <1>18. ASSUME NEW m, NEW r, \A i \in Live : InFlight[i].inst.dest = r => InFlight[i].inst.n < m,
                r # inst.dest \/ ~(inst.n < m)
         PROVE  WritersBefore(r, m)' = WritersBefore(r, n)
    <2>1. \A i \in Live : InFlight[i].inst.n < n
      BY <1>0, LiveApart
    <2>2. ASSUME NEW i
          PROVE  i \in WritersBefore(r, m)' <=> i \in WritersBefore(r, n)
      <3>1. i \in WritersBefore(r, n) <=> i \in Live /\ InFlight[i].inst.dest = r
        BY <2>1 DEF WritersBefore, Live
      <3>2. i \in WritersBefore(r, m)' <=> /\ i \in Live' /\ InFlight'[i].inst.dest = r
                                           /\ InFlight'[i].inst.n < m
        BY DEF WritersBefore, Live
      <3> QED BY <1>7, <1>9, <1>18, <3>1, <3>2
    <2> QED BY <2>2
  <1>19. ASSUME NEW o, NEW r, NEW m, Tracks(o, r, n), WritersBefore(r, m)' = WritersBefore(r, n)
         PROVE  /\ (r = NoReg \/ WritersBefore(r, m)' = {}) => o.ready
                /\ \A w \in Live' : r # NoReg /\ LastWriter(w, r, m)' =>
                     /\ o.ready = InFlight'[w].ready
                     /\ InFlight'[w].ready \/ o.tag = InFlight'[w].tag
    <2>1. \A w : LastWriter(w, r, m)' => w \in Live /\ LastWriter(w, r, n)
      BY <1>19 DEF LastWriter, WritersBefore, Live
    <2> QED BY <1>7, <1>19, <2>1 DEF Tracks
  <1>20. \A r \in Regs : Tracks(rat[r], r, n)
    BY <1>0 DEF OrderInv, Renamed
  <1>21. ASSUME NEW e \in sq', NEW i \in 1 .. 2
         PROVE  Tracks(e.src[i], e.inst.src[i], e.inst.n)'
    <2>1. PICK o, r, m : o = e.src[i] /\ r = e.inst.src[i] /\ m = e.inst.n
      OBVIOUS
    <2>2. CASE e \in sq
      <3>1. PICK k \in Live : InFlight[k].inst = e.inst
        BY <2>2, EntryPlaced
      <3>2. m = retired + k /\ k \in Nat /\ k < c
        BY <1>8, <2>1, <3>1 DEF OrderInv, LiveNumbered
      <3>3. ~(inst.n < m)
        BY <1>4, <1>5, <3>2, SMTT(30)
      <3>4. ASSUME NEW x
            PROVE  x \in WritersBefore(r, m)' <=> x \in WritersBefore(r, m)
        <4>1. x \in WritersBefore(r, m) <=> /\ x \in Live /\ InFlight[x].inst.dest = r
                                            /\ InFlight[x].inst.n < m
          BY DEF WritersBefore, Live
        <4>2. x \in WritersBefore(r, m)' <=> /\ x \in Live' /\ InFlight'[x].inst.dest = r
                                             /\ InFlight'[x].inst.n < m
          BY DEF WritersBefore, Live
        <4> QED BY <1>7, <1>9, <3>3, <4>1, <4>2
      <3>5. WritersBefore(r, m)' = WritersBefore(r, m) /\ WritersBefore(r, m) \subseteq Live
        BY <3>4 DEF WritersBefore, Live
      <3>6. \A w : LastWriter(w, r, m)' => w \in Live /\ LastWriter(w, r, m)
        BY <3>5 DEF LastWriter
      <3>7. Tracks(o, r, m)
        BY <2>1, <2>2 DEF OrderInv, Renamed
      <3>8. Tracks(o, r, m)'
        BY <1>7, <3>5, <3>6, <3>7 DEF Tracks
      <3> QED BY <2>1, <3>8
    <2>3. CASE e = new
      <3>1. m = inst.n /\ o = RatRead(r) /\ r \in Regs \cup {NoReg}
        BY <1>3, <1>14, <2>1, <2>3 DEF InstType
      <3>2. \A k \in Live : InFlight[k].inst.n < m
        <4>1. \A k \in Live : InFlight[k].inst.n < retired + rob.count + 1
          BY LiveApart
        <4>2. m = retired + c /\ c = rob.count + 1
          BY <1>5, <3>1
        <4>3. m = retired + rob.count + 1
          BY <1>4, <4>2
        <4> QED BY <4>1, <4>3
      <3>3. ~(inst.n < m)
        BY <1>4, <1>5, <3>1, SMTT(30)
      <3>4. WritersBefore(r, m)' = WritersBefore(r, n)
        BY <1>18, <3>2, <3>3
      <3>5. Tracks(o, r, n)
        <4>1. CASE r = NoReg
          BY <3>1, <4>1 DEF RatRead, Tracks
        <4>2. CASE r # NoReg
          BY <1>20, <3>1, <4>2 DEF RatRead
        <4> QED BY <4>1, <4>2
      <3>6. Tracks(o, r, m)'
        BY <1>19, <3>4, <3>5 DEF Tracks
      <3> QED BY <2>1, <3>6
    <2> QED BY <1>1, <2>2, <2>3
  <1>22. ASSUME NEW r \in Regs
         PROVE  Tracks(rat[r], r, dynCount + 1)'
    <2>1. PICK o : o = rat'[r]
      OBVIOUS
    <2>2. \A k \in Live : InFlight[k].inst.n < n
      BY <1>0, LiveApart
    <2>3. r # NoReg
      BY <1>4 DEF Regs, NoReg
    <2>4. CASE r # inst.dest
      <3>1. o = rat[r]
        BY <1>2, <2>1, <2>4 DEF WriteUse, OrderInv, Renamed
      <3>2. WritersBefore(r, n)' = WritersBefore(r, n)
        BY <1>18, <2>2, <2>4
      <3>3. Tracks(o, r, n)'
        BY <1>19, <1>20, <3>1, <3>2 DEF Tracks
      <3>4. n = dynCount' + 1
        BY <1>0, <1>2
      <3> QED BY <2>1, <3>3, <3>4 DEF Tracks, LastWriter, WritersBefore
    <2>5. CASE r = inst.dest
      <3>1. o = [tag |-> tag, ready |-> FALSE]
        BY <1>2, <2>1, <2>3, <2>5 DEF WriteUse, OrderInv, Renamed
      <3>2. c \in WritersBefore(r, n)'
        <4>1. InFlight'[c].inst.dest = r /\ InFlight'[c].inst.n < n
          BY <1>5, <1>7, <1>9, <2>5
        <4> QED BY <1>7, <4>1 DEF WritersBefore, Live
      <3>3. \A w \in Live' : LastWriter(w, r, n)' => w = c
        <4>1. ASSUME NEW w \in Live', LastWriter(w, r, n)'
              PROVE  w = c
          <5>1. c <= w
            BY <3>2, <4>1 DEF LastWriter
          <5>2. w = c \/ (w \in Nat /\ w < c)
            BY <1>7, <1>8
          <5> QED BY <1>5, <5>1, <5>2
        <4> QED BY <4>1
      <3>4. Tracks(o, r, n)'
        BY <1>7, <1>9, <2>3, <3>1, <3>2, <3>3 DEF Tracks
      <3>5. n = dynCount' + 1
        BY <1>0, <1>2
      <3> QED BY <2>1, <3>4, <3>5 DEF Tracks, LastWriter, WritersBefore
    <2> QED BY <2>4, <2>5
  <1>23. rat' \in [Regs -> RatType]
    BY <1>2, <1>5 DEF WriteUse, OrderInv, Renamed, RatType
  <1>24. Renamed'
    BY <1>21, <1>22, <1>23 DEF Renamed
  <1>25. Serialised'
    <2>1. ASSUME NEW i \in Live', NEW j \in Live', MemoryPair(i, j)',
                 InFlight'[j].ready \/ InFlight'[j].tag \in lsu'
          PROVE  InFlight'[i].ready
      <3>1. tag \notin lsu
        BY <1>0 DEF LsuInv, LsuBooked, EntriesNamed, Shaped, Tags
      <3>2. j # c
        BY <1>2, <1>7, <1>9, <2>1, <3>1
      <3>3. j \in Live /\ j \in Nat /\ j < c /\ i < j
        BY <1>7, <1>8, <2>1, <3>2 DEF MemoryPair
      <3>4. i \in Live
        <4>1. ~(c < j)
          BY <1>5, <3>3
        <4> QED BY <1>7, <2>1, <3>3, <4>1
      <3>5. MemoryPair(i, j)
        BY <1>7, <2>1, <3>3, <3>4 DEF MemoryPair
      <3> QED BY <1>2, <1>7, <2>1, <3>3, <3>4, <3>5 DEF OrderInv, Serialised
    <2> QED BY <2>1 DEF Serialised
  <1> QED BY <1>10, <1>11, <1>12, <1>15, <1>16, <1>17, <1>24, <1>25 DEF OrderInv

LEMMA StepKeepsOrder == ASSUME LsuInv, OrderInv, [Next]_vars PROVE OrderInv'
  <1>1. CASE LsuDone \/ DispatchDone \/ FetchDone \/ FetchEof \/ EndCycle \/ UNCHANGED vars
    <2>1. UNCHANGED <<window, alu, mul, lsu, inMispred, dynCount, retired>>
      BY <1>1 DEF LsuDone, DispatchDone, FetchDone, FetchEof, EndCycle, vars, units, front
    <2> QED BY <2>1, FrameKeepsOrder
  <1>2. ASSUME NEW b \in Blocks, MarkReady(b) PROVE OrderInv'
    <2>1. UNCHANGED <<window, alu, mul, lsu, inMispred, dynCount, retired>>
      BY <1>2 DEF MarkReady, front
    <2> QED BY <2>1, FrameKeepsOrder
  <1>3. CASE Retire
    BY <1>3, RetireKeepsOrder
  <1>4. CASE Exec
    BY <1>4, ExecKeepsOrder
  <1>5. CASE ScheduleAlu \/ ScheduleMul
    BY <1>5, ScheduleKeepsOrder
  <1>6. CASE FireLsu
    BY <1>6, FireKeepsOrder
  <1>7. CASE Dispatch
    BY <1>7, DispatchKeepsOrder
  <1>8. CASE Fetch
    BY <1>8, FetchKeepsOrder
  <1> QED BY <1>1, <1>2, <1>3, <1>4, <1>5, <1>6, <1>7, <1>8 DEF Next

-----------------------------------------------------------------------------
(* What the invariant says.                                                *)

LEMMA InvProgramOrder == OrderInv => ProgramOrder
  <1> SUFFICES ASSUME OrderInv PROVE ProgramOrder
    OBVIOUS
  <1>1. PICK c, l : c = rob.count /\ l = Len(dispq)
    OBVIOUS
  <1>2. c \in Nat /\ l \in Nat /\ retired \in Nat /\ dynCount = retired + c + l
        /\ dispq \in Seq(InstType)
    BY <1>1, LiveApart DEF OrderInv, RingShaped, QueueNumbered
  <1>3. PICK ring, queue : /\ ring = [i \in 1 .. c |-> InFlight[i].inst.n]
                           /\ queue = [i \in DOMAIN dispq |-> dispq[i].n]
    OBVIOUS
  <1>4. \A i \in 1 .. c : InFlight[i].inst.n = retired + i
    BY <1>1 DEF OrderInv, LiveNumbered, Live
  <1>5. \A i \in 1 .. l : dispq[i].n = retired + c + i
    BY <1>1, <1>2 DEF OrderInv, QueueNumbered
  <1>6. ring \in Seq(Nat) /\ Len(ring) = c /\ \A i \in 1 .. c : ring[i] = retired + i
    <2>1. \A i \in 1 .. c : retired + i \in Nat
      BY <1>2
    <2> QED BY <1>2, <1>3, <1>4, <2>1
  <1>7. queue \in Seq(Nat) /\ Len(queue) = l /\ \A i \in 1 .. l : queue[i] = retired + c + i
    <2>1. \A i \in 1 .. l : retired + c + i \in Nat
      BY <1>2
    <2>2. DOMAIN dispq = 1 .. l
      BY <1>1, <1>2
    <2>3. queue = [i \in 1 .. l |-> dispq[i].n]
      BY <1>3, <2>2
    <2>4. \A i \in 1 .. l : queue[i] = retired + c + i
      BY <1>5, <2>3
    <2>5. \A i \in 1 .. l : queue[i] \in Nat
      BY <2>1, <2>4
    <2>6. queue \in [1 .. l -> Nat]
      BY <2>3, <2>5
    <2>7. queue \in Seq(Nat) /\ Len(queue) = l
      BY <1>2, <2>6
    <2> QED BY <2>4, <2>7
  <1>8. /\ ring \o queue \in Seq(Nat) /\ Len(ring \o queue) = c + l
        /\ \A i \in 1 .. c + l : (ring \o queue)[i] = IF i <= c THEN ring[i] ELSE queue[i - c]
    <2>1. ring \in Seq(Nat) /\ Len(ring) = c /\ queue \in Seq(Nat) /\ Len(queue) = l
      BY <1>6, <1>7
    <2>2. ring \o queue \in Seq(Nat) /\ Len(ring \o queue) = c + l
      BY <2>1
    <2>3. ASSUME NEW i \in 1 .. Len(ring) + Len(queue)
          PROVE  (ring \o queue)[i] = IF i <= Len(ring) THEN ring[i] ELSE queue[i - Len(ring)]
      BY <2>1, SMTT(30)
    <2> QED BY <2>1, <2>2, <2>3
  <1>9. \A i \in 1 .. c + l : (ring \o queue)[i] = retired + i
    <2>1. ASSUME NEW i \in 1 .. c + l
          PROVE  (ring \o queue)[i] = retired + i
      <3>1. CASE i <= c
        <4>1. i \in 1 .. c
          BY <1>2, <3>1
        <4> QED BY <1>6, <1>8, <3>1, <4>1
      <3>2. CASE ~(i <= c)
        <4>1. i - c \in 1 .. l
          BY <1>2, <3>2
        <4>2. (ring \o queue)[i] = retired + c + (i - c)
          BY <1>7, <1>8, <3>2, <4>1
        <4> QED BY <1>2, <4>2
      <3> QED BY <3>1, <3>2
    <2> QED BY <2>1
  <1>10. dynCount - retired = c + l
    BY <1>2
  <1>11. ring \o queue = [i \in 1 .. dynCount - retired |-> retired + i]
    <2>1. PICK whole : whole = ring \o queue
      OBVIOUS
    <2>2. whole \in Seq(Nat) /\ Len(whole) = c + l /\ c + l \in Nat
      BY <1>2, <1>8, <2>1
    <2>3. whole = [i \in 1 .. c + l |-> whole[i]]
      BY <2>2
    <2>4. \A i \in 1 .. c + l : whole[i] = retired + i
      BY <1>9, <2>1
    <2>5. whole = [i \in 1 .. c + l |-> retired + i]
      BY <2>3, <2>4
    <2> QED BY <1>10, <2>1, <2>5
  <1> QED BY <1>1, <1>3, <1>11 DEF ProgramOrder

LEMMA InvMispredictIsYoungest == OrderInv => MispredictIsYoungest
  <1> SUFFICES ASSUME OrderInv PROVE MispredictIsYoungest
    OBVIOUS
  <1>1. PICK c, l, ring : /\ c = rob.count /\ l = Len(dispq)
                          /\ ring = [i \in 1 .. c |-> InFlight[i].inst]
    OBVIOUS
  <1>2. c \in Nat /\ l \in Nat /\ dispq \in Seq(InstType)
    BY <1>1, LiveApart DEF OrderInv, QueueNumbered
  <1>3. /\ ring \in Seq(InstType) /\ Len(ring) = c /\ \A i \in 1 .. c : ring[i] = InFlight[i].inst
    <2>1. \A i \in 1 .. c : InFlight[i].inst \in InstType
      BY <1>1, LiveApart DEF Live
    <2> QED BY <1>1, <1>2, <2>1
  <1>4. /\ ring \o dispq \in Seq(InstType) /\ Len(ring \o dispq) = c + l
        /\ \A i \in 1 .. c + l : (ring \o dispq)[i] = IF i <= c THEN ring[i] ELSE dispq[i - c]
    BY <1>1, <1>2, <1>3
  <1>5. DOMAIN (ring \o dispq) = 1 .. c + l /\ DOMAIN dispq = 1 .. l
    BY <1>1, <1>2, <1>4
  <1>6. ASSUME NEW i \in 1 .. c + l,
               (ring \o dispq)[i].op = "Branch", (ring \o dispq)[i].mispredict
        PROVE  i = c + l /\ inMispred
    <2>1. CASE i <= c
      <3>1. i \in Live /\ i \in 1 .. c
        BY <1>1, <1>2, <2>1 DEF Live
      <3>2. InFlight[i].inst = (ring \o dispq)[i]
        BY <1>3, <1>4, <2>1, <3>1
      <3>3. i = c /\ dispq = <<>> /\ inMispred
        BY <1>1, <1>6, <3>1, <3>2 DEF OrderInv, BranchLast
      <3>4. l = 0
        BY <1>1, <3>3
      <3> QED BY <1>2, <3>3, <3>4
    <2>2. CASE ~(i <= c)
      <3>1. i - c \in 1 .. l
        BY <1>2, <2>2
      <3>2. dispq[i - c] = (ring \o dispq)[i]
        BY <1>4, <2>2
      <3>3. i - c = l /\ inMispred
        BY <1>1, <1>5, <1>6, <3>1, <3>2 DEF OrderInv, BranchLast
      <3> QED BY <1>2, <3>3
    <2> QED BY <2>1, <2>2
  <1> QED BY <1>1, <1>4, <1>5, <1>6 DEF MispredictIsYoungest

LEMMA InvBooksAgree == LsuInv /\ OrderInv => BooksAgree
  <1> SUFFICES ASSUME LsuInv, OrderInv PROVE BooksAgree
    OBVIOUS
  <1>1. ASSUME NEW e \in sq
        PROVE  /\ e.slot \in LiveSlots
               /\ rob.slot[e.slot] = [ready |-> FALSE, tag |-> e.tag, inst |-> e.inst]
    <2>1. PICK i \in Live : StandsFor(e, i)
      BY EntryPlaced
    <2>2. InFlight[i] = rob.slot[SlotAt(i)]
      BY SlotsApart DEF OrderInv
    <2>3. i - 1 \in 0 .. rob.count - 1
      BY LiveApart DEF Live
    <2>4. SlotAt(i) \in LiveSlots
      BY <2>3 DEF SlotAt, Around, LiveSlots
    <2> QED BY <2>1, <2>2, <2>4 DEF StandsFor
  <1>2. \A i \in 1 .. rob.count : InFlight[i].ready \/ InFlight[i].tag \in Tags(sq)
    BY DEF OrderInv, SchedPlaced, Live
  <1>3. Tags({e \in sq : e.busy}) = alu \cup mul[1] \cup mul[2] \cup mul[3] \cup lsu
    BY DEF OrderInv, UnitsBooked, InUnits
  <1>4. lsu = UNION {m.ids : m \in mshr}
    BY DEF LsuInv, LsuBooked
  <1> QED BY <1>1, <1>2, <1>3, <1>4 DEF BooksAgree

LEMMA InvDataflowExact == OrderInv => DataflowExact
  BY FollowsIs DEF OrderInv, Renamed, DataflowExact

LEMMA InvMemoryOrdered == OrderInv => MemoryOrdered
  BY DEF OrderInv, Serialised, MemoryPair, MemoryOrdered, Live

LEMMA AlwaysOrdered == Spec => [](LsuInv /\ OrderInv)
  <1>1. LsuInv /\ OrderInv /\ [Next]_vars => LsuInv' /\ OrderInv'
    BY StepKeeps, StepKeepsOrder
  <1>2. Init => LsuInv /\ OrderInv
    BY InitLsuInv, InitOrderInv
  <1> QED BY <1>1, <1>2, PTL DEF Spec

\* Retirement, the ring and the dispatch queue carry one gapless stretch of the
\* program in its order, for a ring of any size and however often its head and
\* tail have gone round (rob.cpp:8-17, core.cpp:478-508).
THEOREM OooProgramOrder == Spec => []ProgramOrder
  BY AlwaysOrdered, InvProgramOrder, PTL

\* The flush a mispredicted branch makes when it retires (core.cpp:165-180,
\* 573-578) never has a younger instruction to squash.
THEOREM OooMispredictIsYoungest == Spec => []MispredictIsYoungest
  BY AlwaysOrdered, InvMispredictIsYoungest, PTL

\* Scheduling queue, units, MSHRs and ring (core.hpp:174-183) tell one story
\* between any two stages of a cycle.
THEOREM OooBooksAgree == Spec => []BooksAgree
  BY AlwaysOrdered, InvBooksAgree, PTL

\* Renaming by tags (rat.cpp:15-41, core.cpp:291-296) gives every operand its
\* own producer, whatever is overwritten, completed late or flushed.
THEOREM OooDataflowExact == Spec => []DataflowExact
  BY AlwaysOrdered, InvDataflowExact, PTL

\* The disambiguation walk (core.cpp:373-386) keeps a store and every other
\* memory operation in program order at the cache.
THEOREM OooMemoryOrdered == Spec => []MemoryOrdered
  BY AlwaysOrdered, InvMemoryOrdered, PTL

-----------------------------------------------------------------------------
(* Capacities.                                                             *)

\* Memory operations have a block, and so has what they ask for.
Addressed(inst) == inst.op \in {"Load", "Store"} => inst.block \in Blocks
AllAddressed ==
    /\ \A i \in DOMAIN dispq : Addressed(dispq[i])
    /\ \A e \in sq : Addressed(e.inst)
    /\ \A m \in mshr : m.block \in Blocks

Fits(S, n) == IsFiniteSet(S) /\ Cardinality(S) <= n

WatchdogShaped ==
    /\ watchdog = [sig |-> watchdog.sig, stall |-> watchdog.stall,
                   deadlocked |-> watchdog.deadlocked]
    /\ watchdog.stall \in 0 .. Threshold /\ watchdog.deadlocked \in BOOLEAN

\* No container is ever filled past its capacity.
CapacityInv ==
    /\ stage \in Stages /\ done \in Nat /\ eof \in BOOLEAN
    /\ Fits(sq, SchedqCap) /\ Fits(mshr, MshrSize)
    /\ Fits(alu, AluFus) /\ Fits(lsu, LsuFus) /\ \A i \in 1 .. 3 : Fits(mul[i], MulFus)
    /\ AllAddressed /\ WatchdogShaped

LEMMA FitsSubset ==
    ASSUME NEW S, NEW T, NEW n \in Nat, Fits(S, n), T \subseteq S
    PROVE  Fits(T, n)
  <1>1. IsFiniteSet(T) /\ Cardinality(T) <= Cardinality(S)
    BY FS_Subset DEF Fits
  <1>2. Cardinality(T) \in Nat /\ Cardinality(S) \in Nat
    BY <1>1, FS_CardinalityType DEF Fits
  <1> QED BY <1>1, <1>2 DEF Fits

\* What a function makes of a set is no larger than the set.
LEMMA FitsImage ==
    ASSUME NEW S, NEW n \in Nat, Fits(S, n), NEW f, NEW T, T \subseteq {f[x] : x \in S}
    PROVE  Fits(T, n)
  <1> DEFINE R == {f[x] : x \in S}
             g == [x \in S |-> f[x]]
  <1>1. g \in Surjection(S, R)
    BY DEF Surjection
  <1>2. IsFiniteSet(R) /\ Cardinality(R) <= Cardinality(S)
    BY <1>1, FS_Surjection DEF Fits
  <1>3. Cardinality(R) \in Nat /\ Cardinality(S) \in Nat
    BY <1>2, FS_CardinalityType DEF Fits
  <1>4. Fits(R, n)
    BY <1>2, <1>3 DEF Fits
  <1> QED BY <1>4, FitsSubset

LEMMA FitsAdd ==
    ASSUME NEW S, NEW n \in Nat, Fits(S, n), NEW x, Cardinality(S) < n
    PROVE  Fits(S \cup {x}, n)
  <1>1. Cardinality(S) \in Nat
    BY FS_CardinalityType DEF Fits
  <1> QED BY <1>1, FS_AddElement DEF Fits

\* pick_oldest finds no more entries than there are free units: each has a rank
\* of its own among the ready ones.
LEMMA OldestFits ==
    ASSUME LsuInv, Fits(sq, SchedqCap), NEW ops, NEW free \in Nat
    PROVE  Fits(Tags(OldestReady(ops, free)), free)
  <1> DEFINE ready == {e \in sq : ~e.busy /\ e.inst.op \in ops /\ SourcesReady(e)}
             before(e) == {f \in ready : f.inst.n < e.inst.n}
             fired == OldestReady(ops, free)
             rank == [e \in fired |-> Cardinality(before(e))]
  <1>1. fired = {e \in ready : Cardinality(before(e)) < free}
    BY DEF OldestReady
  <1>2. \A e \in ready : e \in sq /\ e.inst.n \in Nat
    BY DEF LsuInv, EntriesNamed, Shaped, Fetched
  <1>3. IsFiniteSet(ready)
    BY FS_Subset DEF Fits
  <1>4. \A e \in ready : IsFiniteSet(before(e)) /\ Cardinality(before(e)) \in Nat
    <2>1. ASSUME NEW e \in ready
          PROVE  IsFiniteSet(before(e)) /\ Cardinality(before(e)) \in Nat
      <3>1. before(e) \in SUBSET ready
        OBVIOUS
      <3> HIDE DEF ready, before
      <3>2. IsFiniteSet(before(e))
        BY <1>3, <3>1, FS_Subset
      <3> QED BY <3>2, FS_CardinalityType
    <2> QED BY <2>1
  <1>5. ASSUME NEW e \in ready, NEW f \in ready, e.inst.n < f.inst.n
        PROVE  Cardinality(before(e)) < Cardinality(before(f))
    <2>1. before(e) \in SUBSET before(f)
      BY <1>2, <1>5
    <2>2. e \in before(f) /\ e \notin before(e)
      BY <1>2, <1>5
    <2> HIDE DEF ready, before
    <2>3. /\ IsFiniteSet(before(f)) /\ Cardinality(before(e)) \in Nat
          /\ Cardinality(before(f)) \in Nat
      BY <1>4
    <2>4. /\ Cardinality(before(e)) <= Cardinality(before(f))
          /\ Cardinality(before(e)) # Cardinality(before(f))
      BY <2>1, <2>2, <2>3, FS_Subset
    <2> QED BY <2>3, <2>4
  <1> HIDE DEF before, ready
  <1>6. \A e \in fired : e \in ready /\ Cardinality(before(e)) \in 0 .. free - 1
    <2>1. ASSUME NEW e \in fired
          PROVE  e \in ready /\ Cardinality(before(e)) \in 0 .. free - 1
      <3>1. e \in ready /\ Cardinality(before(e)) < free
        BY <1>1
      <3>2. Cardinality(before(e)) \in Nat
        BY <1>4, <3>1
      <3> QED BY <3>1, <3>2
    <2> QED BY <2>1
  <1> HIDE DEF fired
  <1>7. rank \in [fired -> 0 .. free - 1]
    BY <1>6
  <1>8. ASSUME NEW e \in fired, NEW f \in fired, rank[e] = rank[f]
        PROVE  e = f
    <2>1. e \in ready /\ f \in ready
      BY <1>6
    <2>2. Cardinality(before(e)) = Cardinality(before(f)) /\ Cardinality(before(e)) \in Nat
      BY <1>4, <1>8, <2>1
    <2>3. ~(e.inst.n < f.inst.n) /\ ~(f.inst.n < e.inst.n)
      BY <1>5, <2>1, <2>2
    <2>4. e.inst.n = f.inst.n
      BY <1>2, <2>1, <2>3
    <2> QED BY <1>2, <2>1, <2>4 DEF LsuInv, EntriesNamed
  <1>9. rank \in Injection(fired, 0 .. free - 1)
    BY <1>7, <1>8 DEF Injection, IsInjective
  <1>10. IsFiniteSet(0 .. free - 1) /\ Cardinality(0 .. free - 1) = free
    <2>1. IsFiniteSet(0 .. free - 1) /\ Cardinality(0 .. free - 1) = IF 0 > free - 1 THEN 0 ELSE (free - 1) - 0 + 1
      BY FS_Interval
    <2> QED BY <2>1
  <1>11. Fits(fired, free)
    BY <1>9, <1>10, FS_Injection DEF Fits
  <1>12. Tags(fired) = {[e \in fired |-> e.tag][x] : x \in fired}
    BY DEF Tags
  <1> QED BY <1>11, <1>12, FitsImage DEF fired

\* A pool takes at most as many as it has free units.
LEMMA FitsTogether ==
    ASSUME NEW S, NEW T, NEW n \in Nat, Fits(S, n), Fits(T, n - Cardinality(S))
    PROVE  Fits(S \cup T, n)
  <1>1. /\ IsFiniteSet(S \cup T) /\ IsFiniteSet(S \cap T)
        /\ Cardinality(S \cup T) = Cardinality(S) + Cardinality(T) - Cardinality(S \cap T)
    BY FS_Union, FS_Intersection DEF Fits
  <1>2. Cardinality(S) \in Nat /\ Cardinality(T) \in Nat /\ Cardinality(S \cap T) \in Nat
    BY <1>1, FS_CardinalityType DEF Fits
  <1> QED BY <1>1, <1>2 DEF Fits

LEMMA InitCapacity == Init => CapacityInv
  <1> SUFFICES ASSUME Init PROVE CapacityInv
    OBVIOUS
  <1>1. /\ stage = "retire" /\ done = 0 /\ eof = FALSE /\ dispq = <<>> /\ sq = {} /\ mshr = {}
        /\ alu = {} /\ mul = <<{}, {}, {}>> /\ lsu = {}
        /\ watchdog = [sig |-> <<>>, stall |-> 0, deadlocked |-> FALSE]
    BY DEF Init
  <1>2. \A n \in Nat : Fits({}, n)
    BY FS_EmptySet DEF Fits
  <1>3. \A i \in 1 .. 3 : mul[i] = {}
    BY <1>1
  <1>4. WatchdogShaped
    BY <1>1, Sizes DEF WatchdogShaped
  <1>5. AllAddressed
    <2>1. DOMAIN dispq = {}
      BY <1>1
    <2> QED BY <1>1, <2>1 DEF AllAddressed
  <1>6. /\ SchedqCap \in Nat /\ MshrSize \in Nat /\ AluFus \in Nat /\ LsuFus \in Nat
        /\ MulFus \in Nat
    BY Sizes
  <1> QED BY <1>1, <1>2, <1>3, <1>4, <1>5, <1>6 DEF CapacityInv, Stages

\* Marking and waking make no entry and change no instruction.
LEMMA MarkFits ==
    ASSUME LsuInv, CapacityInv, NEW fired \in SUBSET sq, sq' = MarkBusy(fired)
    PROVE  Fits(sq', SchedqCap) /\ \A f \in sq' : Addressed(f.inst)
  <1>1. PICK g : g = [e \in sq |-> IF e \in fired THEN [e EXCEPT !.busy = TRUE] ELSE e]
    OBVIOUS
  <1>2. sq' \subseteq {g[e] : e \in sq}
    BY <1>1 DEF MarkBusy
  <1>3. Fits(sq', SchedqCap)
    BY <1>2, FitsImage, Sizes DEF CapacityInv
  <1>4. \A f \in sq' : \E e \in sq : f.inst = e.inst
    BY MarkRenews DEF Renews
  <1> QED BY <1>3, <1>4 DEF CapacityInv, AllAddressed

LEMMA ExecCapacity == ASSUME LsuInv, OrderInv, CapacityInv, Exec PROVE CapacityInv'
  <1>0. PICK tags : tags = alu \cup mul[3] \cup Answered
    OBVIOUS
  <1>1. /\ stage' = "alu" /\ done' = 0 /\ UNCHANGED <<eof, watchdog, dispq>>
        /\ sq' = {Wake(e, tags) : e \in {f \in sq : f.tag \notin tags}}
        /\ alu' = {} /\ mul' = <<{}, mul[1], mul[2]>>
        /\ lsu' = lsu \ Answered /\ mshr' = Release(Answered)
    BY <1>0 DEF Exec, WriteBack, Goto, front
  <1>2. /\ SchedqCap \in Nat /\ MshrSize \in Nat /\ AluFus \in Nat /\ LsuFus \in Nat
        /\ MulFus \in Nat
    BY Sizes
  <1>3. Fits(sq', SchedqCap)
    <2>1. PICK g : g = [e \in sq |-> Wake(e, tags)]
      OBVIOUS
    <2>2. sq' \subseteq {g[e] : e \in sq}
      BY <1>1, <2>1
    <2> QED BY <1>2, <2>2, FitsImage DEF CapacityInv
  <1>4. Fits(mshr', MshrSize)
    <2>1. PICK g : g = [m \in mshr |-> [m EXCEPT !.ids = @ \ Answered]]
      OBVIOUS
    <2>2. mshr' \subseteq {g[m] : m \in mshr}
      BY <1>1, <2>1 DEF Release
    <2> QED BY <1>2, <2>2, FitsImage DEF CapacityInv
  <1>5. Fits(alu', AluFus) /\ Fits(lsu', LsuFus)
    <2>1. alu' \subseteq alu /\ lsu' \subseteq lsu
      BY <1>1
    <2> QED BY <1>2, <2>1, FitsSubset DEF CapacityInv
  <1>6. \A i \in 1 .. 3 : Fits(mul'[i], MulFus)
    <2>1. mul'[1] \subseteq mul[1] /\ mul'[2] = mul[1] /\ mul'[3] = mul[2]
      BY <1>1
    <2>2. Fits(mul[1], MulFus) /\ Fits(mul[2], MulFus)
      BY DEF CapacityInv
    <2>3. Fits(mul'[1], MulFus)
      BY <1>2, <2>1, <2>2, FitsSubset
    <2> QED BY <2>1, <2>2, <2>3
  <1>7. AllAddressed'
    <2>1. \A f \in sq' : \E e \in sq : f.inst = e.inst
      BY <1>1 DEF Wake, OrderInv, SchedPlaced, SchedType
    <2>2. \A m \in mshr' : \E k \in mshr : m.block = k.block
      <3>1. ASSUME NEW m \in mshr'
            PROVE  \E k \in mshr : m.block = k.block
        <4>1. PICK k \in mshr : m = [k EXCEPT !.ids = @ \ Answered]
          BY <1>1 DEF Release
        <4>2. k \in MissEntries
          BY DEF LsuInv, LsuBooked
        <4> QED BY <4>1, <4>2 DEF MissEntries
      <3> QED BY <3>1
    <2> QED BY <1>1, <2>1, <2>2 DEF CapacityInv, AllAddressed
  <1>8. WatchdogShaped'
    BY <1>1 DEF CapacityInv, WatchdogShaped
  <1> QED BY <1>1, <1>3, <1>4, <1>5, <1>6, <1>7, <1>8 DEF CapacityInv, Stages

LEMMA ScheduleCapacity ==
    ASSUME LsuInv, CapacityInv, ScheduleAlu \/ ScheduleMul
    PROVE  CapacityInv'
  <1>1. /\ SchedqCap \in Nat /\ MshrSize \in Nat /\ AluFus \in Nat /\ LsuFus \in Nat
        /\ MulFus \in Nat
    BY Sizes
  <1>2. CASE ScheduleAlu
    <2>1. PICK fired : fired = OldestReady({"Alu", "Branch"}, AluFus - Cardinality(alu))
      OBVIOUS
    <2>2. /\ sq' = MarkBusy(fired) /\ alu' = alu \cup Tags(fired)
          /\ stage' = "mul" /\ done' = 0
          /\ UNCHANGED <<mul, lsu, mshr, eof, dispq, watchdog>>
      BY <1>2, <2>1 DEF ScheduleAlu, Goto, front
    <2>3. AluFus - Cardinality(alu) \in Nat
      BY <1>1, FS_CardinalityType DEF CapacityInv, Fits
    <2>4. fired \in SUBSET sq /\ Fits(Tags(fired), AluFus - Cardinality(alu))
      BY <2>1, <2>3, OldestFits DEF OldestReady, CapacityInv
    <2>5. Fits(alu', AluFus)
      BY <1>1, <2>2, <2>4, FitsTogether DEF CapacityInv
    <2>6. Fits(sq', SchedqCap) /\ \A f \in sq' : Addressed(f.inst)
      BY <2>2, <2>4, MarkFits
    <2>7. AllAddressed' /\ WatchdogShaped'
      BY <2>2, <2>6 DEF CapacityInv, AllAddressed, WatchdogShaped
    <2> QED BY <2>2, <2>5, <2>6, <2>7 DEF CapacityInv, Stages
  <1>3. CASE ScheduleMul
    <2>1. PICK fired : fired = OldestReady({"Mul"}, MulFus - Cardinality(mul[1]))
      OBVIOUS
    <2>2. /\ sq' = MarkBusy(fired) /\ mul' = [mul EXCEPT ![1] = @ \cup Tags(fired)]
          /\ stage' = "lsu" /\ done' = 0
          /\ UNCHANGED <<alu, lsu, mshr, eof, dispq, watchdog>>
      BY <1>3, <2>1 DEF ScheduleMul, Goto, front
    <2>3. Fits(mul[1], MulFus) /\ Fits(mul[2], MulFus) /\ Fits(mul[3], MulFus)
      BY DEF CapacityInv
    <2>4. MulFus - Cardinality(mul[1]) \in Nat
      BY <1>1, <2>3, FS_CardinalityType DEF Fits
    <2>5. fired \in SUBSET sq /\ Fits(Tags(fired), MulFus - Cardinality(mul[1]))
      BY <2>1, <2>4, OldestFits DEF OldestReady, CapacityInv
    <2>6. mul'[1] = mul[1] \cup Tags(fired) /\ mul'[2] = mul[2] /\ mul'[3] = mul[3]
      BY <2>2 DEF LsuInv, UnitsTyped
    <2>7. Fits(mul'[1], MulFus)
      BY <1>1, <2>3, <2>5, <2>6, FitsTogether
    <2>8. \A i \in 1 .. 3 : Fits(mul'[i], MulFus)
      BY <2>3, <2>6, <2>7
    <2>9. Fits(sq', SchedqCap) /\ \A f \in sq' : Addressed(f.inst)
      BY <2>2, <2>5, MarkFits
    <2>10. AllAddressed' /\ WatchdogShaped'
      BY <2>2, <2>9 DEF CapacityInv, AllAddressed, WatchdogShaped
    <2> QED BY <2>2, <2>8, <2>9, <2>10 DEF CapacityInv, Stages
  <1> QED BY <1>2, <1>3

\* Issue takes a slot only when there is one, or merges into one that is taken.
LEMMA FireCapacity == ASSUME LsuInv, CapacityInv, FireLsu PROVE CapacityInv'
  <1>0. PICK e : e = OldestMayFire
    OBVIOUS
  <1>1. e \in MayFire
    BY <1>0, OldestThere DEF FireLsu, LsuGoesOn
  <1>2. /\ lsu' = lsu \cup {e.tag} /\ sq' = MarkBusy({e}) /\ mshr' = MshrAllocate(e)
        /\ done' = done + 1 /\ Cardinality(lsu) < LsuFus /\ ~Refused(e)
        /\ UNCHANGED <<stage, dispq, alu, mul, eof, watchdog>>
    BY <1>0 DEF FireLsu, LsuGoesOn, front
  <1>3. e \in sq /\ e.inst.op \in {"Load", "Store"}
    BY <1>1 DEF MayFire, IsMemory, IsLoad, IsStore
  <1>4. e.inst.block \in Blocks
    BY <1>3 DEF CapacityInv, AllAddressed, Addressed
  <1>5. MshrSize \in Nat /\ LsuFus \in Nat
    BY Sizes
  <1>6. Fits(lsu', LsuFus)
    BY <1>2, <1>5, FitsAdd DEF CapacityInv
  <1>7. Fits(sq', SchedqCap) /\ \A f \in sq' : Addressed(f.inst)
    <2>1. {e} \in SUBSET sq
      BY <1>3
    <2> QED BY <1>2, <2>1, MarkFits
  <1>8. Fits(mshr', MshrSize) /\ \A m \in mshr' : m.block \in Blocks
    <2>1. mshr \subseteq MissEntries /\ \A m \in mshr : m.block \in Blocks
      BY DEF LsuInv, LsuBooked, CapacityInv, AllAddressed
    <2>2. CASE Targeting(e.inst.block) # {}
      <3>1. PICK g : g = [m \in mshr |-> IF m.block = e.inst.block
                                         THEN [m EXCEPT !.ids = @ \cup {e.tag}] ELSE m]
        OBVIOUS
      <3>2. mshr' = {g[m] : m \in mshr}
        BY <1>2, <2>2, <3>1 DEF MshrAllocate
      <3>3. \A m \in mshr : g[m].block = m.block
        BY <2>1, <3>1 DEF MissEntries
      <3>4. mshr' \subseteq {g[m] : m \in mshr}
        BY <3>2
      <3>5. Fits(mshr', MshrSize)
        BY <1>5, <3>4, FitsImage DEF CapacityInv
      <3> QED BY <2>1, <3>2, <3>3, <3>5
    <2>3. CASE Targeting(e.inst.block) = {}
      <3>1. PICK new : new = [block |-> e.inst.block, ids |-> {e.tag}, ready |-> FALSE]
        OBVIOUS
      <3>2. mshr' = mshr \cup {new} /\ new.block = e.inst.block
        BY <1>2, <2>3, <3>1 DEF MshrAllocate
      <3>3. Cardinality(mshr) # MshrSize
        BY <1>2, <2>3 DEF Refused, MshrFull
      <3>4. Cardinality(mshr) < MshrSize
        BY <1>5, <3>3, FS_CardinalityType DEF CapacityInv, Fits
      <3> QED BY <1>4, <1>5, <2>1, <3>2, <3>4, FitsAdd DEF CapacityInv
    <2> QED BY <2>2, <2>3
  <1>9. AllAddressed' /\ WatchdogShaped'
    BY <1>2, <1>7, <1>8 DEF CapacityInv, AllAddressed, WatchdogShaped
  <1> QED BY <1>2, <1>6, <1>7, <1>8, <1>9 DEF CapacityInv

LEMMA DispatchCapacity == ASSUME OrderInv, CapacityInv, Dispatch PROVE CapacityInv'
  <1>1. PICK new : sq' = sq \cup {new} /\ new.inst = Head(dispq)
    <2>1. PICK new : /\ new = [inst |-> Head(dispq), tag |-> nextTag, slot |-> rob.tail, busy |-> FALSE,
                               src |-> [i \in 1 .. 2 |-> RatRead(Head(dispq).src[i])]]
                     /\ sq' = sq \cup {new}
      BY DEF Dispatch
    <2>2. new.inst = Head(dispq)
      BY <2>1
    <2> QED BY <2>1, <2>2
  <1>2. /\ dispq # <<>> /\ dispq' = Tail(dispq) /\ done' = done + 1
        /\ Cardinality(sq) < SchedqCap
        /\ UNCHANGED <<stage, alu, mul, lsu, mshr, eof, watchdog>>
    BY DEF Dispatch, MayDispatch, units, front
  <1>3. dispq \in Seq(InstType)
    BY DEF OrderInv, QueueNumbered
  <1>4. /\ 1 \in DOMAIN dispq /\ Head(dispq) = dispq[1]
        /\ \A k \in DOMAIN dispq' : k + 1 \in DOMAIN dispq /\ dispq'[k] = dispq[k + 1]
    BY <1>2, <1>3
  <1>5. AllAddressed'
    BY <1>1, <1>2, <1>4 DEF CapacityInv, AllAddressed
  <1>6. Fits(sq', SchedqCap)
    BY <1>1, <1>2, FitsAdd, Sizes DEF CapacityInv
  <1>7. WatchdogShaped'
    BY <1>2 DEF CapacityInv, WatchdogShaped
  <1> QED BY <1>2, <1>5, <1>6, <1>7 DEF CapacityInv

LEMMA FetchCapacity == ASSUME OrderInv, CapacityInv, Fetch PROVE CapacityInv'
  <1>1. PICK i \in Insts, wrong \in BOOLEAN :
            dispq' = Append(dispq, [n |-> dynCount', op |-> i.op, dest |-> i.dest,
                                    src |-> i.src, block |-> i.block, mispredict |-> wrong])
    BY DEF Fetch
  <1>2. UNCHANGED <<stage, sq, alu, mul, lsu, mshr, eof, watchdog>> /\ done' = done + 1
    BY DEF Fetch, units
  <1>3. PICK new : /\ dispq' = Append(dispq, new)
                   /\ new.op = i.op /\ new.block = i.block
    BY <1>1
  <1>4. Addressed(new)
    BY <1>3, CoreAssumption DEF Addressed
  <1>5. dispq \in Seq(InstType)
    BY DEF OrderInv, QueueNumbered
  <1>6. \A k \in DOMAIN dispq' : \/ k \in DOMAIN dispq /\ dispq'[k] = dispq[k]
                                 \/ dispq'[k] = new
    BY <1>3, <1>5
  <1>7. AllAddressed' /\ WatchdogShaped'
    BY <1>2, <1>4, <1>6 DEF CapacityInv, AllAddressed, WatchdogShaped
  <1> QED BY <1>2, <1>7 DEF CapacityInv

LEMMA ReadyCapacity ==
    ASSUME LsuInv, CapacityInv, NEW b \in Blocks, MarkReady(b)
    PROVE  CapacityInv'
  <1>1. PICK m \in mshr : mshr' = (mshr \ {m}) \cup {[m EXCEPT !.ready = TRUE]}
    BY DEF MarkReady
  <1>2. UNCHANGED <<stage, done, dispq, sq, alu, mul, lsu, eof, watchdog>>
    BY DEF MarkReady, window, front
  <1>3. PICK new : new = [m EXCEPT !.ready = TRUE]
    OBVIOUS
  <1>4. new.block = m.block
    BY <1>3 DEF LsuInv, LsuBooked, MissEntries
  <1>5. PICK g : g = [k \in mshr |-> IF k = m THEN new ELSE k]
    OBVIOUS
  <1>6. mshr' \subseteq {g[k] : k \in mshr}
    BY <1>1, <1>3, <1>5
  <1>7. Fits(mshr', MshrSize)
    BY <1>6, FitsImage, Sizes DEF CapacityInv
  <1>8. \A k \in mshr' : k \in mshr \/ k = new
    BY <1>1, <1>3
  <1>9. AllAddressed' /\ WatchdogShaped'
    BY <1>2, <1>4, <1>8 DEF CapacityInv, AllAddressed, WatchdogShaped
  <1> QED BY <1>2, <1>7, <1>9 DEF CapacityInv

\* The count of idle cycles stops at the threshold.
LEMMA EndCapacity == ASSUME CapacityInv, EndCycle PROVE CapacityInv'
  <1>1. /\ watchdog' = WatchdogTick /\ stage' = "retire" /\ done' = 0
        /\ UNCHANGED <<dispq, sq, alu, mul, lsu, mshr, eof>>
    BY DEF EndCycle, Goto, window, units, front
  <1>2. Threshold \in Nat /\ WatchdogShaped
    BY Sizes DEF CapacityInv
  <1>3. PICK s, d, x : s = watchdog.stall /\ d = watchdog.deadlocked /\ x = watchdog.sig
    OBVIOUS
  <1>4. watchdog = [sig |-> x, stall |-> s, deadlocked |-> d] /\ s \in 0 .. Threshold /\ d \in BOOLEAN
    BY <1>2, <1>3 DEF WatchdogShaped
  <1>5. \E y, t, f : /\ watchdog' = [sig |-> y, stall |-> t, deadlocked |-> f]
                     /\ t \in 0 .. Threshold /\ f \in BOOLEAN
    <2>1. CASE Threshold = 0
      BY <1>1, <1>4, <2>1 DEF WatchdogTick
    <2>2. CASE Threshold # 0 /\ watchdog.sig = ProgressSig
      <3>1. watchdog' = [sig |-> x, stall |-> IF s < Threshold THEN s + 1 ELSE s,
                         deadlocked |-> d \/ s + 1 >= Threshold]
        BY <1>1, <1>4, <2>2 DEF WatchdogTick
      <3>2. (IF s < Threshold THEN s + 1 ELSE s) \in 0 .. Threshold
        BY <1>2, <1>4
      <3> QED BY <3>1, <3>2
    <2>3. CASE Threshold # 0 /\ watchdog.sig # ProgressSig
      <3>1. watchdog' = [sig |-> ProgressSig, stall |-> 0, deadlocked |-> d]
        BY <1>1, <1>4, <2>3 DEF WatchdogTick
      <3>2. 0 \in 0 .. Threshold
        BY <1>2
      <3> QED BY <1>4, <3>1, <3>2
    <2> QED BY <2>1, <2>2, <2>3
  <1>6. WatchdogShaped'
    BY <1>5 DEF WatchdogShaped
  <1>7. AllAddressed'
    BY <1>1 DEF CapacityInv, AllAddressed
  <1> QED BY <1>1, <1>6, <1>7 DEF CapacityInv, Stages

LEMMA StepCapacity ==
    ASSUME LsuInv, OrderInv, CapacityInv, [Next]_vars
    PROVE  CapacityInv'
  <1>1. CASE Retire \/ LsuDone \/ DispatchDone \/ FetchDone \/ FetchEof \/ UNCHANGED vars
    <2>1. UNCHANGED <<dispq, sq, alu, mul, lsu, mshr, watchdog>>
      BY <1>1 DEF Retire, LsuDone, DispatchDone, FetchDone, FetchEof, vars, window, units, front
    <2>2. stage \in Stages /\ done \in Nat /\ eof \in BOOLEAN
      BY DEF CapacityInv
    <2>3. stage' \in Stages /\ done' \in Nat
      BY <1>1, <2>2 DEF Retire, LsuDone, DispatchDone, FetchDone, FetchEof, vars, Goto, Stages
    <2>4. eof' \in BOOLEAN
      BY <1>1, <2>2 DEF Retire, LsuDone, DispatchDone, FetchDone, FetchEof, vars, front
    <2> QED BY <2>1, <2>3, <2>4 DEF CapacityInv, AllAddressed, WatchdogShaped
  <1>2. ASSUME NEW b \in Blocks, MarkReady(b) PROVE CapacityInv'
    BY <1>2, ReadyCapacity
  <1>3. CASE Exec
    BY <1>3, ExecCapacity
  <1>4. CASE ScheduleAlu \/ ScheduleMul
    BY <1>4, ScheduleCapacity
  <1>5. CASE FireLsu
    BY <1>5, FireCapacity
  <1>6. CASE Dispatch
    BY <1>6, DispatchCapacity
  <1>7. CASE Fetch
    BY <1>7, FetchCapacity
  <1>8. CASE EndCycle
    BY <1>8, EndCapacity
  <1> QED BY <1>1, <1>2, <1>3, <1>4, <1>5, <1>6, <1>7, <1>8 DEF Next

LEMMA InvTypeOK == LsuInv /\ OrderInv /\ CapacityInv => TypeOK
  <1> SUFFICES ASSUME LsuInv, OrderInv, CapacityInv PROVE TypeOK
    OBVIOUS
  <1>1. /\ rob.slot \in [0 .. RobSize - 1 -> SlotType]
        /\ {rob.head, rob.tail} \subseteq 0 .. RobSize - 1
        /\ rob.count \in 0 .. RobSize /\ rob.tail = (rob.head + rob.count) % RobSize
    BY RingFields DEF OrderInv, Around
  <1>2. /\ dispq \in Seq(InstType) /\ Len(dispq) <= DispqCap
        /\ sq \in SUBSET SchedType /\ rat \in [Regs -> RatType]
    BY DEF OrderInv, QueueNumbered, SchedPlaced, Renamed
  <1>3. nextTag \in Nat /\ dynCount \in 0 .. MaxFetch /\ retired \in 0 .. MaxFetch
    <2>1. /\ retired \in Nat /\ rob.count \in Nat /\ Len(dispq) \in Nat /\ MaxFetch \in Nat
          /\ dynCount = retired + rob.count + Len(dispq) /\ dynCount \in 0 .. MaxFetch
      BY <1>2, LiveApart, Sizes DEF OrderInv, RingShaped
    <2> QED BY <2>1 DEF LsuInv, EntriesNamed
  <1>4. Tags(sq) \subseteq TagType
    BY <1>2 DEF Tags, SchedType
  <1>5. InUnits \subseteq TagType
    BY <1>4, LsuApart
  <1>6. {alu, lsu} \cup Range(mul) \subseteq SUBSET TagType
    <2>1. alu \subseteq TagType /\ lsu \subseteq TagType
      BY <1>5 DEF InUnits
    <2>2. mul[1] \subseteq TagType /\ mul[2] \subseteq TagType /\ mul[3] \subseteq TagType
      BY <1>5 DEF InUnits
    <2>3. DOMAIN mul = 1 .. 3
      BY DEF LsuInv, UnitsTyped
    <2>4. \A x \in Range(mul) : x = mul[1] \/ x = mul[2] \/ x = mul[3]
      BY <2>3 DEF Range
    <2> QED BY <2>1, <2>2, <2>4
  <1>7. mshr \in SUBSET [block : Blocks, ids : SUBSET TagType, ready : BOOLEAN]
    <2>1. ASSUME NEW m \in mshr
          PROVE  m \in [block : Blocks, ids : SUBSET TagType, ready : BOOLEAN]
      <3>1. m \in MissEntries /\ m.block \in Blocks
        BY DEF LsuInv, LsuBooked, CapacityInv, AllAddressed
      <3>2. m.ids \subseteq TagType
        BY <1>4 DEF LsuInv, LsuBooked
      <3> QED BY <3>1, <3>2 DEF MissEntries
    <2> QED BY <2>1
  <1>8. /\ stage \in Stages /\ done \in Nat /\ eof \in BOOLEAN
        /\ Cardinality(sq) <= SchedqCap /\ Cardinality(mshr) <= MshrSize
        /\ Cardinality(alu) <= AluFus /\ Cardinality(lsu) <= LsuFus
        /\ \A i \in 1 .. 3 : Cardinality(mul[i]) <= MulFus
        /\ watchdog.stall \in 0 .. Threshold /\ watchdog.deadlocked \in BOOLEAN
    BY DEF CapacityInv, Fits, WatchdogShaped
  <1>9. inMispred \in BOOLEAN
    BY DEF OrderInv, BranchLast
  <1> QED BY <1>1, <1>2, <1>3, <1>6, <1>7, <1>8, <1>9 DEF TypeOK

\* Every container of core.hpp:174-183 holds what it is declared to hold, and
\* nothing is ever filled past its capacity, for any capacities.
THEOREM OooTypeCorrect == Spec => []TypeOK
  <1>1. LsuInv /\ OrderInv /\ CapacityInv /\ [Next]_vars => LsuInv' /\ OrderInv' /\ CapacityInv'
    BY StepKeeps, StepKeepsOrder, StepCapacity
  <1>2. Init => LsuInv /\ OrderInv /\ CapacityInv
    BY InitLsuInv, InitOrderInv, InitCapacity
  <1> QED BY <1>1, <1>2, InvTypeOK, PTL DEF Spec
=============================================================================
