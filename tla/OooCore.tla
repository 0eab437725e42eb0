------------------------------- MODULE OooCore -------------------------------
(***************************************************************************)
(* The out-of-order core of src/src/ooo: fetch into a dispatch queue,      *)
(* renaming by tags (RAT), a scheduling queue, ALU, three-stage MUL and    *)
(* load/store units, the MSHRs of the L1 data cache the LSUs poll, and a   *)
(* circular reorder buffer that retires in program order.                  *)
(*                                                                         *)
(* A cycle (OooCore::tick) runs the stages in reverse program order; the   *)
(* variable stage says which one comes next.  Units of a kind are alike,   *)
(* so a pool of them is the set of the tags it holds, and an id handed out *)
(* by Cache::issue is named by the tag of the instruction it was for.      *)
(***************************************************************************)
EXTENDS Integers, FiniteSets, Sequences, SequencesExt, FiniteSetsExt

CONSTANTS NumRegs,      \* architectural registers, numbered from 1
          Blocks,       \* cache blocks, numbered from 1
          Insts,        \* what the trace may hold: a set of instructions
          MaxFetch,     \* bound: length of the trace
          FetchWidth, DispqCap, RobSize, SchedqCap, AluFus, MulFus, LsuFus,
          MshrSize,
          Threshold     \* deadlock_threshold_cycles; 0 turns the watchdog off

NoReg == 0
Regs == 1 .. NumRegs
NoBlock == 0            \* mem_addr of what is not a memory operation
Opcodes == {"Alu", "Mul", "Load", "Store", "Branch"}
Stages == {"retire", "exec", "alu", "mul", "lsu", "dispatch", "fetch", "cache"}

\* What classify() keeps of a record, without the sequence number.
Templates == [op : Opcodes, dest : Regs \cup {NoReg}, src : [1 .. 2 -> Regs \cup {NoReg}],
              block : Blocks \cup {NoBlock}]

ASSUME CoreAssumption ==
    /\ {NumRegs, FetchWidth, DispqCap, RobSize, SchedqCap, AluFus, MulFus,
        LsuFus, MshrSize} \subseteq Nat \ {0}
    /\ MaxFetch \in Nat /\ Threshold \in Nat
    /\ Blocks \subseteq Nat \ {0}
    /\ Insts \subseteq {i \in Templates : i.op \in {"Load", "Store"} => i.block \in Blocks}

VARIABLES stage,        \* the stage that runs next
          done,         \* instructions the running stage has moved this cycle
          dispq,        \* dispq_: fetched, not yet dispatched
          sq,           \* sq_: dispatched, not yet complete
          rob,          \* rob_: the ring's slots, head, tail and count
          rat,          \* rat_: tag and readiness of every register
          nextTag,      \* Rat::next_tag_
          alu, mul, lsu,\* the tags each pool of units holds (mul: per pipeline stage)
          mshr,         \* l1d_: outstanding requests, one entry per block
          inMispred, eof, dynCount,
          retired,      \* stats_.instructions_retired
          watchdog      \* last_progress_sig_, stall_cycles_ and stats_.deadlocked

window == <<dispq, sq, rob, rat, nextTag>>
units == <<alu, mul, lsu, mshr>>
front == <<inMispred, eof, dynCount>>
vars == <<stage, done, window, units, front, retired, watchdog>>

-----------------------------------------------------------------------------
(* The containers. *)

\* A slot nothing was ever written to.
EmptySlot == [ready |-> FALSE, tag |-> 0, inst |-> [n |-> 0, op |-> "Alu"]]

RobFull == rob.count = RobSize
RobEmpty == rob.count = 0
HeadEntry == rob.slot[rob.head]

\* Fault: the next slot is taken to be the one with the number of live slots.
AllocateAtCount(r, e) ==
    [r EXCEPT !.slot[r.count] = e, !.tail = (r.tail + 1) % RobSize, !.count = @ + 1]

\* Rob::allocate.
RobAllocate(r, e) ==
    [r EXCEPT !.slot[r.tail] = e, !.tail = (r.tail + 1) % RobSize, !.count = @ + 1]

\* k calls of Rob::retire_head: a slot keeps its contents.
RetireHeads(r, k) == [r EXCEPT !.head = (@ + k) % RobSize, !.count = @ - k]

\* The indices of the live slots, and their entries, oldest first.
LiveSlots == {(rob.head + i) % RobSize : i \in 0 .. rob.count - 1}
InFlight == [i \in 1 .. rob.count |-> rob.slot[(rob.head + i - 1) % RobSize]]

\* Fault: mark_complete without the comparison of tags.
CompleteStale(tags) ==
    [r \in Regs |-> [rat[r] EXCEPT !.ready =
        @ \/ \E e \in sq : e.tag \in tags /\ e.inst.dest = r]]

\* Rat::read, Rat::write_use, Rat::mark_complete and Rat::flush_to_ready.
RatRead(r) == IF r = NoReg THEN [tag |-> 0, ready |-> TRUE] ELSE rat[r]
WriteUse(r, tag) ==
    IF r = NoReg THEN rat ELSE [rat EXCEPT ![r] = [tag |-> tag, ready |-> FALSE]]
MarkComplete(tags) ==
    [r \in Regs |-> [rat[r] EXCEPT !.ready = @ \/ rat[r].tag \in tags]]

FlushToReady == [r \in Regs |-> [rat[r] EXCEPT !.ready = TRUE]]

\* Fault: wake_dependents that forgets the second source.
WakeFirst(e, tags) == [e EXCEPT !.src[1].ready = @ \/ e.src[1].tag \in tags]

\* SchedQ::wake_dependents, for a set of results.
Wake(e, tags) ==
    [e EXCEPT !.src = [i \in 1 .. 2 |-> [e.src[i] EXCEPT !.ready = @ \/ e.src[i].tag \in tags]]]

-----------------------------------------------------------------------------
Init ==
    /\ stage = "retire" /\ done = 0
    /\ dispq = <<>> /\ sq = {}
    /\ rob = [slot |-> [i \in 0 .. RobSize - 1 |-> EmptySlot], head |-> 0, tail |-> 0, count |-> 0]
    /\ rat = [r \in Regs |-> [tag |-> r, ready |-> TRUE]]
    /\ nextTag = NumRegs + 1
    /\ alu = {} /\ mul = <<{}, {}, {}>> /\ lsu = {} /\ mshr = {}
    /\ inMispred = FALSE /\ eof = FALSE /\ dynCount = 0
    /\ retired = 0
    /\ watchdog = [sig |-> <<>>, stall |-> 0, deadlocked |-> FALSE]

\* The stage after s in a cycle; the count of a stage starts from nothing.
Goto(s) == stage' = s /\ done' = 0

-----------------------------------------------------------------------------
(* stage_state_update *)

Mispredicted(e) == e.inst.op = "Branch" /\ e.inst.mispredict

\* What the loop retires: the completed entries at the head, up to and
\* including the first mispredicted branch.
Retirable ==
    LET ends == {k \in 0 .. rob.count :
                   /\ \A i \in 1 .. k : InFlight[i].ready
                   /\ \A i \in 1 .. k - 1 : ~Mispredicted(InFlight[i])}
    IN  Max(ends)

\* A mispredicted branch that retires makes every register ready, lets fetch
\* go on, and skips the other stages of the cycle (OooCore::tick).
Retire ==
    /\ stage = "retire"
    /\ rob' = RetireHeads(rob, Retirable)
    /\ retired' = retired + Retirable
    /\ IF Retirable > 0 /\ Mispredicted(InFlight[Retirable])
       THEN Goto("cache") /\ rat' = FlushToReady /\ inMispred' = FALSE
       ELSE Goto("exec") /\ UNCHANGED <<rat, inMispred>>
    /\ UNCHANGED <<dispq, sq, nextTag, units, eof, dynCount, watchdog>>

-----------------------------------------------------------------------------
(* stage_exec *)

\* writeback, for a set of completed tags.
WriteBack(tags) ==
    /\ rat' = MarkComplete(tags)
    /\ rob' = [rob EXCEPT !.slot = [i \in DOMAIN @ |->
                  IF \E e \in sq : e.tag \in tags /\ e.slot = i
                  THEN [@[i] EXCEPT !.ready = TRUE] ELSE @[i]]]
    /\ sq' = {Wake(e, tags) : e \in {f \in sq : f.tag \notin tags}}

\* The loads and stores whose MSHR entry is ready (Cache::peek).
Answered == {t \in lsu : \E m \in mshr : m.ready /\ t \in m.ids}

\* Cache::complete: an entry is freed with the last id it holds.
Release(tags) ==
    {m \in {[e EXCEPT !.ids = @ \ tags] : e \in mshr} : m.ids # {}}

Exec ==
    /\ stage = "exec" /\ Goto("alu")
    /\ WriteBack(alu \cup mul[3] \cup Answered)
    /\ alu' = {}
    /\ mul' = <<{}, mul[1], mul[2]>>
    /\ lsu' = lsu \ Answered
    /\ mshr' = Release(Answered)
    /\ UNCHANGED <<dispq, nextTag, front, retired, watchdog>>

-----------------------------------------------------------------------------
(* stage_schedule *)

SourcesReady(e) == e.src[1].ready /\ e.src[2].ready

\* pick_oldest, as often as there are free units.
OldestReady(ops, free) ==
    LET ready == {e \in sq : ~e.busy /\ e.inst.op \in ops /\ SourcesReady(e)}
    IN  {e \in ready : Cardinality({f \in ready : f.inst.n < e.inst.n}) < free}

Tags(entries) == {e.tag : e \in entries}
MarkBusy(entries) == {IF e \in entries THEN [e EXCEPT !.busy = TRUE] ELSE e : e \in sq}

ScheduleAlu ==
    /\ stage = "alu" /\ Goto("mul")
    /\ LET fired == OldestReady({"Alu", "Branch"}, AluFus - Cardinality(alu))
       IN  alu' = alu \cup Tags(fired) /\ sq' = MarkBusy(fired)
    /\ UNCHANGED <<dispq, rob, rat, nextTag, mul, lsu, mshr, front, retired, watchdog>>

\* Only the first stage of a multiplier has to be free.
ScheduleMul ==
    /\ stage = "mul" /\ Goto("lsu")
    /\ LET fired == OldestReady({"Mul"}, MulFus - Cardinality(mul[1]))
       IN  mul' = [mul EXCEPT ![1] = @ \cup Tags(fired)] /\ sq' = MarkBusy(fired)
    /\ UNCHANGED <<dispq, rob, rat, nextTag, alu, lsu, mshr, front, retired, watchdog>>

IsLoad(e) == e.inst.op = "Load"
IsStore(e) == e.inst.op = "Store"
IsMemory(e) == IsLoad(e) \/ IsStore(e)

\* Faults: walks that hold back loads only, or look for older stores only.
AmbiguousLoadsOnly(e) == IsLoad(e) /\ \E f \in sq : f.inst.n < e.inst.n /\ IsStore(f)
AmbiguousStoresOnly(e) == \E f \in sq : f.inst.n < e.inst.n /\ IsStore(f)

\* The disambiguation walk: an older store holds back a load, an older load or
\* store holds back a store.
Ambiguous(e) ==
    \E f \in sq : /\ f.inst.n < e.inst.n
                  /\ IsStore(f) \/ (IsStore(e) /\ IsLoad(f))

MayFire == {e \in sq : ~e.busy /\ IsMemory(e) /\ SourcesReady(e) /\ ~Ambiguous(e)}
OldestMayFire == CHOOSE e \in MayFire : \A f \in MayFire : e.inst.n <= f.inst.n

MshrFull == Cardinality(mshr) = MshrSize
Targeting(b) == {m \in mshr : m.block = b}

\* Cache::issue refuses when there is no entry to merge into and no slot; a
\* write does not look for one to merge into before it asks for a slot.
Refused(e) == MshrFull /\ (IsStore(e) \/ Targeting(e.inst.block) = {})

\* Fault: the id of a merged request is not kept.
MergeForgotten(e) ==
    IF Targeting(e.inst.block) # {} THEN mshr
    ELSE mshr \cup {[block |-> e.inst.block, ids |-> {e.tag}, ready |-> FALSE]}

\* MSHR::allocate: merge into an entry of the same block, or take a slot.
MshrAllocate(e) ==
    IF Targeting(e.inst.block) # {}
    THEN {IF m.block = e.inst.block THEN [m EXCEPT !.ids = @ \cup {e.tag}] ELSE m : m \in mshr}
    ELSE mshr \cup {[block |-> e.inst.block, ids |-> {e.tag}, ready |-> FALSE]}

StoreFired == \E e \in sq : IsStore(e) /\ e.busy /\ e.tag \in lsu

\* There is a unit and something to fire, which has not to wait: at most one
\* store fires in a cycle, and a full MSHR table stalls loads and refuses.
LsuGoesOn ==
    /\ Cardinality(lsu) < LsuFus /\ MayFire # {}
    /\ LET e == OldestMayFire
       IN  ~(IsStore(e) /\ done > 0 /\ StoreFired) /\ ~(IsLoad(e) /\ MshrFull) /\ ~Refused(e)

FireLsu ==
    /\ stage = "lsu" /\ LsuGoesOn
    /\ LET e == OldestMayFire
       IN  /\ lsu' = lsu \cup {e.tag}
           /\ sq' = MarkBusy({e})
           /\ mshr' = MshrAllocate(e)
    /\ done' = done + 1
    /\ UNCHANGED <<stage, dispq, rob, rat, nextTag, alu, mul, front, retired, watchdog>>

LsuDone ==
    /\ stage = "lsu" /\ ~LsuGoesOn /\ Goto("dispatch")
    /\ UNCHANGED <<window, units, front, retired, watchdog>>

-----------------------------------------------------------------------------
(* stage_dispatch *)

\* Fault: dispatch does not ask rob_.full().
DispatchIntoFullRob == dispq # <<>> /\ done < FetchWidth /\ Cardinality(sq) < SchedqCap

MayDispatch ==
    dispq # <<>> /\ done < FetchWidth /\ Cardinality(sq) < SchedqCap /\ ~RobFull

\* The sources are read before the destination is claimed.
Dispatch ==
    /\ stage = "dispatch" /\ MayDispatch
    /\ LET inst == Head(dispq)
       IN  /\ sq' = sq \cup {[inst |-> inst, tag |-> nextTag, slot |-> rob.tail, busy |-> FALSE,
                              src |-> [i \in 1 .. 2 |-> RatRead(inst.src[i])]]}
           /\ rob' = RobAllocate(rob, [ready |-> FALSE, tag |-> nextTag, inst |-> inst])
           /\ rat' = WriteUse(inst.dest, nextTag)
    /\ dispq' = Tail(dispq)
    /\ nextTag' = nextTag + 1
    /\ done' = done + 1
    /\ UNCHANGED <<stage, units, front, retired, watchdog>>

DispatchDone ==
    /\ stage = "dispatch" /\ ~MayDispatch /\ Goto("fetch")
    /\ UNCHANGED <<window, units, front, retired, watchdog>>

-----------------------------------------------------------------------------
(* stage_fetch *)

\* Fault: fetch goes on past a mispredicted branch.
FetchWrongPath == ~eof /\ done < FetchWidth /\ Len(dispq) < DispqCap

MayFetch == /\ ~inMispred /\ ~eof /\ done < FetchWidth
            /\ Len(dispq) < DispqCap

\* The predictor is right or wrong; a mispredicted branch ends the fetching.
Fetch ==
    /\ stage = "fetch" /\ MayFetch /\ dynCount < MaxFetch
    /\ dynCount' = dynCount + 1 /\ done' = done + 1
    /\ \E i \in Insts, wrong \in BOOLEAN :
         /\ wrong => i.op = "Branch"
         /\ dispq' = Append(dispq, [n |-> dynCount', op |-> i.op, dest |-> i.dest,
                                    src |-> i.src, block |-> i.block, mispredict |-> wrong])
         /\ inMispred' = wrong
    /\ UNCHANGED <<stage, sq, rob, rat, nextTag, units, eof, retired, watchdog>>

\* The fetch of this cycle ends: nothing may be fetched, the reader is blocked
\* at a synchronisation gate, or the trace is at its end.
FetchDone ==
    /\ stage = "fetch" /\ Goto("cache")
    /\ UNCHANGED eof
    /\ UNCHANGED <<window, units, inMispred, dynCount, retired, watchdog>>

FetchEof ==
    /\ stage = "fetch" /\ MayFetch /\ Goto("cache")
    /\ eof' = TRUE
    /\ UNCHANGED <<window, units, inMispred, dynCount, retired, watchdog>>

-----------------------------------------------------------------------------
(* The end of the cycle *)

\* Cache::tick and Cache::mark_ready: the answer of an outstanding request.
MarkReady(b) ==
    /\ stage = "cache"
    /\ \E m \in mshr :
         /\ m.block = b /\ ~m.ready
         /\ mshr' = (mshr \ {m}) \cup {[m EXCEPT !.ready = TRUE]}
    /\ UNCHANGED <<stage, done, window, alu, mul, lsu, front, retired, watchdog>>

ProgressSig == <<retired, dynCount, rob.count, Cardinality(sq), Len(dispq)>>

\* The watchdog counts the cycles in a row that leave the signature as it was.
WatchdogTick ==
    IF Threshold = 0 THEN watchdog
    ELSE IF watchdog.sig = ProgressSig
    THEN [watchdog EXCEPT !.stall = IF @ < Threshold THEN @ + 1 ELSE @,
                          !.deadlocked = @ \/ watchdog.stall + 1 >= Threshold]
    ELSE [watchdog EXCEPT !.stall = 0, !.sig = ProgressSig]

EndCycle ==
    /\ stage = "cache" /\ Goto("retire")
    /\ watchdog' = WatchdogTick
    /\ UNCHANGED <<window, units, front, retired>>

Next == \/ Retire \/ Exec \/ ScheduleAlu \/ ScheduleMul \/ FireLsu \/ LsuDone
        \/ Dispatch \/ DispatchDone \/ Fetch \/ FetchDone \/ FetchEof
        \/ \E b \in Blocks : MarkReady(b)
        \/ EndCycle

Spec == Init /\ [][Next]_vars

\* The driver ticks the core for ever, and the memory system answers every
\* outstanding request.
FairSpec == /\ Spec /\ WF_vars(Next)
            /\ \A b \in Blocks : SF_vars(MarkReady(b))

-----------------------------------------------------------------------------
(* Properties *)

InstType == [n : 1 .. MaxFetch, op : Opcodes, dest : Regs \cup {NoReg},
             src : [1 .. 2 -> Regs \cup {NoReg}], block : Blocks \cup {NoBlock},
             mispredict : BOOLEAN]
TagType == 1 .. NumRegs + MaxFetch
RatType == [tag : TagType \cup {0}, ready : BOOLEAN]
SlotType == {EmptySlot} \cup [ready : BOOLEAN, tag : TagType, inst : InstType]
SchedType == [inst : InstType, tag : TagType, slot : 0 .. RobSize - 1, busy : BOOLEAN,
              src : [1 .. 2 -> RatType]]

(* Every container of core.hpp:174-183 holds what it is declared to hold, and  *)
(* no queue, pool of units, MSHR table or ring is ever filled past its         *)
(* capacity, whatever the order in which stages fill and drain them.           *)
TypeOK ==
    /\ stage \in Stages /\ done \in Nat
    /\ dispq \in Seq(InstType) /\ Len(dispq) <= DispqCap
    /\ sq \in SUBSET SchedType /\ Cardinality(sq) <= SchedqCap
    /\ rob.slot \in [0 .. RobSize - 1 -> SlotType]
    /\ {rob.head, rob.tail} \subseteq 0 .. RobSize - 1
    /\ rob.count \in 0 .. RobSize /\ rob.tail = (rob.head + rob.count) % RobSize
    /\ rat \in [Regs -> RatType] /\ nextTag \in Nat
    /\ {alu, lsu} \cup Range(mul) \subseteq SUBSET TagType
    /\ Cardinality(alu) <= AluFus /\ Cardinality(lsu) <= LsuFus
    /\ \A i \in 1 .. 3 : Cardinality(mul[i]) <= MulFus
    /\ mshr \in SUBSET [block : Blocks, ids : SUBSET TagType, ready : BOOLEAN]
    /\ Cardinality(mshr) <= MshrSize
    /\ inMispred \in BOOLEAN /\ eof \in BOOLEAN
    /\ dynCount \in 0 .. MaxFetch /\ retired \in 0 .. MaxFetch
    /\ watchdog.stall \in 0 .. Threshold /\ watchdog.deadlocked \in BOOLEAN

(* What is in flight is one gapless stretch of the program: the ring, read     *)
(* from its head round its end, then the dispatch queue, carry on where        *)
(* retirement stopped (rob.cpp:8-17, core.cpp:478-508).                        *)
ProgramOrder ==
    LET ring == [i \in 1 .. rob.count |-> InFlight[i].inst.n]
        queue == [i \in DOMAIN dispq |-> dispq[i].n]
    IN  ring \o queue = [i \in 1 .. dynCount - retired |-> retired + i]

(* The mispredicted branch the front end waits for is the youngest instruction *)
(* in flight, so that its retirement, which empties nothing but the RAT, has   *)
(* nothing to squash (core.cpp:165-180, 573-578).                              *)
MispredictIsYoungest ==
    LET insts == [i \in 1 .. rob.count |-> InFlight[i].inst] \o dispq
    IN  \A i \in DOMAIN insts :
          insts[i].op = "Branch" /\ insts[i].mispredict => i = Len(insts) /\ inMispred

(* Queues, units and MSHRs tell one story: a scheduling entry stands for a     *)
(* live, incomplete slot of the ring and points at it; an entry is busy when a *)
(* unit holds its tag; the LSUs wait for exactly the ids the MSHRs hold.       *)
BooksAgree ==
    /\ \A e \in sq : /\ e.slot \in LiveSlots
                     /\ rob.slot[e.slot] = [ready |-> FALSE, tag |-> e.tag, inst |-> e.inst]
    /\ \A i \in 1 .. rob.count : InFlight[i].ready \/ InFlight[i].tag \in Tags(sq)
    /\ Tags({e \in sq : e.busy}) = alu \cup mul[1] \cup mul[2] \cup mul[3] \cup lsu
    /\ lsu = UNION {m.ids : m \in mshr}

\* The youngest instruction of the ring before sequence number n that writes r.
WritersBefore(r, n) == {i \in 1 .. rob.count : InFlight[i].inst.dest = r /\ InFlight[i].inst.n < n}

Follows(operand, r, n) ==
    LET writers == WritersBefore(r, n)
        w == InFlight[Max(writers)]
    IN  IF r = NoReg \/ writers = {} THEN operand.ready
        ELSE operand.ready = w.ready /\ (w.ready \/ operand.tag = w.tag)

(* Renaming is exact: a source waits for its producer, the youngest older      *)
(* writer of its register, as long as that is incomplete and no longer, and    *)
(* the RAT shows the same for the next instruction - through overwritten tags, *)
(* stale completions and the flush (rat.cpp:15-41, core.cpp:291-296).          *)
DataflowExact ==
    /\ \A e \in sq, i \in 1 .. 2 : Follows(e.src[i], e.inst.src[i], e.inst.n)
    /\ \A r \in Regs : Follows(rat[r], r, dynCount + 1)

(* Two memory operations of which one is a store go to the cache in program    *)
(* order: the younger is issued after the older has its answer                 *)
(* (core.cpp:373-386).                                                         *)
MemoryOrdered ==
    \A i, j \in 1 .. rob.count :
      LET a == InFlight[i]
          b == InFlight[j]
      IN  /\ i < j /\ {a.inst.op, b.inst.op} \subseteq {"Load", "Store"}
          /\ "Store" \in {a.inst.op, b.inst.op} /\ (b.ready \/ b.tag \in lsu)
          => a.ready

(* A store that may fire finds the MSHRs empty.  So issue never refuses it,    *)
(* though nobody asked full() for it first (core.cpp:428-430), and it never    *)
(* merges into a read's entry, which MSHR::allocate would do in spite of       *)
(* cache.cpp:491-495.                                                          *)
StoresFindMshrEmpty ==
    stage = "lsu" => \A e \in MayFire : IsStore(e) => mshr = {} /\ lsu = {}

(* Whatever was fetched retires: no wake-up is lost, no unit, slot or MSHR     *)
(* leaks, and no load waits behind a store that waits for it.                  *)
EveryInstRetires ==
    \A k \in 1 .. MaxFetch : dynCount >= k ~> retired >= k

(* core.cpp:88-91: a signature that sits unchanged for the threshold's number  *)
(* of cycles means that "the pipeline is wedged".  Then it is not merely       *)
(* empty, with more of the trace to come: nothing in it to be stuck.           *)
DeadlockedMeansWedged == watchdog.deadlocked => ~RobEmpty \/ dispq # <<>> \/ eof

=============================================================================
