------------------------------ MODULE SyncReplay ------------------------------
(***************************************************************************)
(* A multi-thread program recorded by casim_synth and replayed on one core *)
(* per thread.  The recording numbers the uses of every mutex, barrier and *)
(* atomic; in the replay trace::Reader polls the SyncCoordinator before a  *)
(* record may enter the pipeline, and the core reports to it when a        *)
(* signalling record retires, cycles later.  A core is reduced to what the *)
(* module OooCore shows of it: it fetches and retires in trace order.      *)
(***************************************************************************)
EXTENDS Integers, Sequences, FiniteSets

CONSTANTS Threads,      \* the recorded threads, one core each
          Mutexes, Barriers, Atomics,
          Participants, \* the arrivals every barrier expects
          MaxEmits      \* bound: calls that record something

ASSUME ParticipantsAssumption == Participants \in Nat \ {0}
ASSUME MaxEmitsAssumption == MaxEmits \in Nat
ASSUME NonemptyAssumption == Threads # {}

VARIABLES
  recording,  \* the program is still being written
  emitted,    \* calls so far, at most MaxEmits
  trace,      \* trace[t]: the records of thread t
  lockSeq,    \* next_lock_seq_
  held,       \* held[t]: held_locks, a stack of [obj, seq]
  iter,       \* BarrierState::iter of the recorder
  gathered,   \* BarrierState::arrived_this_iter
  atomicSeq,  \* the tracer's counter of each atomic
  real,       \* history: the order of the calls is an execution of the program
  fetched,    \* fetched[t]: records the reader has let through
  pending,    \* pending[t]: pending_sync_ holds the record after them
  retired,    \* retired[t]: the last record to leave the pipeline
  lastLock,   \* locks_[m].last_completed_seq
  lastAtomic, \* atomics_[a].last_completed_seq
  arrived,    \* barriers_[b].by_seq[i].arrived
  expected    \* barriers_[b].by_seq[i].expected

recVars == <<recording, emitted, trace, lockSeq, held, iter, gathered,
             atomicSeq, real>>
coordVars == <<lastLock, lastAtomic, arrived, expected>>
vars == <<recVars, fetched, pending, retired, coordVars>>

Record(kind, obj, seq, extra) ==
  [kind |-> kind, obj |-> obj, seq |-> seq, extra |-> extra]
Instr == Record("Instr", "none", 0, 0)
Iterations == 0 .. MaxEmits

Init ==
  /\ recording = TRUE /\ emitted = 0 /\ real = TRUE
  /\ trace = [t \in Threads |-> <<>>]
  /\ lockSeq = [m \in Mutexes |-> 0]
  /\ held = [t \in Threads |-> <<>>]
  /\ iter = [b \in Barriers |-> 0]
  /\ gathered = [b \in Barriers |-> 0]
  /\ atomicSeq = [a \in Atomics |-> 0]
  /\ fetched = [t \in Threads |-> 0]
  /\ pending = [t \in Threads |-> FALSE]
  /\ retired = [t \in Threads |-> 0]
  /\ lastLock = [m \in Mutexes |-> -1]
  /\ lastAtomic = [a \in Atomics |-> -1]
  /\ arrived = [b \in Barriers |-> [i \in Iterations |-> 0]]
  /\ expected = [b \in Barriers |-> [i \in Iterations |-> 0]]

-------------------------------------------------------------------------------
(* The recording.                                                          *)

\* In an execution t would be waiting in a barrier.
InBarrier(t) ==
  \E b \in Barriers : /\ trace[t] # <<>>
                      /\ trace[t][Len(trace[t])] =
                           Record("BarrierLeave", b, iter[b], 0)

HeldBy(t, m) == \E k \in 1 .. Len(held[t]) : held[t][k].obj = m

\* One call on a ThreadHandle, real if an execution could make it here.
Emit(t, inExecution) ==
  /\ recording /\ emitted < MaxEmits
  /\ emitted' = emitted + 1
  /\ real' = (real /\ ~InBarrier(t) /\ inExecution)
  /\ UNCHANGED <<recording, fetched, pending, retired, coordVars>>

\* emit_alu_block, emit_mul_block, emit_load, emit_store, emit_branch: one record.
EmitInstr(t) ==
  /\ Emit(t, TRUE)
  /\ trace' = [trace EXCEPT ![t] = Append(@, Instr)]
  /\ UNCHANGED <<lockSeq, held, iter, gathered, atomicSeq>>

\* emit_lock: a load and a store of the lock word, then the acquire.
EmitLock(t, m) ==
  /\ Emit(t, \A u \in Threads : ~HeldBy(u, m))
  /\ trace' = [trace EXCEPT ![t] = Append(Append(Append(@, Instr), Instr),
                                 Record("LockAcquire", m, lockSeq[m], 0))]
  /\ held' = [held EXCEPT ![t] = Append(@, [obj |-> m, seq |-> lockSeq[m]])]
  /\ lockSeq' = [lockSeq EXCEPT ![m] = @ + 1]
  /\ UNCHANGED <<iter, gathered, atomicSeq>>

\* emit_unlock: only the lock taken last may be released.
EmitUnlock(t) ==
  /\ held[t] # <<>>
  /\ Emit(t, TRUE)
  /\ LET top == held[t][Len(held[t])] IN
     trace' = [trace EXCEPT ![t] = Append(Append(@, Instr),
                                 Record("LockRelease", top.obj, top.seq, 0))]
  /\ held' = [held EXCEPT ![t] = SubSeq(@, 1, Len(@) - 1)]
  /\ UNCHANGED <<lockSeq, iter, gathered, atomicSeq>>

\* emit_barrier: the arrival and the departure of the current iteration.
EmitBarrier(t, b) ==
  /\ Emit(t, TRUE)
  /\ trace' = [trace EXCEPT ![t] =
       Append(Append(@, Record("BarrierArrive", b, iter[b], Participants)),
              Record("BarrierLeave", b, iter[b], 0))]
  /\ LET last == gathered[b] + 1 >= Participants IN
     /\ gathered' = [gathered EXCEPT ![b] = IF last THEN 0 ELSE @ + 1]
     /\ iter' = [iter EXCEPT ![b] = IF last THEN @ + 1 ELSE @]
  /\ UNCHANGED <<lockSeq, held, atomicSeq>>

\* An atomic access, which only an outside tracer records.
EmitAtomic(t, a) ==
  /\ Emit(t, TRUE)
  /\ trace' = [trace EXCEPT ![t] =
       Append(@, Record("Atomic", a, atomicSeq[a], 0))]
  /\ atomicSeq' = [atomicSeq EXCEPT ![a] = @ + 1]
  /\ UNCHANGED <<lockSeq, held, iter, gathered>>

\* Program::write: nothing can be recorded after it.
WriteProgram ==
  /\ recording
  /\ recording' = FALSE
  /\ real' = (real /\ \A b \in Barriers : gathered[b] = 0)
  /\ UNCHANGED <<emitted, trace, lockSeq, held, iter, gathered, atomicSeq,
                 fetched, pending, retired, coordVars>>

-------------------------------------------------------------------------------
(* The replay.                                                             *)

\* Fault: the gate of a lock lets the next holder in one release early.
LockOpenEarly(r) == lastLock[r.obj] + 2 >= r.seq

\* Fault: an acquire waits for its own release.
LockOpenLate(r) == lastLock[r.obj] >= r.seq

LockOpen(r) == lastLock[r.obj] + 1 >= r.seq

\* Fault: atomics are let through as other instructions are.
AtomicOpenAlways(r) == TRUE

AtomicOpen(r) == lastAtomic[r.obj] + 1 >= r.seq

\* Fault: a barrier nobody has arrived at has nothing to wait for.
BarrierOpenEmpty(r) == arrived[r.obj][r.seq] >= expected[r.obj][r.seq]

BarrierOpen(r) == /\ expected[r.obj][r.seq] # 0
                  /\ arrived[r.obj][r.seq] >= expected[r.obj][r.seq]

\* try_consume_sync: may the record enter the pipeline?
GateOpen(r) == /\ r.kind = "LockAcquire" => LockOpen(r)
               /\ r.kind = "Atomic" => AtomicOpen(r)
               /\ r.kind = "BarrierLeave" => BarrierOpen(r)

\* What flows through the pipeline: instructions and sync_surfaces_as_pseudo.
Surfaces(r) == r.kind \in {"Instr", "LockRelease", "BarrierArrive", "Atomic"}

NextRecord(t) == trace[t][fetched[t] + 1]

\* One turn of the loop of Reader::next that gets past its record: an
\* instruction or a pseudo-instruction is fetched, a mere gate is dropped.
Fetch(t) ==
  /\ ~recording /\ fetched[t] < Len(trace[t])
  /\ GateOpen(NextRecord(t))
  /\ fetched' = [fetched EXCEPT ![t] = @ + 1]
  /\ pending' = [pending EXCEPT ![t] = FALSE]
  /\ UNCHANGED <<recVars, retired, coordVars>>

\* The turn that does not: the record is held in pending_sync_ and fetch
\* stalls.  Polling it again while the gate is closed changes nothing.
HoldBack(t) ==
  /\ ~recording /\ fetched[t] < Len(trace[t])
  /\ ~GateOpen(NextRecord(t)) /\ ~pending[t]
  /\ pending' = [pending EXCEPT ![t] = TRUE]
  /\ UNCHANGED <<recVars, fetched, retired, coordVars>>

\* Fault: the record the reader stands at counts as fetched.
PipelineUnfetched(t) ==
  {i \in retired[t] + 1 .. Len(trace[t]) : /\ i <= fetched[t] + 1
                                          /\ Surfaces(trace[t][i])}

\* The records of t between fetch and retirement, in program order.
Pipeline(t) == {i \in retired[t] + 1 .. fetched[t] : Surfaces(trace[t][i])}

Maximum(x, y) == IF x > y THEN x ELSE y

Released(r) ==
  IF r.kind = "LockRelease"
  THEN [lastLock EXCEPT ![r.obj] = Maximum(@, r.seq)] ELSE lastLock

\* notify_retire, which ignores every record that does not signal.
NotifyRetire(r) ==
  /\ lastLock' = Released(r)
  /\ lastAtomic' = IF r.kind = "Atomic"
                   THEN [lastAtomic EXCEPT ![r.obj] = Maximum(@, r.seq)]
                   ELSE lastAtomic
  /\ arrived' = IF r.kind = "BarrierArrive"
                THEN [arrived EXCEPT ![r.obj][r.seq] = @ + 1] ELSE arrived
  /\ expected' = IF r.kind = "BarrierArrive" /\ r.extra > 0
                    /\ expected[r.obj][r.seq] = 0
                 THEN [expected EXCEPT ![r.obj][r.seq] = r.extra] ELSE expected

\* The oldest instruction of the core leaves the reorder buffer.
Retire(t) ==
  \E i \in Pipeline(t) :
    /\ \A j \in Pipeline(t) : i <= j
    /\ retired' = [retired EXCEPT ![t] = i]
    /\ NotifyRetire(trace[t][i])
    /\ UNCHANGED <<recVars, fetched, pending>>

-------------------------------------------------------------------------------
Record1(t) == \/ EmitInstr(t)
              \/ \E m \in Mutexes : EmitLock(t, m)
              \/ EmitUnlock(t)
              \/ \E b \in Barriers : EmitBarrier(t, b)
              \/ \E a \in Atomics : EmitAtomic(t, a)

Replay(t) == Fetch(t) \/ HoldBack(t) \/ Retire(t)

Next == \/ \E t \in Threads : Record1(t) \/ Replay(t)
        \/ WriteProgram

Spec == Init /\ [][Next]_vars

\* Every core is ticked in every cycle and polls its reader again.
Fairness == \A t \in Threads : WF_vars(Fetch(t)) /\ WF_vars(Retire(t))
FairSpec == Spec /\ Fairness

-------------------------------------------------------------------------------
(* What has to hold.                                                       *)

Kinds == {"Instr", "LockAcquire", "LockRelease", "BarrierArrive",
          "BarrierLeave", "Atomic"}
Objects == Mutexes \cup Barriers \cup Atomics
Holdings == [obj : Mutexes, seq : Nat]
SyncRecords == [kind : Kinds, obj : Objects \cup {"none"}, seq : Nat, extra : Nat]

\* The shape of the state; a core never retires what it has not fetched.
TypeOK ==
  /\ recording \in BOOLEAN /\ real \in BOOLEAN /\ emitted \in 0 .. MaxEmits
  /\ trace \in [Threads -> Seq(SyncRecords)]
  /\ lockSeq \in [Mutexes -> Nat] /\ iter \in [Barriers -> Nat]
  /\ gathered \in [Barriers -> Nat] /\ atomicSeq \in [Atomics -> Nat]
  /\ held \in [Threads -> Seq(Holdings)]
  /\ fetched \in [Threads -> Nat] /\ retired \in [Threads -> Nat]
  /\ \A t \in Threads : retired[t] <= fetched[t] /\ fetched[t] <= Len(trace[t])
  /\ pending \in [Threads -> BOOLEAN]
  /\ lastLock \in [Mutexes -> Int] /\ lastAtomic \in [Atomics -> Int]
  /\ arrived \in [Barriers -> [Iterations -> Nat]]
  /\ expected \in [Barriers -> [Iterations -> Nat]]

\* t has fetched past an acquire of m whose release it has not retired.
InSection(t, m) ==
  \E i \in 1 .. fetched[t] :
    /\ trace[t][i].kind = "LockAcquire" /\ trace[t][i].obj = m
    /\ \A j \in 1 .. retired[t] :
         trace[t][j] # Record("LockRelease", m, trace[t][i].seq, 0)

\* Mutual exclusion survives the pipelines: while an instruction of one
\* thread's critical section is in flight, nothing of another thread's section
\* of the same lock has been fetched (LockAcquire gates at fetch, LockRelease
\* takes effect in notify_retire), in whatever order the program was recorded.
MutualExclusion ==
  \A m \in Mutexes : \A t, u \in Threads :
    InSection(t, m) /\ InSection(u, m) => t = u

\* Accesses to one atomic are in flight one at a time, also those of one core.
AtomicsSerialised ==
  \A a \in Atomics : \A t, u \in Threads :
    \A i \in Pipeline(t), j \in Pipeline(u) :
      /\ trace[t][i].kind = "Atomic" /\ trace[t][i].obj = a
      /\ trace[u][j].kind = "Atomic" /\ trace[u][j].obj = a
      => t = u /\ i = j

\* Positions of the arrivals of iteration k at barrier b.
Arrivals(t, b, k) ==
  {i \in 1 .. Len(trace[t]) : /\ trace[t][i].kind = "BarrierArrive"
                              /\ trace[t][i].obj = b /\ trace[t][i].seq = k}

\* Nothing behind a BarrierLeave is fetched before every instruction that any
\* thread recorded before its arrival at that iteration has retired.
BarrierSeparates ==
  \A t \in Threads : \A i \in 1 .. fetched[t] :
    trace[t][i].kind = "BarrierLeave" =>
      \A u \in Threads :
        \A j \in Arrivals(u, trace[t][i].obj, trace[t][i].seq) : j <= retired[u]

\* Every thread has replayed its whole trace.
Replayed ==
  \A t \in Threads : fetched[t] = Len(trace[t]) /\ Pipeline(t) = {}

\* A recording whose order of calls is an execution of the program never
\* deadlocks in the replay: every gate finally opens and every trace ends.
RealProgramsReplay == (~recording /\ real) ~> Replayed
===============================================================================
