----------------------------- MODULE SyncSafety -----------------------------
(***************************************************************************)
(* Proofs about SyncReplay: the state keeps its shape, and for any number  *)
(* of threads, locks, barriers and atomics and every program, mutual       *)
(* exclusion, the order of atomics and the separation by barriers survive  *)
(* the pipelines of the replay.                                            *)
(***************************************************************************)
EXTENDS SyncReplay, SequenceTheorems, FiniteSetTheorems, TLAPS

\* The recorder never gives two acquires of a lock the same number.
AcquiresBounded ==
  \A t \in Threads : \A i \in 1 .. Len(trace[t]) :
    trace[t][i].kind = "LockAcquire" =>
      trace[t][i].obj \in Mutexes /\ trace[t][i].seq < lockSeq[trace[t][i].obj]

AcquiresUnique ==
  \A t, u \in Threads : \A i \in 1 .. Len(trace[t]), j \in 1 .. Len(trace[u]) :
    /\ trace[t][i].kind = "LockAcquire" /\ trace[u][j].kind = "LockAcquire"
    /\ trace[t][i].obj = trace[u][j].obj /\ trace[t][i].seq = trace[u][j].seq
    => t = u /\ i = j

\* A release has the number of an acquire before it on the same thread.
HeldAcquired ==
  \A t \in Threads : \A k \in 1 .. Len(held[t]) : \E i \in 1 .. Len(trace[t]) :
    trace[t][i] = Record("LockAcquire", held[t][k].obj, held[t][k].seq, 0)

ReleasesMatched ==
  \A t \in Threads : \A j \in 1 .. Len(trace[t]) :
    trace[t][j].kind = "LockRelease" =>
      /\ trace[t][j].obj \in Mutexes
      /\ trace[t][j] = Record("LockRelease", trace[t][j].obj, trace[t][j].seq, 0)
      /\ \E i \in 1 .. j - 1 :
           trace[t][i] = Record("LockAcquire", trace[t][j].obj, trace[t][j].seq, 0)

LocksNumbered ==
  AcquiresBounded /\ AcquiresUnique /\ HeldAcquired /\ ReleasesMatched

\* No two accesses to an atomic have the same number.
AtomicsBounded ==
  \A t \in Threads : \A i \in 1 .. Len(trace[t]) :
    trace[t][i].kind = "Atomic" =>
      /\ trace[t][i].obj \in Atomics
      /\ trace[t][i].seq < atomicSeq[trace[t][i].obj]
      /\ trace[t][i] = Record("Atomic", trace[t][i].obj, trace[t][i].seq, 0)

AtomicsUnique ==
  \A t, u \in Threads : \A i \in 1 .. Len(trace[t]), j \in 1 .. Len(trace[u]) :
    /\ trace[t][i].kind = "Atomic" /\ trace[u][j].kind = "Atomic"
    /\ trace[t][i].obj = trace[u][j].obj /\ trace[t][i].seq = trace[u][j].seq
    => t = u /\ i = j

AtomicsNumbered == AtomicsBounded /\ AtomicsUnique

\* What the coordinator's counters say: whoever has been let past a gate found
\* its predecessor's number there, and a number reached is a number retired.
AcquiresGated ==
  \A t \in Threads : \A i \in 1 .. fetched[t] :
    trace[t][i].kind = "LockAcquire" =>
      lastLock[trace[t][i].obj] + 1 >= trace[t][i].seq

ReleasesRetired ==
  \A m \in Mutexes : \A k \in 0 .. lastLock[m] :
    \E t \in Threads : \E j \in 1 .. retired[t] :
      trace[t][j] = Record("LockRelease", m, k, 0)

LocksCounted == AcquiresGated /\ ReleasesRetired

AtomicsGated ==
  \A t \in Threads : \A i \in 1 .. fetched[t] :
    trace[t][i].kind = "Atomic" =>
      lastAtomic[trace[t][i].obj] + 1 >= trace[t][i].seq

AtomicsRetired ==
  \A a \in Atomics : \A k \in 0 .. lastAtomic[a] :
    \E t \in Threads : \E j \in 1 .. retired[t] :
      trace[t][j] = Record("Atomic", a, k, 0)

AtomicsCounted == AtomicsGated /\ AtomicsRetired

SyncInv == LocksNumbered /\ AtomicsNumbered /\ LocksCounted /\ AtomicsCounted

-------------------------------------------------------------------------------

\* Every record a call appends is a record of the trace format.
LEMMA RecordTyped ==
  ASSUME NEW kind \in Kinds, NEW obj \in Objects \cup {"none"},
         NEW seq \in Nat, NEW extra \in Nat
  PROVE  Record(kind, obj, seq, extra) \in SyncRecords
BY DEF Record, SyncRecords

LEMMA InstrTyped == Instr \in SyncRecords
BY RecordTyped DEF Instr, Kinds

LEMMA InitTyped == Init => TypeOK
BY MaxEmitsAssumption DEF Init, TypeOK, Iterations

\* A call that lengthens the traces and keeps the recorder's counters typed
\* keeps everything typed.
LEMMA EmitTyped ==
  ASSUME TypeOK, NEW t \in Threads, NEW c \in BOOLEAN, Emit(t, c),
         trace' \in [Threads -> Seq(SyncRecords)],
         \A u \in Threads : Len(trace'[u]) >= Len(trace[u]),
         lockSeq' \in [Mutexes -> Nat], iter' \in [Barriers -> Nat],
         gathered' \in [Barriers -> Nat], atomicSeq' \in [Atomics -> Nat],
         held' \in [Threads -> Seq(Holdings)]
  PROVE  TypeOK'
<1>1. real' \in BOOLEAN /\ recording' \in BOOLEAN
  BY Zenon DEF Emit, TypeOK
<1>2. emitted' \in 0 .. MaxEmits
  BY MaxEmitsAssumption DEF Emit, TypeOK
<1>3. /\ fetched' = fetched /\ retired' = retired /\ pending' = pending
      /\ lastLock' = lastLock /\ lastAtomic' = lastAtomic
      /\ arrived' = arrived /\ expected' = expected
  BY DEF Emit, coordVars
<1>4. ASSUME NEW u \in Threads
      PROVE retired'[u] <= fetched'[u] /\ fetched'[u] <= Len(trace'[u])
  <2>1. /\ trace[u] \in Seq(SyncRecords) /\ trace'[u] \in Seq(SyncRecords)
        /\ fetched[u] \in Nat /\ retired[u] \in Nat
        /\ retired[u] <= fetched[u] /\ fetched[u] <= Len(trace[u])
    BY DEF TypeOK
  <2>2. Len(trace[u]) \in Nat /\ Len(trace'[u]) \in Nat
    BY <2>1
  <2> QED
    BY <1>3, <2>1, <2>2
<1> QED
  BY <1>1, <1>2, <1>3, <1>4 DEF TypeOK, Iterations

\* What a call of t adds to the traces: plain records, and R last.
Plain(r) == r.kind \notin {"LockAcquire", "LockRelease", "Atomic"}

Extends(f, g, t, R) ==
  /\ g \in [Threads -> Seq(SyncRecords)]
  /\ \A u \in Threads : /\ Len(f[u]) \in Nat /\ Len(g[u]) \in Nat
                        /\ Len(g[u]) >= Len(f[u])
  /\ Len(g[t]) > Len(f[t])
  /\ \A u \in Threads : \A i \in 1 .. Len(f[u]) : g[u][i] = f[u][i]
  /\ g[t][Len(g[t])] = R
  /\ \A u \in Threads : \A i \in 1 .. Len(g[u]) :
       i > Len(f[u]) => u = t /\ (i = Len(g[t]) \/ Plain(g[u][i]))

LEMMA AppendOne ==
  ASSUME NEW f \in [Threads -> Seq(SyncRecords)], NEW t \in Threads,
         NEW r \in SyncRecords
  PROVE  Extends(f, [f EXCEPT ![t] = Append(@, r)], t, r)
<1> DEFINE g == [f EXCEPT ![t] = Append(@, r)]
<1>1. f[t] \in Seq(SyncRecords) /\ Append(f[t], r) \in Seq(SyncRecords)
  OBVIOUS
<1>2. g[t] = Append(f[t], r) /\ \A u \in Threads : u # t => g[u] = f[u]
  OBVIOUS
<1>3. /\ Len(g[t]) = Len(f[t]) + 1 /\ g[t][Len(f[t]) + 1] = r
      /\ \A i \in 1 .. Len(f[t]) : g[t][i] = f[t][i]
  BY <1>1, <1>2
<1>4. \A u \in Threads : Len(f[u]) \in Nat /\ Len(g[u]) \in Nat
  OBVIOUS
<1>5. g \in [Threads -> Seq(SyncRecords)]
  BY <1>1
<1> HIDE DEF g
<1> QED
  BY <1>2, <1>3, <1>4, <1>5 DEF Extends, g

\* Two calls in a row, the first of a plain record, add as one.
LEMMA AppendMore ==
  ASSUME NEW f \in [Threads -> Seq(SyncRecords)], NEW t \in Threads,
         NEW g, NEW h, NEW P, NEW R,
         Extends(f, g, t, P), Plain(P), Extends(g, h, t, R)
  PROVE  Extends(f, h, t, R)
<1>1. ASSUME NEW u \in Threads, NEW i \in 1 .. Len(f[u])  PROVE h[u][i] = f[u][i]
  BY DEF Extends
<1>2. ASSUME NEW u \in Threads, NEW i \in 1 .. Len(h[u]), i > Len(f[u])
      PROVE  u = t /\ (i = Len(h[t]) \/ Plain(h[u][i]))
  <2>1. CASE i > Len(g[u])
    BY <2>1 DEF Extends
  <2>2. CASE ~(i > Len(g[u]))
    <3>1. i \in 1 .. Len(g[u]) /\ h[u][i] = g[u][i]
      BY <2>2 DEF Extends
    <3>2. u = t /\ (i = Len(g[t]) \/ Plain(g[u][i]))
      BY <1>2, <3>1 DEF Extends
    <3>3. g[t][Len(g[t])] = P
      BY DEF Extends
    <3> QED
      BY <3>1, <3>2, <3>3
  <2> QED
    BY <2>1, <2>2
<1>3. /\ h \in [Threads -> Seq(SyncRecords)]
      /\ \A u \in Threads : /\ Len(f[u]) \in Nat /\ Len(h[u]) \in Nat
                            /\ Len(h[u]) >= Len(f[u])
      /\ Len(h[t]) > Len(f[t])
      /\ h[t][Len(h[t])] = R
  BY DEF Extends
<1> QED
  BY <1>1, <1>2, <1>3 DEF Extends

LEMMA EmitInstrExtends ==
  ASSUME TypeOK, NEW t \in Threads, EmitInstr(t)
  PROVE  Extends(trace, trace', t, Instr)
BY InstrTyped, AppendOne DEF TypeOK, EmitInstr

LEMMA InstrPlain == Plain(Instr)
BY DEF Plain, Instr, Record

LEMMA EmitLockExtends ==
  ASSUME TypeOK, NEW t \in Threads, NEW m \in Mutexes, EmitLock(t, m)
  PROVE  Extends(trace, trace', t, Record("LockAcquire", m, lockSeq[m], 0))
<1> DEFINE R == Record("LockAcquire", m, lockSeq[m], 0)
           g == [trace EXCEPT ![t] = Append(@, Instr)]
           h == [g EXCEPT ![t] = Append(@, Instr)]
           k == [h EXCEPT ![t] = Append(@, R)]
<1>1. trace \in [Threads -> Seq(SyncRecords)]
  BY DEF TypeOK
<1>2. Extends(trace, g, t, Instr)
  BY <1>1, InstrTyped, AppendOne
<1>3. g \in [Threads -> Seq(SyncRecords)]
  BY <1>2 DEF Extends
<1>4. Extends(g, h, t, Instr)
  BY <1>3, InstrTyped, AppendOne
<1>5. h \in [Threads -> Seq(SyncRecords)]
  BY <1>4 DEF Extends
<1>6. R \in SyncRecords
  BY RecordTyped DEF TypeOK, Objects, Kinds
<1>7. Extends(h, k, t, R)
  BY <1>5, <1>6, AppendOne
<1>8. k = trace'
  BY <1>1 DEF EmitLock
<1> HIDE DEF g, h, k, R
<1>9. Extends(trace, h, t, Instr)
  BY <1>1, <1>2, <1>4, InstrPlain, AppendMore
<1>10. Extends(trace, k, t, R)
  BY <1>1, <1>7, <1>9, InstrPlain, AppendMore
<1> QED
  BY <1>8, <1>10 DEF R

\* An element of a sequence over S is in S.
LEMMA ElementTyped ==
  ASSUME NEW S, NEW s \in Seq(S), NEW i \in 1 .. Len(s)  PROVE s[i] \in S
OBVIOUS

\* The top of the stack of held locks.
LEMMA HeldTop ==
  ASSUME TypeOK, NEW t \in Threads, held[t] # <<>>
  PROVE  /\ Len(held[t]) \in Nat \ {0}
         /\ held[t][Len(held[t])].obj \in Mutexes
         /\ held[t][Len(held[t])].seq \in Nat
<1>1. held[t] \in Seq(Holdings)
  BY DEF TypeOK
<1>2. Len(held[t]) \in Nat \ {0}
  BY <1>1
<1>3. held[t][Len(held[t])] \in Holdings
  BY <1>1, <1>2, ElementTyped
<1> QED
  BY <1>2, <1>3 DEF Holdings

LEMMA EmitUnlockExtends ==
  ASSUME TypeOK, NEW t \in Threads, EmitUnlock(t)
  PROVE  Extends(trace, trace', t,
                 Record("LockRelease", held[t][Len(held[t])].obj,
                                       held[t][Len(held[t])].seq, 0))
<1> DEFINE R == Record("LockRelease", held[t][Len(held[t])].obj,
                                      held[t][Len(held[t])].seq, 0)
           g == [trace EXCEPT ![t] = Append(@, Instr)]
           k == [g EXCEPT ![t] = Append(@, R)]
<1>1. trace \in [Threads -> Seq(SyncRecords)]
  BY DEF TypeOK
<1>2. Extends(trace, g, t, Instr)
  BY <1>1, InstrTyped, AppendOne
<1>3. g \in [Threads -> Seq(SyncRecords)]
  BY <1>2 DEF Extends
<1>4. R \in SyncRecords
  BY RecordTyped, HeldTop DEF EmitUnlock, Objects, Kinds
<1>5. Extends(g, k, t, R)
  BY <1>3, <1>4, AppendOne
<1>6. k = trace'
  BY <1>1 DEF EmitUnlock
<1> HIDE DEF g, k, R
<1>7. Extends(trace, k, t, R)
  BY <1>1, <1>2, <1>5, InstrPlain, AppendMore
<1> QED
  BY <1>6, <1>7 DEF R

LEMMA EmitBarrierExtends ==
  ASSUME TypeOK, NEW t \in Threads, NEW b \in Barriers, EmitBarrier(t, b)
  PROVE  Extends(trace, trace', t, Record("BarrierLeave", b, iter[b], 0))
<1> DEFINE A == Record("BarrierArrive", b, iter[b], Participants)
           R == Record("BarrierLeave", b, iter[b], 0)
           g == [trace EXCEPT ![t] = Append(@, A)]
           k == [g EXCEPT ![t] = Append(@, R)]
<1>1. trace \in [Threads -> Seq(SyncRecords)]
  BY DEF TypeOK
<1>2. A \in SyncRecords /\ R \in SyncRecords /\ Plain(A)
  <2>1. iter[b] \in Nat /\ Participants \in Nat
    BY ParticipantsAssumption DEF TypeOK
  <2> QED
    BY <2>1, RecordTyped DEF Objects, Kinds, Plain, Record
<1>3. Extends(trace, g, t, A)
  BY <1>1, <1>2, AppendOne
<1>4. g \in [Threads -> Seq(SyncRecords)]
  BY <1>3 DEF Extends
<1>5. Extends(g, k, t, R)
  BY <1>2, <1>4, AppendOne
<1>6. k = trace'
  BY <1>1 DEF EmitBarrier
<1> HIDE DEF g, k, R, A
<1>7. Extends(trace, k, t, R)
  BY <1>1, <1>2, <1>3, <1>5, AppendMore
<1> QED
  BY <1>6, <1>7 DEF R

LEMMA EmitAtomicExtends ==
  ASSUME TypeOK, NEW t \in Threads, NEW a \in Atomics, EmitAtomic(t, a)
  PROVE  Extends(trace, trace', t, Record("Atomic", a, atomicSeq[a], 0))
<1>1. Record("Atomic", a, atomicSeq[a], 0) \in SyncRecords
  BY RecordTyped DEF TypeOK, Objects, Kinds
<1> QED
  BY <1>1, AppendOne DEF TypeOK, EmitAtomic

-------------------------------------------------------------------------------
(* Type correctness.                                                       *)

LEMMA EmitStepTyped ==
  ASSUME TypeOK, NEW t \in Threads, Record1(t)  PROVE TypeOK'
<1>1. CASE EmitInstr(t)
  <2>1. Extends(trace, trace', t, Instr)
    BY <1>1, EmitInstrExtends
  <2>2. /\ lockSeq' \in [Mutexes -> Nat] /\ iter' \in [Barriers -> Nat]
        /\ gathered' \in [Barriers -> Nat] /\ atomicSeq' \in [Atomics -> Nat]
        /\ held' \in [Threads -> Seq(Holdings)]
    BY <1>1 DEF TypeOK, EmitInstr
  <2> QED
    BY <1>1, <2>1, <2>2, EmitTyped DEF EmitInstr, Extends
<1>2. ASSUME NEW m \in Mutexes, EmitLock(t, m)  PROVE TypeOK'
  <2>1. Extends(trace, trace', t, Record("LockAcquire", m, lockSeq[m], 0))
    BY <1>2, EmitLockExtends
  <2>2. held' \in [Threads -> Seq(Holdings)]
    <3>1. [obj |-> m, seq |-> lockSeq[m]] \in Holdings
      BY DEF TypeOK, Holdings
    <3>2. held[t] \in Seq(Holdings)
      BY DEF TypeOK
    <3>3. Append(held[t], [obj |-> m, seq |-> lockSeq[m]])
            \in Seq(Holdings)
      BY <3>1, <3>2, AppendProperties
    <3> QED
      BY <1>2, <3>3 DEF TypeOK, EmitLock
  <2>3. /\ lockSeq' \in [Mutexes -> Nat] /\ iter' \in [Barriers -> Nat]
        /\ gathered' \in [Barriers -> Nat] /\ atomicSeq' \in [Atomics -> Nat]
    BY <1>2 DEF TypeOK, EmitLock
  <2>4. Emit(t, \A u \in Threads : ~HeldBy(u, m))
    BY <1>2 DEF EmitLock
  <2> QED
    BY <2>1, <2>2, <2>3, <2>4, EmitTyped DEF Extends
<1>3. CASE EmitUnlock(t)
  <2>1. Extends(trace, trace', t,
                Record("LockRelease", held[t][Len(held[t])].obj,
                                      held[t][Len(held[t])].seq, 0))
    BY <1>3, EmitUnlockExtends
  <2>2. held' \in [Threads -> Seq(Holdings)]
    <3>1. held[t] \in Seq(Holdings) /\ Len(held[t]) \in Nat \ {0}
      BY <1>3, HeldTop DEF EmitUnlock, TypeOK
    <3>2. SubSeq(held[t], 1, Len(held[t]) - 1) \in Seq(Holdings)
      <4>1. \A i \in 1 .. Len(held[t]) - 1 : held[t][i] \in Holdings
        BY <3>1, ElementTyped
      <4> QED
        BY <3>1, <4>1, SubSeqProperties
    <3> QED
      BY <1>3, <3>2 DEF TypeOK, EmitUnlock
  <2>3. /\ lockSeq' \in [Mutexes -> Nat] /\ iter' \in [Barriers -> Nat]
        /\ gathered' \in [Barriers -> Nat] /\ atomicSeq' \in [Atomics -> Nat]
    BY <1>3 DEF TypeOK, EmitUnlock
  <2> QED
    BY <1>3, <2>1, <2>2, <2>3, EmitTyped DEF Extends, EmitUnlock
<1>4. ASSUME NEW b \in Barriers, EmitBarrier(t, b)  PROVE TypeOK'
  <2>1. Extends(trace, trace', t, Record("BarrierLeave", b, iter[b], 0))
    BY <1>4, EmitBarrierExtends
  <2>2. /\ lockSeq' \in [Mutexes -> Nat] /\ iter' \in [Barriers -> Nat]
        /\ gathered' \in [Barriers -> Nat] /\ atomicSeq' \in [Atomics -> Nat]
        /\ held' \in [Threads -> Seq(Holdings)]
    <3>1. iter' \in [Barriers -> Nat]
      BY <1>4 DEF TypeOK, EmitBarrier
    <3>2. gathered' \in [Barriers -> Nat]
      BY <1>4 DEF TypeOK, EmitBarrier
    <3>3. lockSeq' = lockSeq /\ atomicSeq' = atomicSeq /\ held' = held
      BY <1>4 DEF EmitBarrier
    <3> QED
      BY <3>1, <3>2, <3>3 DEF TypeOK
  <2> QED
    BY <1>4, <2>1, <2>2, EmitTyped DEF EmitBarrier, Extends
<1>5. ASSUME NEW a \in Atomics, EmitAtomic(t, a)  PROVE TypeOK'
  <2>1. Extends(trace, trace', t, Record("Atomic", a, atomicSeq[a], 0))
    BY <1>5, EmitAtomicExtends
  <2>2. /\ lockSeq' \in [Mutexes -> Nat] /\ iter' \in [Barriers -> Nat]
        /\ gathered' \in [Barriers -> Nat] /\ atomicSeq' \in [Atomics -> Nat]
        /\ held' \in [Threads -> Seq(Holdings)]
    <3>1. atomicSeq' \in [Atomics -> Nat]
      BY <1>5 DEF TypeOK, EmitAtomic
    <3>2. lockSeq' = lockSeq /\ iter' = iter /\ gathered' = gathered /\ held' = held
      BY <1>5 DEF EmitAtomic
    <3> QED
      BY <3>1, <3>2 DEF TypeOK
  <2> QED
    BY <1>5, <2>1, <2>2, EmitTyped DEF EmitAtomic, Extends
<1> QED
  BY <1>1, <1>2, <1>3, <1>4, <1>5 DEF Record1

LEMMA FetchTyped ==
  ASSUME TypeOK, NEW t \in Threads, Fetch(t)  PROVE TypeOK'
<1>1. /\ fetched' \in [Threads -> Nat] /\ pending' \in [Threads -> BOOLEAN]
      /\ fetched' = [fetched EXCEPT ![t] = @ + 1]
  BY DEF Fetch, TypeOK
<1>2. UNCHANGED <<recVars, retired, coordVars>>
  BY DEF Fetch
<1>3. ASSUME NEW u \in Threads
      PROVE  retired[u] <= fetched'[u] /\ fetched'[u] <= Len(trace[u])
  <2>1. trace[u] \in Seq(SyncRecords) /\ Len(trace[u]) \in Nat
    BY DEF TypeOK
  <2>2. fetched[t] < Len(trace[t])
    BY DEF Fetch
  <2> QED
    BY <1>1, <2>1, <2>2 DEF TypeOK
<1> QED
  BY <1>1, <1>2, <1>3 DEF TypeOK, recVars, coordVars, Iterations

LEMMA HoldBackTyped ==
  ASSUME TypeOK, NEW t \in Threads, HoldBack(t)  PROVE TypeOK'
BY DEF HoldBack, TypeOK, recVars, coordVars, Iterations

\* What is in the pipeline has been fetched and is a record.
LEMMA InPipeline ==
  ASSUME TypeOK, NEW t \in Threads, NEW i \in Pipeline(t)
  PROVE  /\ i \in Nat /\ i > retired[t] /\ i <= fetched[t] /\ i \in 1 .. Len(trace[t])
         /\ trace[t][i] \in SyncRecords
<1>1. trace[t] \in Seq(SyncRecords) /\ Len(trace[t]) \in Nat
  BY DEF TypeOK
<1>2. /\ i \in Nat /\ i > retired[t] /\ i <= fetched[t] /\ i \in 1 .. Len(trace[t])
  BY <1>1 DEF TypeOK, Pipeline
<1> QED
  BY <1>1, <1>2

LEMMA NotifyTyped ==
  ASSUME TypeOK, NEW r \in SyncRecords, NotifyRetire(r)
  PROVE  /\ lastLock' \in [Mutexes -> Int] /\ lastAtomic' \in [Atomics -> Int]
         /\ arrived' \in [Barriers -> [Iterations -> Nat]]
         /\ expected' \in [Barriers -> [Iterations -> Nat]]
<1>1. r.seq \in Nat /\ r.extra \in Nat
  BY DEF SyncRecords
<1>2. \A x \in Int : Maximum(x, r.seq) \in Int
  BY <1>1 DEF Maximum
<1>3. lastLock' \in [Mutexes -> Int]
  BY <1>2 DEF NotifyRetire, Released, TypeOK
<1>5. lastAtomic' \in [Atomics -> Int]
  BY <1>2 DEF NotifyRetire, TypeOK
<1>6. arrived' \in [Barriers -> [Iterations -> Nat]]
  <2>1. CASE r.kind = "BarrierArrive" /\ r.obj \in Barriers
    <3> DEFINE g == arrived[r.obj]
               h == [g EXCEPT ![r.seq] = g[r.seq] + 1]
    <3>1. g \in [Iterations -> Nat]
      BY <2>1 DEF TypeOK
    <3>2. h \in [Iterations -> Nat]
      <4>1. CASE r.seq \in Iterations
        BY <3>1, <4>1
      <4>2. CASE r.seq \notin Iterations
        BY <3>1, <4>2
      <4> QED
        BY <4>1, <4>2
    <3>3. arrived' = [arrived EXCEPT ![r.obj] = h]
      BY <2>1 DEF NotifyRetire
    <3> HIDE DEF h
    <3> QED
      BY <3>2, <3>3 DEF TypeOK
  <2>2. CASE ~(r.kind = "BarrierArrive" /\ r.obj \in Barriers)
    <3>1. arrived' = arrived
      BY <2>2 DEF NotifyRetire, TypeOK
    <3> QED
      BY <3>1 DEF TypeOK
  <2> QED
    BY <2>1, <2>2
<1>4. expected' \in [Barriers -> [Iterations -> Nat]]
  BY <1>1 DEF NotifyRetire, TypeOK
<1> QED
  BY <1>3, <1>4, <1>5, <1>6

LEMMA RetireTyped ==
  ASSUME TypeOK, NEW t \in Threads, Retire(t)  PROVE TypeOK'
<1>1. PICK i \in Pipeline(t) : /\ retired' = [retired EXCEPT ![t] = i]
                               /\ NotifyRetire(trace[t][i])
                               /\ UNCHANGED <<recVars, fetched, pending>>
  BY DEF Retire
<1>2. i \in Nat /\ i <= fetched[t] /\ trace[t][i] \in SyncRecords
  BY InPipeline
<1>3. /\ lastLock' \in [Mutexes -> Int] /\ lastAtomic' \in [Atomics -> Int]
      /\ arrived' \in [Barriers -> [Iterations -> Nat]]
      /\ expected' \in [Barriers -> [Iterations -> Nat]]
  BY <1>1, <1>2, NotifyTyped
<1> QED
  BY <1>1, <1>2, <1>3 DEF TypeOK, recVars, Iterations

LEMMA WriteTyped == ASSUME TypeOK, WriteProgram  PROVE TypeOK'
<1>1. real' \in BOOLEAN /\ recording' \in BOOLEAN
  BY Zenon DEF WriteProgram, TypeOK
<1> QED
  BY <1>1 DEF WriteProgram, TypeOK, coordVars, Iterations

LEMMA StepTyped == ASSUME TypeOK, [Next]_vars  PROVE TypeOK'
<1>1. ASSUME NEW t \in Threads, Record1(t)  PROVE TypeOK'
  BY <1>1, EmitStepTyped
<1>2. ASSUME NEW t \in Threads, Replay(t)  PROVE TypeOK'
  BY <1>2, FetchTyped, HoldBackTyped, RetireTyped DEF Replay
<1>3. CASE UNCHANGED vars
  BY <1>3 DEF TypeOK, vars, recVars, coordVars, Iterations
<1> QED
  BY <1>1, <1>2, <1>3, WriteTyped DEF Next

\* The state keeps its shape whatever is recorded and however it is replayed;
\* in particular retirement never overtakes fetch.
THEOREM SyncTypeCorrect == Spec => []TypeOK
BY InitTyped, StepTyped, PTL DEF Spec

-------------------------------------------------------------------------------
(* The numbering of the recorder.                                          *)

\* A call that adds no lock record keeps the numbering of the locks.
LEMMA LocksNumberedKept ==
  ASSUME TypeOK, LocksNumbered, NEW t \in Threads, NEW R,
         Extends(trace, trace', t, R), R.kind \notin {"LockAcquire", "LockRelease"},
         lockSeq' = lockSeq, held' = held
  PROVE  LocksNumbered'
<1>1. ASSUME NEW u \in Threads, NEW i \in 1 .. Len(trace'[u]),
             trace'[u][i].kind \in {"LockAcquire", "LockRelease"}
      PROVE  i \in 1 .. Len(trace[u]) /\ trace'[u][i] = trace[u][i]
  BY <1>1 DEF Extends, Plain
<1>2. \A u \in Threads : \A i \in 1 .. Len(trace[u]) :
        i \in 1 .. Len(trace'[u]) /\ trace'[u][i] = trace[u][i]
  BY DEF Extends
<1>3. ASSUME NEW u \in Threads, NEW i \in 1 .. Len(trace'[u]),
             trace'[u][i].kind = "LockAcquire"
      PROVE  /\ trace'[u][i].obj \in Mutexes
             /\ trace'[u][i].seq < lockSeq'[trace'[u][i].obj]
  BY <1>1, <1>3 DEF LocksNumbered, AcquiresBounded
<1>4. ASSUME NEW u \in Threads, NEW v \in Threads,
             NEW i \in 1 .. Len(trace'[u]), NEW j \in 1 .. Len(trace'[v]),
             trace'[u][i].kind = "LockAcquire", trace'[v][j].kind = "LockAcquire",
             trace'[u][i].obj = trace'[v][j].obj, trace'[u][i].seq = trace'[v][j].seq
      PROVE  u = v /\ i = j
  <2>1. /\ i \in 1 .. Len(trace[u]) /\ trace'[u][i] = trace[u][i]
        /\ j \in 1 .. Len(trace[v]) /\ trace'[v][j] = trace[v][j]
    BY <1>1, <1>4
  <2> QED
    BY <1>4, <2>1 DEF LocksNumbered, AcquiresUnique
<1>5. ASSUME NEW u \in Threads, NEW k \in 1 .. Len(held'[u])
      PROVE  \E i \in 1 .. Len(trace'[u]) :
               trace'[u][i] = Record("LockAcquire", held'[u][k].obj, held'[u][k].seq, 0)
  BY <1>2 DEF LocksNumbered, HeldAcquired
<1>6. ASSUME NEW u \in Threads, NEW j \in 1 .. Len(trace'[u]),
             trace'[u][j].kind = "LockRelease"
      PROVE  /\ trace'[u][j].obj \in Mutexes
             /\ trace'[u][j] = Record("LockRelease", trace'[u][j].obj, trace'[u][j].seq, 0)
             /\ \E i \in 1 .. j - 1 :
                  trace'[u][i] = Record("LockAcquire", trace'[u][j].obj, trace'[u][j].seq, 0)
  <2>1. j \in 1 .. Len(trace[u]) /\ trace'[u][j] = trace[u][j]
    BY <1>1, <1>6
  <2>2. \A i \in 1 .. j - 1 : i \in 1 .. Len(trace[u])
    BY <2>1 DEF Extends
  <2> QED
    BY <1>2, <1>6, <2>1, <2>2 DEF LocksNumbered, ReleasesMatched
<1> QED
  BY <1>3, <1>4, <1>5, <1>6 DEF LocksNumbered,
     AcquiresBounded, AcquiresUnique, HeldAcquired, ReleasesMatched

LEMMA LocksNumberedByLock ==
  ASSUME TypeOK, LocksNumbered, NEW t \in Threads, NEW m \in Mutexes, EmitLock(t, m)
  PROVE  LocksNumbered'
<1> DEFINE R == Record("LockAcquire", m, lockSeq[m], 0)
           n == Len(trace'[t])
<1>1. Extends(trace, trace', t, R)
  BY EmitLockExtends
<1>2. R.kind = "LockAcquire" /\ R.obj = m /\ R.seq = lockSeq[m] /\ lockSeq[m] \in Nat
  BY DEF Record, TypeOK
<1>3. lockSeq' = [lockSeq EXCEPT ![m] = @ + 1] /\ lockSeq \in [Mutexes -> Nat]
  BY DEF EmitLock, TypeOK
<1> HIDE DEF R
<1>4. \A u \in Threads : \A i \in 1 .. Len(trace[u]) :
        i \in 1 .. Len(trace'[u]) /\ trace'[u][i] = trace[u][i]
  BY <1>1 DEF Extends
<1>5. ASSUME NEW u \in Threads, NEW i \in 1 .. Len(trace'[u]),
             trace'[u][i].kind = "LockRelease"
      PROVE  i \in 1 .. Len(trace[u]) /\ trace'[u][i] = trace[u][i]
  BY <1>1, <1>2, <1>5 DEF Extends, Plain
<1>6. ASSUME NEW u \in Threads, NEW i \in 1 .. Len(trace'[u]),
             trace'[u][i].kind = "LockAcquire"
      PROVE  \/ i \in 1 .. Len(trace[u]) /\ trace'[u][i] = trace[u][i]
             \/ u = t /\ i = n /\ trace'[u][i] = R
  BY <1>1, <1>2, <1>6 DEF Extends, Plain
<1>7. ASSUME NEW u \in Threads, NEW i \in 1 .. Len(trace[u]),
             trace[u][i].kind = "LockAcquire"
      PROVE  /\ trace[u][i].obj \in Mutexes
             /\ trace[u][i].seq < lockSeq[trace[u][i].obj]
  BY <1>7 DEF LocksNumbered, AcquiresBounded
<1>8. ASSUME NEW u \in Threads, NEW i \in 1 .. Len(trace[u])
      PROVE  trace[u][i].seq \in Nat
  <2>1. trace[u] \in Seq(SyncRecords)
    BY DEF TypeOK
  <2>2. trace[u][i] \in SyncRecords
    BY <2>1, ElementTyped
  <2> QED
    BY <2>2 DEF SyncRecords
<1>9. ASSUME NEW u \in Threads, NEW i \in 1 .. Len(trace'[u]),
             trace'[u][i].kind = "LockAcquire"
      PROVE  /\ trace'[u][i].obj \in Mutexes
             /\ trace'[u][i].seq < lockSeq'[trace'[u][i].obj]
  <2>1. CASE u = t /\ i = n /\ trace'[u][i] = R
    BY <1>2, <1>3, <2>1
  <2>2. CASE i \in 1 .. Len(trace[u]) /\ trace'[u][i] = trace[u][i]
    BY <1>3, <1>7, <1>8, <1>9, <2>2
  <2> QED
    BY <1>6, <1>9, <2>1, <2>2
<1>10. ASSUME NEW u \in Threads, NEW v \in Threads,
              NEW i \in 1 .. Len(trace'[u]), NEW j \in 1 .. Len(trace'[v]),
              trace'[u][i].kind = "LockAcquire", trace'[v][j].kind = "LockAcquire",
              trace'[u][i].obj = trace'[v][j].obj, trace'[u][i].seq = trace'[v][j].seq
       PROVE  u = v /\ i = j
  <2>1. CASE (u = t /\ i = n /\ trace'[u][i] = R) /\ (v = t /\ j = n /\ trace'[v][j] = R)
    BY <2>1
  <2>2. CASE /\ i \in 1 .. Len(trace[u]) /\ trace'[u][i] = trace[u][i]
             /\ j \in 1 .. Len(trace[v]) /\ trace'[v][j] = trace[v][j]
    BY <1>10, <2>2 DEF LocksNumbered, AcquiresUnique
  <2>3. CASE /\ i \in 1 .. Len(trace[u]) /\ trace'[u][i] = trace[u][i]
             /\ trace'[v][j] = R
    BY <1>2, <1>7, <1>8, <1>10, <2>3
  <2>4. CASE /\ trace'[u][i] = R
             /\ j \in 1 .. Len(trace[v]) /\ trace'[v][j] = trace[v][j]
    BY <1>2, <1>7, <1>8, <1>10, <2>4
  <2> QED
    BY <1>6, <1>10, <2>1, <2>2, <2>3, <2>4
<1>11. ASSUME NEW u \in Threads, NEW k \in 1 .. Len(held'[u])
       PROVE  \E i \in 1 .. Len(trace'[u]) :
                trace'[u][i] = Record("LockAcquire", held'[u][k].obj, held'[u][k].seq, 0)
  <2> DEFINE h == [obj |-> m, seq |-> lockSeq[m]]
  <2>1. held[t] \in Seq(Holdings) /\ h \in Holdings
    BY <1>2 DEF TypeOK, Holdings
  <2>2. held' = [held EXCEPT ![t] = Append(@, h)] /\ h.obj = m /\ h.seq = lockSeq[m]
    BY DEF EmitLock
  <2> HIDE DEF h
  <2>3. CASE u = t /\ k = Len(held[t]) + 1
    <3>1. held'[u][k] = h
      BY <2>1, <2>2, <2>3, AppendProperties DEF TypeOK
    <3>2. n \in 1 .. Len(trace'[t]) /\ trace'[t][n] = R
      BY <1>1 DEF Extends
    <3> QED
      BY <2>2, <2>3, <3>1, <3>2 DEF R
  <2>4. CASE ~(u = t /\ k = Len(held[t]) + 1)
    <3>1. k \in 1 .. Len(held[u]) /\ held'[u][k] = held[u][k]
      BY <2>1, <2>2, <2>4, AppendProperties DEF TypeOK
    <3> QED
      BY <1>4, <3>1 DEF LocksNumbered, HeldAcquired
  <2> QED
    BY <2>3, <2>4
<1>12. ASSUME NEW u \in Threads, NEW j \in 1 .. Len(trace'[u]),
              trace'[u][j].kind = "LockRelease"
       PROVE  /\ trace'[u][j].obj \in Mutexes
              /\ trace'[u][j] = Record("LockRelease", trace'[u][j].obj, trace'[u][j].seq, 0)
              /\ \E i \in 1 .. j - 1 :
                   trace'[u][i] = Record("LockAcquire", trace'[u][j].obj, trace'[u][j].seq, 0)
  <2>1. j \in 1 .. Len(trace[u]) /\ trace'[u][j] = trace[u][j]
    BY <1>5, <1>12
  <2>2. \A i \in 1 .. j - 1 : i \in 1 .. Len(trace[u])
    BY <2>1, <1>1 DEF Extends
  <2> QED
    BY <1>4, <1>12, <2>1, <2>2 DEF LocksNumbered, ReleasesMatched
<1> QED
  BY <1>9, <1>10, <1>11, <1>12 DEF LocksNumbered,
     AcquiresBounded, AcquiresUnique, HeldAcquired, ReleasesMatched

LEMMA LocksNumberedByUnlock ==
  ASSUME TypeOK, LocksNumbered, NEW t \in Threads, EmitUnlock(t)
  PROVE  LocksNumbered'
<1> DEFINE top == held[t][Len(held[t])]
           R == Record("LockRelease", top.obj, top.seq, 0)
           n == Len(trace'[t])
<1>1. Extends(trace, trace', t, R)
  BY EmitUnlockExtends
<1>2. R.kind = "LockRelease" /\ R.obj = top.obj /\ R.seq = top.seq
  BY DEF Record
<1>3. lockSeq' = lockSeq /\ held[t] # <<>>
  BY DEF EmitUnlock
<1>4. top.obj \in Mutexes /\ Len(held[t]) \in Nat \ {0}
  BY <1>3, HeldTop
<1>5. R = Record("LockRelease", R.obj, R.seq, 0)
  BY <1>2
<1> HIDE DEF R
<1>6. \A u \in Threads : \A i \in 1 .. Len(trace[u]) :
        i \in 1 .. Len(trace'[u]) /\ trace'[u][i] = trace[u][i]
  BY <1>1 DEF Extends
<1>7. ASSUME NEW u \in Threads, NEW i \in 1 .. Len(trace'[u]),
             trace'[u][i].kind = "LockAcquire"
      PROVE  i \in 1 .. Len(trace[u]) /\ trace'[u][i] = trace[u][i]
  BY <1>1, <1>2, <1>7 DEF Extends, Plain
<1>8. ASSUME NEW u \in Threads, NEW i \in 1 .. Len(trace'[u]),
             trace'[u][i].kind = "LockRelease"
      PROVE  \/ i \in 1 .. Len(trace[u]) /\ trace'[u][i] = trace[u][i]
             \/ u = t /\ i = n /\ i > Len(trace[t]) /\ trace'[u][i] = R
  BY <1>1, <1>2, <1>8 DEF Extends, Plain
<1>9. ASSUME NEW u \in Threads, NEW i \in 1 .. Len(trace'[u]),
             trace'[u][i].kind = "LockAcquire"
      PROVE  /\ trace'[u][i].obj \in Mutexes
             /\ trace'[u][i].seq < lockSeq'[trace'[u][i].obj]
  BY <1>3, <1>7, <1>9 DEF LocksNumbered, AcquiresBounded
<1>10. ASSUME NEW u \in Threads, NEW v \in Threads,
              NEW i \in 1 .. Len(trace'[u]), NEW j \in 1 .. Len(trace'[v]),
              trace'[u][i].kind = "LockAcquire", trace'[v][j].kind = "LockAcquire",
              trace'[u][i].obj = trace'[v][j].obj, trace'[u][i].seq = trace'[v][j].seq
       PROVE  u = v /\ i = j
  <2>1. /\ i \in 1 .. Len(trace[u]) /\ trace'[u][i] = trace[u][i]
        /\ j \in 1 .. Len(trace[v]) /\ trace'[v][j] = trace[v][j]
    BY <1>7, <1>10
  <2> QED
    BY <1>10, <2>1 DEF LocksNumbered, AcquiresUnique
<1>11. ASSUME NEW u \in Threads, NEW k \in 1 .. Len(held'[u])
       PROVE  \E i \in 1 .. Len(trace'[u]) :
                trace'[u][i] = Record("LockAcquire", held'[u][k].obj, held'[u][k].seq, 0)
  <2>1. k \in 1 .. Len(held[u]) /\ held'[u][k] = held[u][k]
    <3>1. CASE u = t
      <4> DEFINE rest == SubSeq(held[t], 1, Len(held[t]) - 1)
      <4>1. held[t] \in Seq(Holdings) /\ held'[t] = rest
        BY DEF EmitUnlock, TypeOK
      <4>2. \A i \in 1 .. Len(held[t]) - 1 : held[t][i] \in Holdings
        BY <1>4, <4>1, ElementTyped
      <4>3. /\ Len(rest) = Len(held[t]) - 1
            /\ \A i \in 1 .. Len(held[t]) - 1 : rest[i] = held[t][i]
        BY <1>4, <4>2, SubSeqProperties
      <4> HIDE DEF rest
      <4> QED
        BY <1>4, <3>1, <4>1, <4>3
    <3>2. CASE u # t
      BY <3>2 DEF EmitUnlock, TypeOK
    <3> QED
      BY <3>1, <3>2
  <2> QED
    BY <1>6, <2>1 DEF LocksNumbered, HeldAcquired
<1>12. ASSUME NEW u \in Threads, NEW j \in 1 .. Len(trace'[u]),
              trace'[u][j].kind = "LockRelease"
       PROVE  /\ trace'[u][j].obj \in Mutexes
              /\ trace'[u][j] = Record("LockRelease", trace'[u][j].obj, trace'[u][j].seq, 0)
              /\ \E i \in 1 .. j - 1 :
                   trace'[u][i] = Record("LockAcquire", trace'[u][j].obj, trace'[u][j].seq, 0)
  <2>1. CASE j \in 1 .. Len(trace[u]) /\ trace'[u][j] = trace[u][j]
    <3>1. \A i \in 1 .. j - 1 : i \in 1 .. Len(trace[u])
      BY <1>1, <2>1 DEF Extends
    <3> QED
      BY <1>6, <1>12, <2>1, <3>1 DEF LocksNumbered, ReleasesMatched
  <2>2. CASE u = t /\ j = n /\ j > Len(trace[t]) /\ trace'[u][j] = R
    <3>1. PICK i \in 1 .. Len(trace[t]) :
            trace[t][i] = Record("LockAcquire", top.obj, top.seq, 0)
      BY <1>4 DEF LocksNumbered, HeldAcquired
    <3>2. i \in 1 .. j - 1 /\ trace'[t][i] = trace[t][i]
      BY <1>1, <1>6, <2>2, <3>1 DEF Extends
    <3> QED
      BY <1>2, <1>4, <1>5, <2>2, <3>1, <3>2
  <2> QED
    BY <1>8, <1>12, <2>1, <2>2
<1> QED
  BY <1>9, <1>10, <1>11, <1>12 DEF LocksNumbered,
     AcquiresBounded, AcquiresUnique, HeldAcquired, ReleasesMatched

\* A call that adds no atomic keeps the numbering of the atomics.
LEMMA AtomicsNumberedKept ==
  ASSUME TypeOK, AtomicsNumbered, NEW t \in Threads, NEW R,
         Extends(trace, trace', t, R), R.kind # "Atomic", atomicSeq' = atomicSeq
  PROVE  AtomicsNumbered'
<1>1. ASSUME NEW u \in Threads, NEW i \in 1 .. Len(trace'[u]),
             trace'[u][i].kind = "Atomic"
      PROVE  i \in 1 .. Len(trace[u]) /\ trace'[u][i] = trace[u][i]
  BY <1>1 DEF Extends, Plain
<1>2. AtomicsBounded'
  BY <1>1 DEF AtomicsNumbered, AtomicsBounded
<1>3. ASSUME NEW u \in Threads, NEW v \in Threads,
             NEW i \in 1 .. Len(trace'[u]), NEW j \in 1 .. Len(trace'[v]),
             trace'[u][i].kind = "Atomic", trace'[v][j].kind = "Atomic",
             trace'[u][i].obj = trace'[v][j].obj, trace'[u][i].seq = trace'[v][j].seq
      PROVE  u = v /\ i = j
  <2>1. /\ i \in 1 .. Len(trace[u]) /\ trace'[u][i] = trace[u][i]
        /\ j \in 1 .. Len(trace[v]) /\ trace'[v][j] = trace[v][j]
    BY <1>1, <1>3
  <2> QED
    BY <1>3, <2>1 DEF AtomicsNumbered, AtomicsUnique
<1> QED
  BY <1>2, <1>3 DEF AtomicsNumbered, AtomicsUnique

LEMMA AtomicsNumberedByAtomic ==
  ASSUME TypeOK, AtomicsNumbered, NEW t \in Threads, NEW a \in Atomics,
         EmitAtomic(t, a)
  PROVE  AtomicsNumbered'
<1> DEFINE R == Record("Atomic", a, atomicSeq[a], 0)
           n == Len(trace'[t])
<1>1. Extends(trace, trace', t, R)
  BY EmitAtomicExtends
<1>2. /\ R.kind = "Atomic" /\ R.obj = a /\ R.seq = atomicSeq[a] /\ atomicSeq[a] \in Nat
      /\ R = Record("Atomic", R.obj, R.seq, 0)
  BY DEF Record, TypeOK
<1>3. atomicSeq' = [atomicSeq EXCEPT ![a] = @ + 1] /\ atomicSeq \in [Atomics -> Nat]
  BY DEF EmitAtomic, TypeOK
<1> HIDE DEF R
<1>4. ASSUME NEW u \in Threads, NEW i \in 1 .. Len(trace'[u]),
             trace'[u][i].kind = "Atomic"
      PROVE  \/ i \in 1 .. Len(trace[u]) /\ trace'[u][i] = trace[u][i]
             \/ u = t /\ i = n /\ trace'[u][i] = R
  BY <1>1, <1>2, <1>4 DEF Extends, Plain
<1>5. ASSUME NEW u \in Threads, NEW i \in 1 .. Len(trace[u]),
             trace[u][i].kind = "Atomic"
      PROVE  /\ trace[u][i].obj \in Atomics
             /\ trace[u][i].seq < atomicSeq[trace[u][i].obj]
             /\ trace[u][i] = Record("Atomic", trace[u][i].obj, trace[u][i].seq, 0)
             /\ trace[u][i].seq \in Nat
  <2>1. trace[u] \in Seq(SyncRecords)
    BY DEF TypeOK
  <2>2. trace[u][i] \in SyncRecords
    BY <2>1, ElementTyped
  <2> QED
    BY <1>5, <2>2 DEF AtomicsNumbered, AtomicsBounded, SyncRecords
<1>6. ASSUME NEW u \in Threads, NEW i \in 1 .. Len(trace'[u]),
             trace'[u][i].kind = "Atomic"
      PROVE  /\ trace'[u][i].obj \in Atomics
             /\ trace'[u][i].seq < atomicSeq'[trace'[u][i].obj]
             /\ trace'[u][i] = Record("Atomic", trace'[u][i].obj, trace'[u][i].seq, 0)
  <2>1. CASE u = t /\ i = n /\ trace'[u][i] = R
    BY <1>2, <1>3, <2>1
  <2>2. CASE i \in 1 .. Len(trace[u]) /\ trace'[u][i] = trace[u][i]
    BY <1>3, <1>5, <1>6, <2>2
  <2> QED
    BY <1>4, <1>6, <2>1, <2>2
<1>7. ASSUME NEW u \in Threads, NEW v \in Threads,
             NEW i \in 1 .. Len(trace'[u]), NEW j \in 1 .. Len(trace'[v]),
             trace'[u][i].kind = "Atomic", trace'[v][j].kind = "Atomic",
             trace'[u][i].obj = trace'[v][j].obj, trace'[u][i].seq = trace'[v][j].seq
      PROVE  u = v /\ i = j
  <2>1. CASE (u = t /\ i = n /\ trace'[u][i] = R) /\ (v = t /\ j = n /\ trace'[v][j] = R)
    BY <2>1
  <2>2. CASE /\ i \in 1 .. Len(trace[u]) /\ trace'[u][i] = trace[u][i]
             /\ j \in 1 .. Len(trace[v]) /\ trace'[v][j] = trace[v][j]
    BY <1>7, <2>2 DEF AtomicsNumbered, AtomicsUnique
  <2>3. CASE /\ i \in 1 .. Len(trace[u]) /\ trace'[u][i] = trace[u][i]
             /\ trace'[v][j] = R
    BY <1>2, <1>5, <1>7, <2>3
  <2>4. CASE /\ trace'[u][i] = R
             /\ j \in 1 .. Len(trace[v]) /\ trace'[v][j] = trace[v][j]
    BY <1>2, <1>5, <1>7, <2>4
  <2> QED
    BY <1>4, <1>7, <2>1, <2>2, <2>3, <2>4
<1> QED
  BY <1>6, <1>7 DEF AtomicsNumbered, AtomicsBounded, AtomicsUnique

-------------------------------------------------------------------------------
(* The counters of the coordinator.                                        *)

\* Recording does not touch what is fetched, retired or counted.
LEMMA CountedKept ==
  ASSUME TypeOK, LocksCounted, AtomicsCounted, NEW t \in Threads, NEW R,
         Extends(trace, trace', t, R), fetched' = fetched, retired' = retired,
         lastLock' = lastLock, lastAtomic' = lastAtomic
  PROVE  LocksCounted' /\ AtomicsCounted'
<1>1. ASSUME NEW u \in Threads, NEW i \in 1 .. fetched[u]
      PROVE  trace'[u][i] = trace[u][i]
  <2>1. fetched[u] <= Len(trace[u]) /\ fetched[u] \in Nat
    BY DEF TypeOK
  <2> QED
    BY <2>1 DEF Extends
<1>2. ASSUME NEW u \in Threads, NEW i \in 1 .. retired[u]
      PROVE  trace'[u][i] = trace[u][i]
  <2>1. retired[u] <= fetched[u] /\ fetched[u] \in Nat /\ retired[u] \in Nat
    BY DEF TypeOK
  <2> QED
    BY <1>1, <2>1
<1>3. AcquiresGated' /\ AtomicsGated'
  BY <1>1 DEF LocksCounted, AtomicsCounted, AcquiresGated, AtomicsGated
<1>4. ReleasesRetired'
  BY <1>2 DEF LocksCounted, ReleasesRetired
<1>5. AtomicsRetired'
  BY <1>2 DEF AtomicsCounted, AtomicsRetired
<1> QED
  BY <1>3, <1>4, <1>5 DEF LocksCounted, AtomicsCounted

LEMMA EmitFrame ==
  ASSUME NEW t \in Threads, NEW c, Emit(t, c)
  PROVE  /\ fetched' = fetched /\ retired' = retired
         /\ lastLock' = lastLock /\ lastAtomic' = lastAtomic
BY DEF Emit, coordVars

LEMMA EmitStepKeeps ==
  ASSUME TypeOK, SyncInv, NEW t \in Threads, Record1(t)  PROVE SyncInv'
<1>1. CASE EmitInstr(t)
  <2>1. Extends(trace, trace', t, Instr)
    BY <1>1, EmitInstrExtends
  <2>2. Instr.kind = "Instr"
    BY DEF Instr, Record
  <2> QED
    BY <1>1, <2>1, <2>2, LocksNumberedKept, AtomicsNumberedKept, CountedKept, EmitFrame
    DEF SyncInv, EmitInstr
<1>2. ASSUME NEW m \in Mutexes, EmitLock(t, m)  PROVE SyncInv'
  <2> DEFINE R == Record("LockAcquire", m, lockSeq[m], 0)
  <2>1. Extends(trace, trace', t, R)
    BY <1>2, EmitLockExtends
  <2>2. R.kind = "LockAcquire"
    BY DEF Record
  <2>3. atomicSeq' = atomicSeq /\ Emit(t, \A u \in Threads : ~HeldBy(u, m))
    BY <1>2 DEF EmitLock
  <2> HIDE DEF R
  <2>4. LocksCounted' /\ AtomicsCounted'
    BY <2>1, <2>3, CountedKept, EmitFrame DEF SyncInv
  <2> QED
    BY <1>2, <2>1, <2>2, <2>3, <2>4, LocksNumberedByLock, AtomicsNumberedKept DEF SyncInv
<1>3. CASE EmitUnlock(t)
  <2> DEFINE R == Record("LockRelease", held[t][Len(held[t])].obj,
                                        held[t][Len(held[t])].seq, 0)
  <2>1. Extends(trace, trace', t, R)
    BY <1>3, EmitUnlockExtends
  <2>2. R.kind = "LockRelease"
    BY DEF Record
  <2>3. atomicSeq' = atomicSeq /\ Emit(t, TRUE)
    BY <1>3 DEF EmitUnlock
  <2> HIDE DEF R
  <2>4. LocksCounted' /\ AtomicsCounted'
    BY <2>1, <2>3, CountedKept, EmitFrame DEF SyncInv
  <2> QED
    BY <1>3, <2>1, <2>2, <2>3, <2>4, LocksNumberedByUnlock, AtomicsNumberedKept DEF SyncInv
<1>4. ASSUME NEW b \in Barriers, EmitBarrier(t, b)  PROVE SyncInv'
  <2> DEFINE R == Record("BarrierLeave", b, iter[b], 0)
  <2>1. Extends(trace, trace', t, R)
    BY <1>4, EmitBarrierExtends
  <2>2. R.kind = "BarrierLeave"
    BY DEF Record
  <2>3. atomicSeq' = atomicSeq /\ lockSeq' = lockSeq /\ held' = held /\ Emit(t, TRUE)
    BY <1>4 DEF EmitBarrier
  <2> HIDE DEF R
  <2>4. LocksCounted' /\ AtomicsCounted'
    BY <2>1, <2>3, CountedKept, EmitFrame DEF SyncInv
  <2> QED
    BY <2>1, <2>2, <2>3, <2>4, LocksNumberedKept, AtomicsNumberedKept DEF SyncInv
<1>5. ASSUME NEW a \in Atomics, EmitAtomic(t, a)  PROVE SyncInv'
  <2> DEFINE R == Record("Atomic", a, atomicSeq[a], 0)
  <2>1. Extends(trace, trace', t, R)
    BY <1>5, EmitAtomicExtends
  <2>2. R.kind = "Atomic"
    BY DEF Record
  <2>3. lockSeq' = lockSeq /\ held' = held /\ Emit(t, TRUE)
    BY <1>5 DEF EmitAtomic
  <2> HIDE DEF R
  <2>4. LocksCounted' /\ AtomicsCounted'
    BY <2>1, <2>3, CountedKept, EmitFrame DEF SyncInv
  <2> QED
    BY <1>5, <2>1, <2>2, <2>3, <2>4, LocksNumberedKept, AtomicsNumberedByAtomic DEF SyncInv
<1> QED
  BY <1>1, <1>2, <1>3, <1>4, <1>5 DEF Record1

\* The numbering depends on the recording alone.
LEMMA NumberedFrame ==
  ASSUME LocksNumbered, AtomicsNumbered, trace' = trace, held' = held,
         lockSeq' = lockSeq, atomicSeq' = atomicSeq
  PROVE  LocksNumbered' /\ AtomicsNumbered'
BY DEF LocksNumbered, AcquiresBounded, AcquiresUnique, HeldAcquired, ReleasesMatched,
       AtomicsNumbered, AtomicsBounded, AtomicsUnique

LEMMA FetchKeeps ==
  ASSUME TypeOK, SyncInv, NEW t \in Threads, Fetch(t)  PROVE SyncInv'
<1>1. UNCHANGED <<recVars, retired, coordVars>> /\ GateOpen(NextRecord(t))
      /\ fetched' = [fetched EXCEPT ![t] = @ + 1] /\ fetched[t] \in Nat
  BY DEF Fetch, TypeOK
<1>2. LocksNumbered' /\ AtomicsNumbered'
  BY <1>1, NumberedFrame DEF SyncInv, recVars
<1>3. ASSUME NEW u \in Threads, NEW i \in 1 .. fetched'[u]
      PROVE  i \in 1 .. fetched[u] \/ (u = t /\ trace[u][i] = NextRecord(t))
  BY <1>1 DEF TypeOK, NextRecord
<1>4. AcquiresGated'
  BY <1>1, <1>3 DEF SyncInv, LocksCounted, AcquiresGated, GateOpen, LockOpen,
                    recVars, coordVars
<1>5. AtomicsGated'
  BY <1>1, <1>3 DEF SyncInv, AtomicsCounted, AtomicsGated, GateOpen, AtomicOpen,
                    recVars, coordVars
<1>6. ReleasesRetired' /\ AtomicsRetired'
  BY <1>1 DEF SyncInv, LocksCounted, AtomicsCounted, ReleasesRetired, AtomicsRetired,
              recVars, coordVars
<1> QED
  BY <1>2, <1>4, <1>5, <1>6 DEF SyncInv, LocksCounted, AtomicsCounted

\* Retirement raises a lock's counter to k only when the acquire numbered k has
\* been let in, hence when every release before k has already retired.
LEMMA RetireKeeps ==
  ASSUME TypeOK, SyncInv, NEW t \in Threads, Retire(t)  PROVE SyncInv'
<1>1. PICK i \in Pipeline(t) : /\ retired' = [retired EXCEPT ![t] = i]
                               /\ NotifyRetire(trace[t][i])
                               /\ UNCHANGED <<recVars, fetched, pending>>
  BY DEF Retire
<1> DEFINE r == trace[t][i]
<1>2. /\ i \in Nat /\ i > retired[t] /\ i <= fetched[t] /\ i \in 1 .. Len(trace[t])
      /\ r \in SyncRecords /\ r.seq \in Nat /\ retired[t] \in Nat
  BY InPipeline DEF SyncRecords, TypeOK
<1>3. LocksNumbered' /\ AtomicsNumbered'
  BY <1>1, NumberedFrame DEF SyncInv, recVars
<1>4. \A u \in Threads : \A j \in 1 .. retired[u] : j \in 1 .. retired'[u]
  BY <1>1, <1>2 DEF TypeOK
<1>5. i \in 1 .. retired'[t]
  BY <1>1, <1>2 DEF TypeOK
<1>6. trace' = trace /\ fetched' = fetched
  BY <1>1 DEF recVars
<1>7. /\ lastLock \in [Mutexes -> Int] /\ lastAtomic \in [Atomics -> Int]
      /\ lastLock' = Released(r)
      /\ lastAtomic' = IF r.kind = "Atomic"
                       THEN [lastAtomic EXCEPT ![r.obj] = Maximum(@, r.seq)]
                       ELSE lastAtomic
  BY <1>1 DEF TypeOK, NotifyRetire
<1>8. ASSUME r.kind = "LockRelease"
      PROVE  /\ r.obj \in Mutexes /\ r = Record("LockRelease", r.obj, r.seq, 0)
             /\ lastLock[r.obj] + 1 >= r.seq
  <2>1. /\ r.obj \in Mutexes /\ r = Record("LockRelease", r.obj, r.seq, 0)
        /\ \E j \in 1 .. i - 1 : trace[t][j] = Record("LockAcquire", r.obj, r.seq, 0)
    BY <1>2, <1>8 DEF SyncInv, LocksNumbered, ReleasesMatched
  <2>2. PICK j \in 1 .. i - 1 : trace[t][j] = Record("LockAcquire", r.obj, r.seq, 0)
    BY <2>1
  <2>3. /\ trace[t][j].kind = "LockAcquire" /\ trace[t][j].obj = r.obj
        /\ trace[t][j].seq = r.seq
    BY <2>2 DEF Record
  <2>4. j \in 1 .. fetched[t]
    BY <1>2, <2>2 DEF TypeOK
  <2>5. lastLock[trace[t][j].obj] + 1 >= trace[t][j].seq
    BY <2>3, <2>4 DEF SyncInv, LocksCounted, AcquiresGated
  <2> QED
    BY <2>1, <2>3, <2>5
<1>9. ASSUME r.kind = "Atomic"
      PROVE  /\ r.obj \in Atomics /\ r = Record("Atomic", r.obj, r.seq, 0)
             /\ lastAtomic[r.obj] + 1 >= r.seq
  <2>1. r.obj \in Atomics /\ r = Record("Atomic", r.obj, r.seq, 0)
    BY <1>2, <1>9 DEF SyncInv, AtomicsNumbered, AtomicsBounded
  <2>2. i \in 1 .. fetched[t]
    BY <1>2 DEF TypeOK
  <2> QED
    BY <1>9, <2>1, <2>2 DEF SyncInv, AtomicsCounted, AtomicsGated
<1>10. ASSUME NEW m \in Mutexes
       PROVE  /\ lastLock'[m] >= lastLock[m] /\ lastLock'[m] \in Int
              /\ lastLock'[m] > lastLock[m] =>
                   /\ r.kind = "LockRelease" /\ r.obj = m
                   /\ lastLock'[m] = r.seq /\ lastLock[m] + 1 >= r.seq
  BY <1>2, <1>7, <1>8 DEF Released, Maximum
<1>11. ASSUME NEW a \in Atomics
       PROVE  /\ lastAtomic'[a] >= lastAtomic[a] /\ lastAtomic'[a] \in Int
              /\ lastAtomic'[a] > lastAtomic[a] =>
                   /\ r.kind = "Atomic" /\ r.obj = a
                   /\ lastAtomic'[a] = r.seq /\ lastAtomic[a] + 1 >= r.seq
  BY <1>2, <1>7, <1>9 DEF Maximum
<1> HIDE DEF r
<1>12. AcquiresGated'
  <2> SUFFICES ASSUME NEW u \in Threads, NEW j \in 1 .. fetched[u],
                      trace[u][j].kind = "LockAcquire"
               PROVE  lastLock'[trace[u][j].obj] + 1 >= trace[u][j].seq
    BY <1>6 DEF AcquiresGated
  <2>1. j \in 1 .. Len(trace[u]) /\ trace[u] \in Seq(SyncRecords)
    BY DEF TypeOK
  <2>2. trace[u][j] \in SyncRecords
    BY <2>1, ElementTyped
  <2>3. trace[u][j].obj \in Mutexes /\ trace[u][j].seq \in Nat
    BY <2>1, <2>2 DEF SyncInv, LocksNumbered, AcquiresBounded, SyncRecords
  <2>4. lastLock[trace[u][j].obj] + 1 >= trace[u][j].seq
    BY DEF SyncInv, LocksCounted, AcquiresGated
  <2> QED
    BY <1>7, <1>10, <2>3, <2>4
<1>13. AtomicsGated'
  <2> SUFFICES ASSUME NEW u \in Threads, NEW j \in 1 .. fetched[u],
                      trace[u][j].kind = "Atomic"
               PROVE  lastAtomic'[trace[u][j].obj] + 1 >= trace[u][j].seq
    BY <1>6 DEF AtomicsGated
  <2>1. j \in 1 .. Len(trace[u]) /\ trace[u] \in Seq(SyncRecords)
    BY DEF TypeOK
  <2>2. trace[u][j] \in SyncRecords
    BY <2>1, ElementTyped
  <2>3. trace[u][j].obj \in Atomics /\ trace[u][j].seq \in Nat
    BY <2>1, <2>2 DEF SyncInv, AtomicsNumbered, AtomicsBounded, SyncRecords
  <2>4. lastAtomic[trace[u][j].obj] + 1 >= trace[u][j].seq
    BY DEF SyncInv, AtomicsCounted, AtomicsGated
  <2> QED
    BY <1>7, <1>11, <2>3, <2>4
<1>14. ReleasesRetired'
  <2> SUFFICES ASSUME NEW m \in Mutexes, NEW k \in 0 .. lastLock'[m]
               PROVE  \E u \in Threads : \E j \in 1 .. retired'[u] :
                        trace[u][j] = Record("LockRelease", m, k, 0)
    BY <1>6 DEF ReleasesRetired
  <2>1. CASE k \in 0 .. lastLock[m]
    <3>1. PICK u \in Threads : \E j \in 1 .. retired[u] :
            trace[u][j] = Record("LockRelease", m, k, 0)
      BY <2>1 DEF SyncInv, LocksCounted, ReleasesRetired
    <3> QED
      BY <1>4, <3>1
  <2>2. CASE ~(k \in 0 .. lastLock[m])
    <3>1. k = r.seq /\ r.obj = m /\ r.kind = "LockRelease"
      BY <1>2, <1>7, <1>10, <2>2
    <3> QED
      BY <1>5, <1>8, <3>1 DEF r
  <2> QED
    BY <2>1, <2>2
<1>15. AtomicsRetired'
  <2> SUFFICES ASSUME NEW a \in Atomics, NEW k \in 0 .. lastAtomic'[a]
               PROVE  \E u \in Threads : \E j \in 1 .. retired'[u] :
                        trace[u][j] = Record("Atomic", a, k, 0)
    BY <1>6 DEF AtomicsRetired
  <2>1. CASE k \in 0 .. lastAtomic[a]
    <3>1. PICK u \in Threads : \E j \in 1 .. retired[u] :
            trace[u][j] = Record("Atomic", a, k, 0)
      BY <2>1 DEF SyncInv, AtomicsCounted, AtomicsRetired
    <3> QED
      BY <1>4, <3>1
  <2>2. CASE ~(k \in 0 .. lastAtomic[a])
    <3>1. k = r.seq /\ r.obj = a /\ r.kind = "Atomic"
      BY <1>2, <1>7, <1>11, <2>2
    <3> QED
      BY <1>5, <1>9, <3>1 DEF r
  <2> QED
    BY <2>1, <2>2
<1> QED
  BY <1>3, <1>12, <1>13, <1>14, <1>15 DEF SyncInv, LocksCounted, AtomicsCounted

\* Steps that touch neither the recording's records nor the counters.
LEMMA FrameKeeps ==
  ASSUME SyncInv, trace' = trace, held' = held, lockSeq' = lockSeq,
         atomicSeq' = atomicSeq, fetched' = fetched, retired' = retired,
         lastLock' = lastLock, lastAtomic' = lastAtomic
  PROVE  SyncInv'
<1>1. LocksNumbered' /\ AtomicsNumbered'
  BY NumberedFrame DEF SyncInv
<1>2. LocksCounted' /\ AtomicsCounted'
  BY DEF SyncInv, LocksCounted, AtomicsCounted, AcquiresGated, ReleasesRetired,
         AtomicsGated, AtomicsRetired
<1> QED
  BY <1>1, <1>2 DEF SyncInv

LEMMA StepKeeps == ASSUME TypeOK, SyncInv, [Next]_vars  PROVE SyncInv'
<1>1. ASSUME NEW t \in Threads, Record1(t)  PROVE SyncInv'
  BY <1>1, EmitStepKeeps
<1>2. ASSUME NEW t \in Threads, HoldBack(t)  PROVE SyncInv'
  BY <1>2, FrameKeeps DEF HoldBack, recVars, coordVars
<1>3. ASSUME NEW t \in Threads, Replay(t)  PROVE SyncInv'
  BY <1>2, <1>3, FetchKeeps, RetireKeeps DEF Replay
<1>4. CASE WriteProgram
  BY <1>4, FrameKeeps DEF WriteProgram, coordVars
<1>5. CASE UNCHANGED vars
  BY <1>5, FrameKeeps DEF vars, recVars, coordVars
<1> QED
  BY <1>1, <1>3, <1>4, <1>5 DEF Next

LEMMA InitKeeps == Init => SyncInv
<1> SUFFICES ASSUME Init  PROVE SyncInv
  OBVIOUS
<1>1. \A t \in Threads : /\ 1 .. Len(trace[t]) = {} /\ 1 .. Len(held[t]) = {}
                         /\ 1 .. fetched[t] = {}
  BY DEF Init
<1>2. LocksNumbered /\ AtomicsNumbered
  BY <1>1 DEF LocksNumbered, AcquiresBounded, AcquiresUnique, HeldAcquired,
              ReleasesMatched, AtomicsNumbered, AtomicsBounded, AtomicsUnique
<1>3. LocksCounted /\ AtomicsCounted
  BY <1>1 DEF Init, LocksCounted, AtomicsCounted, AcquiresGated, ReleasesRetired,
              AtomicsGated, AtomicsRetired
<1> QED
  BY <1>2, <1>3 DEF SyncInv

\* The numbering and the counters agree in every reachable state.
THEOREM SyncInvariant == Spec => [](TypeOK /\ SyncInv)
<1>1. Init => TypeOK /\ SyncInv
  BY InitTyped, InitKeeps
<1>2. TypeOK /\ SyncInv /\ [Next]_vars => (TypeOK /\ SyncInv)'
  BY StepTyped, StepKeeps
<1> QED
  BY <1>1, <1>2, PTL DEF Spec

\* A later acquire let in means that every earlier release has retired.
LEMMA SectionsOrdered ==
  ASSUME TypeOK, SyncInv, NEW m \in Mutexes, NEW t \in Threads, NEW u \in Threads,
         NEW i \in 1 .. fetched[t], NEW j \in 1 .. fetched[u],
         trace[t][i].kind = "LockAcquire", trace[t][i].obj = m,
         trace[u][j].kind = "LockAcquire", trace[u][j].obj = m,
         trace[t][i].seq < trace[u][j].seq
  PROVE  \E k \in 1 .. retired[t] :
           trace[t][k] = Record("LockRelease", m, trace[t][i].seq, 0)
<1> DEFINE s == trace[t][i].seq
<1>1. /\ i \in 1 .. Len(trace[t]) /\ j \in 1 .. Len(trace[u])
      /\ trace[t] \in Seq(SyncRecords) /\ trace[u] \in Seq(SyncRecords)
  BY DEF TypeOK
<1>2. trace[t][i] \in SyncRecords /\ trace[u][j] \in SyncRecords
  BY <1>1, ElementTyped
<1>3. s \in Nat /\ trace[u][j].seq \in Nat /\ lastLock[m] \in Int
  BY <1>2 DEF SyncRecords, TypeOK
<1>4. s \in 0 .. lastLock[m]
  BY <1>3 DEF SyncInv, LocksCounted, AcquiresGated
<1> HIDE DEF s
<1>5a. PICK v \in Threads : \E k \in 1 .. retired[v] :
        trace[v][k] = Record("LockRelease", m, s, 0)
  BY <1>4 DEF SyncInv, LocksCounted, ReleasesRetired
<1>5. PICK k \in 1 .. retired[v] :
        trace[v][k] = Record("LockRelease", m, s, 0)
  BY <1>5a
<1>6. /\ k \in 1 .. Len(trace[v]) /\ trace[v][k].kind = "LockRelease"
      /\ trace[v][k].obj = m /\ trace[v][k].seq = s
  BY <1>5 DEF TypeOK, Record
<1>7. PICK a \in 1 .. k - 1 : trace[v][a] = Record("LockAcquire", m, s, 0)
  BY <1>6 DEF SyncInv, LocksNumbered, ReleasesMatched
<1>8. /\ a \in 1 .. Len(trace[v]) /\ trace[v][a].kind = "LockAcquire"
      /\ trace[v][a].obj = m /\ trace[v][a].seq = s
  BY <1>6, <1>7 DEF Record, TypeOK
<1>9. v = t
  BY <1>1, <1>8 DEF SyncInv, LocksNumbered, AcquiresUnique, s
<1> QED
  BY <1>5, <1>9 DEF s

LEMMA InvExcludes == TypeOK /\ SyncInv => MutualExclusion
<1> SUFFICES ASSUME TypeOK, SyncInv, NEW m \in Mutexes, NEW t \in Threads,
                    NEW u \in Threads, InSection(t, m), InSection(u, m)
             PROVE  t = u
  BY DEF MutualExclusion
<1>1. PICK i \in 1 .. fetched[t] :
        /\ trace[t][i].kind = "LockAcquire" /\ trace[t][i].obj = m
        /\ \A k \in 1 .. retired[t] :
             trace[t][k] # Record("LockRelease", m, trace[t][i].seq, 0)
  BY DEF InSection
<1>2. PICK j \in 1 .. fetched[u] :
        /\ trace[u][j].kind = "LockAcquire" /\ trace[u][j].obj = m
        /\ \A k \in 1 .. retired[u] :
             trace[u][k] # Record("LockRelease", m, trace[u][j].seq, 0)
  BY DEF InSection
<1>3. /\ i \in 1 .. Len(trace[t]) /\ j \in 1 .. Len(trace[u])
      /\ trace[t] \in Seq(SyncRecords) /\ trace[u] \in Seq(SyncRecords)
  BY DEF TypeOK
<1>4. trace[t][i] \in SyncRecords /\ trace[u][j] \in SyncRecords
  BY <1>3, ElementTyped
<1>5. trace[t][i].seq \in Nat /\ trace[u][j].seq \in Nat
  BY <1>4 DEF SyncRecords
<1>6. trace[t][i].seq = trace[u][j].seq
  <2>1. ~(trace[t][i].seq < trace[u][j].seq)
    BY <1>1, <1>2, SectionsOrdered
  <2>2. ~(trace[u][j].seq < trace[t][i].seq)
    BY <1>1, <1>2, SectionsOrdered
  <2> QED
    BY <1>5, <2>1, <2>2
<1> QED
  BY <1>1, <1>2, <1>3, <1>6 DEF SyncInv, LocksNumbered, AcquiresUnique

\* Critical sections of one lock never overlap in the replay, for any number
\* of threads, locks and records and any order of recording.
THEOREM SyncMutualExclusion == Spec => []MutualExclusion
BY SyncInvariant, InvExcludes, PTL

\* Of two accesses to an atomic in flight neither can have the smaller number.
LEMMA AtomicsOrdered ==
  ASSUME TypeOK, SyncInv, NEW a \in Atomics, NEW t \in Threads, NEW u \in Threads,
         NEW i \in Pipeline(t), NEW j \in Pipeline(u),
         trace[t][i].kind = "Atomic", trace[t][i].obj = a,
         trace[u][j].kind = "Atomic", trace[u][j].obj = a
  PROVE  ~(trace[t][i].seq < trace[u][j].seq)
<1> SUFFICES ASSUME trace[t][i].seq < trace[u][j].seq  PROVE FALSE
  OBVIOUS
<1> DEFINE s == trace[t][i].seq
<1>1. /\ i \in 1 .. Len(trace[t]) /\ i > retired[t] /\ trace[t][i] \in SyncRecords
      /\ j \in 1 .. fetched[u] /\ trace[u][j] \in SyncRecords
  <2>1. i \in 1 .. Len(trace[t]) /\ i > retired[t] /\ trace[t][i] \in SyncRecords
    BY InPipeline
  <2>2. /\ j \in Nat /\ j <= fetched[u] /\ j \in 1 .. Len(trace[u])
        /\ trace[u][j] \in SyncRecords
    BY InPipeline
  <2>3. trace[u] \in Seq(SyncRecords) /\ fetched[u] \in Nat
    BY DEF TypeOK
  <2>4. j \in 1 .. fetched[u]
    BY <2>2, <2>3
  <2> QED
    BY <2>1, <2>2, <2>4
<1>2. s \in Nat /\ trace[u][j].seq \in Nat /\ lastAtomic[a] \in Int
  BY <1>1 DEF SyncRecords, TypeOK
<1>3. s \in 0 .. lastAtomic[a]
  BY <1>1, <1>2 DEF SyncInv, AtomicsCounted, AtomicsGated
<1> HIDE DEF s
<1>4a. PICK v \in Threads : \E k \in 1 .. retired[v] :
        trace[v][k] = Record("Atomic", a, s, 0)
  BY <1>3 DEF SyncInv, AtomicsCounted, AtomicsRetired
<1>4. PICK k \in 1 .. retired[v] :
        trace[v][k] = Record("Atomic", a, s, 0)
  BY <1>4a
<1>5. /\ k \in 1 .. Len(trace[v]) /\ trace[v][k].kind = "Atomic"
      /\ trace[v][k].obj = a /\ trace[v][k].seq = s
  BY <1>4 DEF TypeOK, Record
<1>6. v = t /\ k = i
  BY <1>1, <1>5 DEF SyncInv, AtomicsNumbered, AtomicsUnique, s
<1> QED
  BY <1>1, <1>4, <1>6 DEF TypeOK

LEMMA InvSerialises == TypeOK /\ SyncInv => AtomicsSerialised
<1> SUFFICES ASSUME TypeOK, SyncInv, NEW a \in Atomics, NEW t \in Threads,
                    NEW u \in Threads, NEW i \in Pipeline(t), NEW j \in Pipeline(u),
                    trace[t][i].kind = "Atomic", trace[t][i].obj = a,
                    trace[u][j].kind = "Atomic", trace[u][j].obj = a
             PROVE  t = u /\ i = j
  BY DEF AtomicsSerialised
<1>1. /\ i \in 1 .. Len(trace[t]) /\ j \in 1 .. Len(trace[u])
      /\ trace[t][i] \in SyncRecords /\ trace[u][j] \in SyncRecords
  BY InPipeline
<1>2. trace[t][i].seq \in Nat /\ trace[u][j].seq \in Nat
  BY <1>1 DEF SyncRecords
<1>3. trace[t][i].seq = trace[u][j].seq
  <2>1. ~(trace[t][i].seq < trace[u][j].seq)
    BY AtomicsOrdered
  <2>2. ~(trace[u][j].seq < trace[t][i].seq)
    BY AtomicsOrdered
  <2> QED
    BY <1>2, <2>1, <2>2
<1> QED
  BY <1>1, <1>3 DEF SyncInv, AtomicsNumbered, AtomicsUnique

\* Accesses to one atomic never overlap in the replay.
THEOREM SyncAtomicsSerialised == Spec => []AtomicsSerialised
BY SyncInvariant, InvSerialises, PTL

-------------------------------------------------------------------------------
(* Barriers.                                                               *)

\* Where any thread arrives at iteration k of b, and which of these arrivals
\* have retired.
AllArrivals(b, k) == {p \in Threads \X Nat : p[2] \in Arrivals(p[1], b, k)}
RetiredArrivals(b, k) == {p \in AllArrivals(b, k) : p[2] <= retired[p[1]]}

\* The recorder's iterations: those before the current one have all their
\* arrivals, the current one those counted, and a later one has none.
Gathering ==
  \A b \in Barriers :
    /\ iter[b] <= emitted /\ gathered[b] < Participants
    /\ \A k \in Nat :
         /\ IsFiniteSet(AllArrivals(b, k))
         /\ Cardinality(AllArrivals(b, k)) <= Participants
         /\ k = iter[b] => Cardinality(AllArrivals(b, k)) = gathered[b]
         /\ k > iter[b] => AllArrivals(b, k) = {}

\* The barrier records name iterations the recorder has reached.
BarriersShaped ==
  \A t \in Threads : \A i \in 1 .. Len(trace[t]) :
    trace[t][i].kind \in {"BarrierArrive", "BarrierLeave"} =>
      /\ trace[t][i].obj \in Barriers
      /\ trace[t][i].seq <= iter[trace[t][i].obj]
      /\ trace[t][i].kind = "BarrierArrive" => trace[t][i].extra = Participants

\* The coordinator counts the retired arrivals.
ArrivalsCounted ==
  \A b \in Barriers : \A k \in Iterations :
    /\ arrived[b][k] = Cardinality(RetiredArrivals(b, k))
    /\ expected[b][k] \in {0, Participants}

NothingFetchedYet == recording => \A t \in Threads : fetched[t] = 0

BarrierInv ==
  /\ Gathering /\ BarriersShaped /\ ArrivalsCounted /\ NothingFetchedYet
  /\ BarrierSeparates

LEMMA ArrivalSets ==
  ASSUME NEW b, NEW k, NEW p
  PROVE  /\ p \in AllArrivals(b, k) <=>
              /\ p \in Threads \X Nat /\ p[2] \in 1 .. Len(trace[p[1]])
              /\ trace[p[1]][p[2]].kind = "BarrierArrive"
              /\ trace[p[1]][p[2]].obj = b /\ trace[p[1]][p[2]].seq = k
         /\ p \in RetiredArrivals(b, k) <=>
              p \in AllArrivals(b, k) /\ p[2] <= retired[p[1]]
BY DEF AllArrivals, RetiredArrivals, Arrivals

LEMMA InitBarrier == Init => BarrierInv
<1> SUFFICES ASSUME Init  PROVE BarrierInv
  OBVIOUS
<1>1. \A t \in Threads : 1 .. Len(trace[t]) = {} /\ 1 .. fetched[t] = {}
  BY DEF Init
<1>2. \A b, k : AllArrivals(b, k) = {} /\ RetiredArrivals(b, k) = {}
  BY <1>1, ArrivalSets
<1>3. IsFiniteSet({}) /\ Cardinality({}) = 0
  BY FS_EmptySet
<1>4. Gathering
  <2>1. /\ iter = [b \in Barriers |-> 0] /\ gathered = [b \in Barriers |-> 0]
        /\ emitted = 0 /\ 0 < Participants /\ 0 <= Participants
    BY ParticipantsAssumption DEF Init
  <2>2. ASSUME NEW b \in Barriers
        PROVE  iter[b] <= emitted /\ gathered[b] < Participants /\ gathered[b] = 0
    BY <2>1
  <2>3. ASSUME NEW b \in Barriers, NEW k \in Nat
        PROVE  /\ IsFiniteSet(AllArrivals(b, k)) /\ AllArrivals(b, k) = {}
               /\ Cardinality(AllArrivals(b, k)) = 0
    BY <1>2, <1>3
  <2> QED
    BY <2>1, <2>2, <2>3 DEF Gathering
<1>5. ArrivalsCounted
  BY <1>2, <1>3 DEF Init, ArrivalsCounted, Iterations
<1>6. BarriersShaped /\ BarrierSeparates
  BY <1>1 DEF BarriersShaped, BarrierSeparates
<1> QED
  BY <1>4, <1>5, <1>6 DEF BarrierInv, NothingFetchedYet, Init

\* What a call other than emit_barrier appends is no barrier record.
NoBarrierAdded ==
  /\ \A u \in Threads : /\ Len(trace'[u]) \in Nat /\ Len(trace[u]) <= Len(trace'[u])
                        /\ \A i \in 1 .. Len(trace[u]) : trace'[u][i] = trace[u][i]
                        /\ \A i \in 1 .. Len(trace'[u]) : i > Len(trace[u]) =>
                             trace'[u][i].kind \notin {"BarrierArrive", "BarrierLeave"}

LEMMA OthersAddNone ==
  ASSUME TypeOK, NEW t \in Threads,
         \/ EmitInstr(t) \/ EmitUnlock(t)
         \/ \E m \in Mutexes : EmitLock(t, m)
         \/ \E a \in Atomics : EmitAtomic(t, a)
  PROVE  NoBarrierAdded
<1>1. PICK R : /\ Extends(trace, trace', t, R)
               /\ R.kind \notin {"BarrierArrive", "BarrierLeave"}
               /\ \A i \in 1 .. Len(trace'[t]) - 1 : i > Len(trace[t]) => trace'[t][i] = Instr
  <2>1. trace \in [Threads -> Seq(SyncRecords)] /\ trace[t] \in Seq(SyncRecords)
    BY DEF TypeOK
  <2>2. CASE EmitInstr(t)
    <3>1. Len(trace'[t]) = Len(trace[t]) + 1
      BY <2>1, <2>2 DEF EmitInstr
    <3> QED
      BY <2>1, <2>2, <3>1, EmitInstrExtends DEF Instr, Record
  <2>3. CASE EmitUnlock(t)
    <3> DEFINE R == Record("LockRelease", held[t][Len(held[t])].obj,
                                          held[t][Len(held[t])].seq, 0)
    <3>1. trace'[t] = Append(Append(trace[t], Instr), R)
      BY <2>1, <2>3 DEF EmitUnlock
    <3>2. R.kind = "LockRelease"
      BY DEF Record
    <3> HIDE DEF R
    <3>3. /\ Len(trace'[t]) = Len(trace[t]) + 2
          /\ trace'[t][Len(trace[t]) + 1] = Instr
      BY <2>1, <3>1
    <3>4. Extends(trace, trace', t, R)
      BY <2>3, EmitUnlockExtends DEF R
    <3> QED
      BY <2>1, <3>2, <3>3, <3>4
  <2>4. ASSUME NEW m \in Mutexes, EmitLock(t, m)
        PROVE  \E R : /\ Extends(trace, trace', t, R)
                      /\ R.kind \notin {"BarrierArrive", "BarrierLeave"}
                      /\ \A i \in 1 .. Len(trace'[t]) - 1 :
                           i > Len(trace[t]) => trace'[t][i] = Instr
    <3> DEFINE R == Record("LockAcquire", m, lockSeq[m], 0)
    <3>1. trace'[t] = Append(Append(Append(trace[t], Instr), Instr), R)
      BY <2>1, <2>4 DEF EmitLock
    <3>2. R.kind = "LockAcquire"
      BY DEF Record
    <3> HIDE DEF R
    <3>3. /\ Len(trace'[t]) = Len(trace[t]) + 3
          /\ trace'[t][Len(trace[t]) + 1] = Instr
          /\ trace'[t][Len(trace[t]) + 2] = Instr
      BY <2>1, <3>1
    <3>4. Extends(trace, trace', t, R)
      BY <2>4, EmitLockExtends DEF R
    <3> QED
      BY <2>1, <3>2, <3>3, <3>4
  <2>5. ASSUME NEW a \in Atomics, EmitAtomic(t, a)
        PROVE  \E R : /\ Extends(trace, trace', t, R)
                      /\ R.kind \notin {"BarrierArrive", "BarrierLeave"}
                      /\ \A i \in 1 .. Len(trace'[t]) - 1 :
                           i > Len(trace[t]) => trace'[t][i] = Instr
    <3> DEFINE R == Record("Atomic", a, atomicSeq[a], 0)
    <3>1. Len(trace'[t]) = Len(trace[t]) + 1
      BY <2>1, <2>5 DEF EmitAtomic
    <3>2. R.kind = "Atomic"
      BY DEF Record
    <3>3. Extends(trace, trace', t, R)
      BY <2>5, EmitAtomicExtends
    <3> HIDE DEF R
    <3> QED
      BY <2>1, <3>1, <3>2, <3>3
  <2> QED
    BY <2>2, <2>3, <2>4, <2>5
<1>2. Instr.kind = "Instr"
  BY DEF Instr, Record
<1>3. ASSUME NEW u \in Threads, NEW i \in 1 .. Len(trace'[u]), i > Len(trace[u])
      PROVE  trace'[u][i].kind \notin {"BarrierArrive", "BarrierLeave"}
  <2>1. u = t
    BY <1>1, <1>3 DEF Extends
  <2>2. CASE i = Len(trace'[t])
    BY <1>1, <2>1, <2>2 DEF Extends
  <2>3. CASE i # Len(trace'[t])
    <3>1. i \in 1 .. Len(trace'[t]) - 1
      BY <1>1, <2>1, <2>3 DEF Extends
    <3> QED
      BY <1>1, <1>2, <1>3, <2>1, <3>1
  <2> QED
    BY <2>2, <2>3
<1> QED
  BY <1>1, <1>3 DEF NoBarrierAdded, Extends

\* They disturb nothing a barrier depends on.
LEMMA OthersKeepBarriers ==
  ASSUME TypeOK, BarrierInv, NoBarrierAdded, NEW t \in Threads, NEW c, Emit(t, c),
         UNCHANGED <<iter, gathered>>
  PROVE  BarrierInv'
<1>1. /\ emitted' = emitted + 1 /\ recording /\ recording' = recording
      /\ UNCHANGED <<fetched, retired, arrived, expected, iter, gathered>>
  BY DEF Emit, coordVars
<1>2. ASSUME NEW b, NEW k
      PROVE  AllArrivals(b, k)' = AllArrivals(b, k)
  <2>1. ASSUME NEW p \in Threads \X Nat
        PROVE  p \in AllArrivals(b, k)' <=> p \in AllArrivals(b, k)
    <3>1. p[1] \in Threads /\ p[2] \in Nat /\ Len(trace[p[1]]) \in Nat
      BY DEF TypeOK
    <3>2. p[2] \in 1 .. Len(trace[p[1]]) => trace'[p[1]][p[2]] = trace[p[1]][p[2]]
                                            /\ p[2] \in 1 .. Len(trace'[p[1]])
      BY <3>1 DEF NoBarrierAdded
    <3>3. p[2] \in 1 .. Len(trace'[p[1]]) /\ p[2] \notin 1 .. Len(trace[p[1]])
            => trace'[p[1]][p[2]].kind # "BarrierArrive"
      BY <3>1 DEF NoBarrierAdded
    <3> QED
      BY <3>2, <3>3 DEF AllArrivals, Arrivals
  <2> QED
    BY <2>1 DEF AllArrivals
<1>3. \A b, k : RetiredArrivals(b, k)' = RetiredArrivals(b, k)
  BY <1>1, <1>2 DEF RetiredArrivals
<1>4. Gathering'
  <2>1. emitted \in Nat /\ \A b \in Barriers : iter[b] \in Nat
    BY MaxEmitsAssumption DEF TypeOK
  <2> QED
    BY <1>1, <1>2, <2>1 DEF BarrierInv, Gathering
<1>5. ArrivalsCounted'
  BY <1>1, <1>3 DEF BarrierInv, ArrivalsCounted, Iterations
<1>6. BarriersShaped'
  <2>1. ASSUME NEW u \in Threads, NEW i \in 1 .. Len(trace'[u]),
               trace'[u][i].kind \in {"BarrierArrive", "BarrierLeave"}
        PROVE  i \in 1 .. Len(trace[u]) /\ trace'[u][i] = trace[u][i]
    <3>1. Len(trace[u]) \in Nat
      BY DEF TypeOK
    <3> QED
      BY <2>1, <3>1 DEF NoBarrierAdded
  <2> QED
    BY <1>1, <2>1 DEF BarrierInv, BarriersShaped
<1>7. \A u \in Threads : 1 .. fetched'[u] = {}
  BY <1>1 DEF BarrierInv, NothingFetchedYet
<1> QED
  BY <1>1, <1>4, <1>5, <1>6, <1>7 DEF BarrierInv, NothingFetchedYet, BarrierSeparates

\* emit_barrier adds one arrival, to the current iteration.
LEMMA OneArrival ==
  ASSUME TypeOK, NEW t \in Threads, NEW b \in Barriers, EmitBarrier(t, b)
  PROVE  LET n == Len(trace[t]) + 1 IN
         /\ n \in Nat /\ <<t, n>> \notin AllArrivals(b, iter[b])
         /\ \A c, k : AllArrivals(c, k)' =
              IF c = b /\ k = iter[b] THEN AllArrivals(c, k) \cup {<<t, n>>}
              ELSE AllArrivals(c, k)
         /\ \A u \in Threads : \A i \in 1 .. Len(trace[u]) : trace'[u][i] = trace[u][i]
         /\ \A u \in Threads : \A i \in 1 .. Len(trace'[u]) :
              \/ i \in 1 .. Len(trace[u])
              \/ u = t /\ i = n /\ trace'[u][i] = Record("BarrierArrive", b, iter[b], Participants)
              \/ u = t /\ i = n + 1 /\ trace'[u][i] = Record("BarrierLeave", b, iter[b], 0)
<1> DEFINE n == Len(trace[t]) + 1
           A == Record("BarrierArrive", b, iter[b], Participants)
           L == Record("BarrierLeave", b, iter[b], 0)
<1>1. trace \in [Threads -> Seq(SyncRecords)] /\ Len(trace[t]) \in Nat /\ n \in Nat
  BY DEF TypeOK
<1>2. /\ trace'[t] = Append(Append(trace[t], A), L)
      /\ \A u \in Threads : u # t => trace'[u] = trace[u]
  BY <1>1 DEF EmitBarrier
<1>3. /\ A.kind = "BarrierArrive" /\ A.obj = b /\ A.seq = iter[b]
      /\ L.kind = "BarrierLeave"
  BY DEF Record
<1> HIDE DEF A, L
<1>4. /\ Len(trace'[t]) = n + 1 /\ trace'[t][n] = A /\ trace'[t][n + 1] = L
      /\ \A i \in 1 .. Len(trace[t]) : trace'[t][i] = trace[t][i]
  BY <1>1, <1>2
<1>5. ASSUME NEW u \in Threads, NEW i \in 1 .. Len(trace[u])
      PROVE  trace'[u][i] = trace[u][i] /\ i \in 1 .. Len(trace'[u])
  BY <1>1, <1>2, <1>4
<1>6. ASSUME NEW u \in Threads, NEW i \in 1 .. Len(trace'[u])
      PROVE  \/ i \in 1 .. Len(trace[u])
             \/ u = t /\ i = n /\ trace'[u][i] = A
             \/ u = t /\ i = n + 1 /\ trace'[u][i] = L
  BY <1>1, <1>2, <1>4
<1> HIDE DEF n
<1>7. ASSUME NEW c, NEW k, NEW p \in Threads \X Nat
      PROVE  p \in AllArrivals(c, k)' <=>
               p \in AllArrivals(c, k) \/ (c = b /\ k = iter[b] /\ p = <<t, n>>)
  <2>1. p[1] \in Threads /\ p[2] \in Nat /\ p = <<p[1], p[2]>>
    OBVIOUS
  <2>2. CASE p[2] \in 1 .. Len(trace[p[1]])
    <3>1. p # <<t, n>>
      BY <1>1, <2>2 DEF n
    <3> QED
      BY <1>5, <2>1, <2>2, <3>1 DEF AllArrivals, Arrivals
  <2>3. CASE p[2] \notin 1 .. Len(trace[p[1]])
    <3>1. p \notin AllArrivals(c, k)
      BY <2>3 DEF AllArrivals, Arrivals
    <3>2. p \in AllArrivals(c, k)' <=>
            p[1] = t /\ p[2] = n /\ c = b /\ k = iter[b]
      <4>1. ASSUME p \in AllArrivals(c, k)'
            PROVE  p[1] = t /\ p[2] = n /\ c = b /\ k = iter[b]
        <5>1. /\ p[2] \in 1 .. Len(trace'[p[1]])
              /\ trace'[p[1]][p[2]].kind = "BarrierArrive"
              /\ trace'[p[1]][p[2]].obj = c /\ trace'[p[1]][p[2]].seq = k
          BY <4>1 DEF AllArrivals, Arrivals
        <5> QED
          BY <1>3, <1>6, <2>1, <2>3, <5>1
      <4>2. ASSUME p[1] = t, p[2] = n, c = b, k = iter[b]
            PROVE  p \in AllArrivals(c, k)'
        <5>1. n \in 1 .. Len(trace'[t])
          BY <1>1, <1>4 DEF n
        <5> QED
          BY <1>3, <1>4, <4>2, <5>1 DEF AllArrivals, Arrivals
      <4> QED
        BY <4>1, <4>2
    <3> QED
      BY <2>1, <3>1, <3>2
  <2> QED
    BY <2>2, <2>3
<1>8. ASSUME NEW c, NEW k
      PROVE  AllArrivals(c, k)' =
              IF c = b /\ k = iter[b] THEN AllArrivals(c, k) \cup {<<t, n>>}
              ELSE AllArrivals(c, k)
  <2>1. AllArrivals(c, k) \subseteq Threads \X Nat /\ AllArrivals(c, k)' \subseteq Threads \X Nat
    BY DEF AllArrivals
  <2>2. <<t, n>> \in Threads \X Nat
    BY <1>1
  <2> QED
    BY <1>7, <2>1, <2>2
<1>9. <<t, n>> \notin AllArrivals(b, iter[b])
  <2>1. n \notin 1 .. Len(trace[t])
    BY <1>1 DEF n
  <2> QED
    BY <2>1 DEF AllArrivals, Arrivals
<1> QED
  BY <1>1, <1>5, <1>6, <1>8, <1>9 DEF n, A, L

LEMMA EmitBarrierKeeps ==
  ASSUME TypeOK, BarrierInv, NEW t \in Threads, NEW b \in Barriers, EmitBarrier(t, b)
  PROVE  BarrierInv'
<1> DEFINE n == Len(trace[t]) + 1
<1>1. /\ emitted' = emitted + 1 /\ recording /\ recording' = recording
      /\ UNCHANGED <<fetched, retired, arrived, expected>>
  BY DEF EmitBarrier, Emit, coordVars
<1>2. /\ iter \in [Barriers -> Nat] /\ gathered \in [Barriers -> Nat] /\ emitted \in Nat
      /\ retired[t] = 0 /\ \A u \in Threads : fetched[u] = 0
      /\ Participants \in Nat \ {0}
  BY <1>1, MaxEmitsAssumption, ParticipantsAssumption
     DEF TypeOK, BarrierInv, NothingFetchedYet
<1>3. /\ n \in Nat /\ <<t, n>> \notin AllArrivals(b, iter[b])
      /\ \A c, k : AllArrivals(c, k)' =
           IF c = b /\ k = iter[b] THEN AllArrivals(c, k) \cup {<<t, n>>}
           ELSE AllArrivals(c, k)
      /\ \A u \in Threads : \A i \in 1 .. Len(trace[u]) : trace'[u][i] = trace[u][i]
      /\ \A u \in Threads : \A i \in 1 .. Len(trace'[u]) :
           \/ i \in 1 .. Len(trace[u])
           \/ u = t /\ i = n /\ trace'[u][i] = Record("BarrierArrive", b, iter[b], Participants)
           \/ u = t /\ i = n + 1 /\ trace'[u][i] = Record("BarrierLeave", b, iter[b], 0)
  BY OneArrival
<1> HIDE DEF n
<1>4. /\ gathered' = [gathered EXCEPT ![b] = IF gathered[b] + 1 >= Participants
                                             THEN 0 ELSE @ + 1]
      /\ iter' = [iter EXCEPT ![b] = IF gathered[b] + 1 >= Participants THEN @ + 1 ELSE @]
  BY DEF EmitBarrier
<1>5. /\ Cardinality(AllArrivals(b, iter[b])) = gathered[b]
      /\ Cardinality(AllArrivals(b, iter[b]) \cup {<<t, n>>}) = gathered[b] + 1
      /\ IsFiniteSet(AllArrivals(b, iter[b]) \cup {<<t, n>>})
      /\ gathered[b] + 1 <= Participants
  <2>1. /\ IsFiniteSet(AllArrivals(b, iter[b])) /\ gathered[b] < Participants
        /\ Cardinality(AllArrivals(b, iter[b])) = gathered[b]
    BY <1>2 DEF BarrierInv, Gathering
  <2>2. /\ IsFiniteSet(AllArrivals(b, iter[b]) \cup {<<t, n>>})
        /\ Cardinality(AllArrivals(b, iter[b]) \cup {<<t, n>>}) = gathered[b] + 1
    BY <1>3, <2>1, FS_AddElement
  <2> QED
    BY <1>2, <1>3, <2>1, <2>2
<1>6. Gathering'
  <2>1. ASSUME NEW c \in Barriers
        PROVE  /\ iter'[c] <= emitted' /\ gathered'[c] < Participants
               /\ iter'[c] \in Nat /\ iter[c] <= iter'[c]
    <3>1. iter[c] <= emitted /\ gathered[c] < Participants
      BY DEF BarrierInv, Gathering
    <3> QED
      BY <1>1, <1>2, <1>4, <1>5, <3>1
  <2>2. ASSUME NEW c \in Barriers, NEW k \in Nat
        PROVE  LET S == AllArrivals(c, k)' IN
               /\ IsFiniteSet(S) /\ Cardinality(S) <= Participants
               /\ k = iter'[c] => Cardinality(S) = gathered'[c]
               /\ k > iter'[c] => S = {}
    <3>1. /\ IsFiniteSet(AllArrivals(c, k)) /\ Cardinality(AllArrivals(c, k)) <= Participants
          /\ k = iter[c] => Cardinality(AllArrivals(c, k)) = gathered[c]
          /\ k > iter[c] => AllArrivals(c, k) = {}
      BY DEF BarrierInv, Gathering
    <3>2. CASE c = b /\ k = iter[b]
      <4>1. AllArrivals(c, k)' = AllArrivals(b, iter[b]) \cup {<<t, n>>}
        BY <1>3, <3>2
      <4> HIDE DEF AllArrivals
      <4> QED
        BY <1>2, <1>4, <1>5, <3>2, <4>1
    <3>3. CASE c = b /\ k # iter[b]
      <4>1. AllArrivals(c, k)' = AllArrivals(c, k)
        BY <1>3, <3>3
      <4>2. k = iter[b] + 1 => Cardinality(AllArrivals(c, k)) = 0
        BY <1>2, <3>1, <3>3, FS_EmptySet
      <4>3. k = iter'[c] => k = iter[b] + 1 /\ gathered'[c] = 0
        BY <1>2, <1>4, <3>3
      <4>4. k > iter'[c] => k > iter[c]
        BY <1>2, <2>1
      <4> QED
        BY <3>1, <4>1, <4>2, <4>3, <4>4
    <3>4. CASE c # b
      <4>1. AllArrivals(c, k)' = AllArrivals(c, k)
        BY <1>3, <3>4
      <4>2. iter'[c] = iter[c] /\ gathered'[c] = gathered[c]
        BY <1>2, <1>4, <3>4
      <4> QED
        BY <3>1, <4>1, <4>2
    <3> QED
      BY <3>2, <3>3, <3>4
  <2> QED
    BY <2>1, <2>2 DEF Gathering
<1>7. ArrivalsCounted'
  <2>1. ASSUME NEW c \in Barriers, NEW k \in Iterations
        PROVE  RetiredArrivals(c, k)' = RetiredArrivals(c, k)
    <3>1. AllArrivals(c, k) \subseteq AllArrivals(c, k)'
      BY <1>3
    <3>2. \A p \in AllArrivals(c, k)' : p \in AllArrivals(c, k) \/ p = <<t, n>>
      BY <1>3
    <3>3. ~(n <= retired[t])
      <4>1. Len(trace[t]) \in Nat
        BY DEF TypeOK
      <4> QED
        BY <1>2, <4>1 DEF n
    <3> QED
      BY <1>1, <3>1, <3>2, <3>3 DEF RetiredArrivals
  <2> QED
    BY <1>1, <2>1 DEF BarrierInv, ArrivalsCounted, Iterations
<1>8. BarriersShaped'
  <2>1. ASSUME NEW u \in Threads, NEW i \in 1 .. Len(trace'[u]),
               trace'[u][i].kind \in {"BarrierArrive", "BarrierLeave"}
        PROVE  /\ trace'[u][i].obj \in Barriers
               /\ trace'[u][i].seq <= iter'[trace'[u][i].obj]
               /\ trace'[u][i].kind = "BarrierArrive" => trace'[u][i].extra = Participants
    <3>1. \A c \in Barriers : iter[c] \in Nat /\ iter'[c] \in Nat /\ iter[c] <= iter'[c]
      BY <1>2, <1>4
    <3>2. CASE i \in 1 .. Len(trace[u])
      <4>1. trace'[u][i] = trace[u][i] /\ trace[u] \in Seq(SyncRecords)
        BY <1>3, <3>2 DEF TypeOK
      <4>2. trace[u][i].seq \in Nat
        <5>1. trace[u][i] \in SyncRecords
          BY <3>2, <4>1, ElementTyped
        <5> QED
          BY <5>1 DEF SyncRecords
      <4>3. /\ trace[u][i].obj \in Barriers
            /\ trace[u][i].seq <= iter[trace[u][i].obj]
            /\ trace[u][i].kind = "BarrierArrive" => trace[u][i].extra = Participants
        BY <2>1, <3>2, <4>1 DEF BarrierInv, BarriersShaped
      <4> QED
        BY <3>1, <4>1, <4>2, <4>3
    <3>3. CASE trace'[u][i] = Record("BarrierArrive", b, iter[b], Participants)
      <4>1. /\ trace'[u][i].obj = b /\ trace'[u][i].seq = iter[b]
            /\ trace'[u][i].extra = Participants
        BY <3>3 DEF Record
      <4> QED
        BY <3>1, <4>1
    <3>4. CASE trace'[u][i] = Record("BarrierLeave", b, iter[b], 0)
      <4>1. /\ trace'[u][i].obj = b /\ trace'[u][i].seq = iter[b]
            /\ trace'[u][i].kind = "BarrierLeave"
        BY <3>4 DEF Record
      <4> QED
        BY <3>1, <4>1
    <3> QED
      BY <1>3, <3>2, <3>3, <3>4
  <2> QED
    BY <2>1 DEF BarriersShaped
<1>9. \A u \in Threads : 1 .. fetched'[u] = {}
  BY <1>1, <1>2
<1> QED
  BY <1>1, <1>2, <1>6, <1>7, <1>8, <1>9 DEF BarrierInv, NothingFetchedYet, BarrierSeparates

\* Steps that leave the records, the counters and what is retired alone.
LEMMA BarrierFrame ==
  ASSUME BarrierInv, recording' => recording,
         UNCHANGED <<emitted, trace, iter, gathered, fetched, retired, arrived, expected>>
  PROVE  BarrierInv'
<1>1. \A b, k : /\ AllArrivals(b, k)' = AllArrivals(b, k)
                /\ RetiredArrivals(b, k)' = RetiredArrivals(b, k)
  BY DEF AllArrivals, RetiredArrivals, Arrivals
<1>2. Gathering' /\ ArrivalsCounted'
  BY <1>1 DEF BarrierInv, Gathering, ArrivalsCounted, Iterations
<1> QED
  BY <1>2 DEF BarrierInv, BarriersShaped, NothingFetchedYet, BarrierSeparates, Arrivals

\* A gate that is open has all the arrivals behind it: as many have retired as
\* are expected, and no more were recorded.
LEMMA OpenBarrier ==
  ASSUME TypeOK, BarrierInv, NEW b \in Barriers, NEW k \in Iterations,
         expected[b][k] # 0, arrived[b][k] >= expected[b][k]
  PROVE  RetiredArrivals(b, k) = AllArrivals(b, k)
<1>1. /\ arrived[b][k] = Cardinality(RetiredArrivals(b, k))
      /\ expected[b][k] = Participants /\ k \in Nat
      /\ IsFiniteSet(AllArrivals(b, k)) /\ Cardinality(AllArrivals(b, k)) <= Participants
  BY DEF BarrierInv, ArrivalsCounted, Gathering, Iterations
<1>2. RetiredArrivals(b, k) \in SUBSET AllArrivals(b, k)
  BY DEF RetiredArrivals
<1>3. /\ IsFiniteSet(RetiredArrivals(b, k))
      /\ Cardinality(RetiredArrivals(b, k)) <= Cardinality(AllArrivals(b, k))
      /\ Cardinality(AllArrivals(b, k)) = Cardinality(RetiredArrivals(b, k))
           => AllArrivals(b, k) = RetiredArrivals(b, k)
  BY <1>1, <1>2, FS_Subset
<1>4. Cardinality(RetiredArrivals(b, k)) \in Nat /\ Cardinality(AllArrivals(b, k)) \in Nat
  BY <1>1, <1>3, FS_CardinalityType
<1> HIDE DEF RetiredArrivals, AllArrivals
<1> QED
  BY <1>1, <1>3, <1>4, ParticipantsAssumption

LEMMA FetchKeepsBarriers ==
  ASSUME TypeOK, BarrierInv, NEW t \in Threads, Fetch(t)  PROVE BarrierInv'
<1> DEFINE i == fetched[t] + 1
<1>1. /\ ~recording /\ fetched[t] < Len(trace[t]) /\ GateOpen(trace[t][i])
      /\ fetched' = [fetched EXCEPT ![t] = @ + 1]
      /\ UNCHANGED <<recording, emitted, trace, iter, gathered, retired, arrived, expected>>
  BY DEF Fetch, NextRecord, recVars, coordVars
<1>2. fetched[t] \in Nat /\ i \in 1 .. Len(trace[t]) /\ trace[t] \in Seq(SyncRecords)
  BY <1>1 DEF TypeOK
<1>3. Gathering' /\ ArrivalsCounted'
  <2>1. \A b, k : /\ AllArrivals(b, k)' = AllArrivals(b, k)
                  /\ RetiredArrivals(b, k)' = RetiredArrivals(b, k)
    BY <1>1 DEF AllArrivals, RetiredArrivals, Arrivals
  <2> QED
    BY <1>1, <2>1 DEF BarrierInv, Gathering, ArrivalsCounted, Iterations
<1>4. ASSUME trace[t][i].kind = "BarrierLeave"
      PROVE  \A u \in Threads :
               \A j \in Arrivals(u, trace[t][i].obj, trace[t][i].seq) : j <= retired[u]
  <2> DEFINE b == trace[t][i].obj
             k == trace[t][i].seq
  <2>1. trace[t][i] \in SyncRecords
    BY <1>2, ElementTyped
  <2>2. b \in Barriers /\ k \in Nat /\ k <= iter[b]
    BY <1>2, <1>4, <2>1 DEF BarrierInv, BarriersShaped, SyncRecords
  <2>3. iter[b] \in Nat /\ emitted \in 0 .. MaxEmits /\ iter[b] <= emitted
    BY <2>2 DEF TypeOK, BarrierInv, Gathering
  <2>4. k \in Iterations
    BY <2>2, <2>3, MaxEmitsAssumption DEF Iterations
  <2>5. expected[b][k] # 0 /\ arrived[b][k] >= expected[b][k]
    BY <1>1, <1>4 DEF GateOpen, BarrierOpen
  <2> HIDE DEF b, k
  <2>6. RetiredArrivals(b, k) = AllArrivals(b, k)
    BY <2>2, <2>4, <2>5, OpenBarrier
  <2>7. ASSUME NEW u \in Threads, NEW j \in Arrivals(u, b, k)
        PROVE  j <= retired[u]
    <3>1. <<u, j>> \in AllArrivals(b, k)
      BY DEF AllArrivals, Arrivals
    <3> QED
      BY <2>6, <3>1 DEF RetiredArrivals
  <2> QED
    BY <2>7 DEF b, k
<1>5. BarrierSeparates'
  <2>1. ASSUME NEW u \in Threads, NEW j \in 1 .. fetched'[u]
        PROVE  j \in 1 .. fetched[u] \/ (u = t /\ j = i)
    BY <1>1, <1>2 DEF TypeOK
  <2> HIDE DEF i
  <2>2. ASSUME NEW u \in Threads, NEW j \in 1 .. fetched'[u],
               trace[u][j].kind = "BarrierLeave"
        PROVE  \A v \in Threads :
                 \A a \in Arrivals(v, trace[u][j].obj, trace[u][j].seq) : a <= retired[v]
    BY <1>4, <2>1, <2>2 DEF BarrierInv, BarrierSeparates
  <2>3. \A v, b, k : Arrivals(v, b, k)' = Arrivals(v, b, k)
    BY <1>1 DEF Arrivals
  <2> HIDE DEF Arrivals
  <2> QED
    BY <1>1, <2>2, <2>3 DEF BarrierSeparates
<1> QED
  BY <1>1, <1>3, <1>5 DEF BarrierInv, BarriersShaped, NothingFetchedYet

\* The only arrival that retirement may add is that of the record retired.
LEMMA RetireKeepsBarriers ==
  ASSUME TypeOK, BarrierInv, NEW t \in Threads, Retire(t)  PROVE BarrierInv'
<1>1. PICK i \in Pipeline(t) : /\ \A j \in Pipeline(t) : i <= j
                               /\ retired' = [retired EXCEPT ![t] = i]
                               /\ NotifyRetire(trace[t][i])
                               /\ UNCHANGED <<recVars, fetched, pending>>
  BY DEF Retire
<1> DEFINE r == trace[t][i]
<1>2. /\ i \in Nat /\ i > retired[t] /\ i <= fetched[t] /\ i \in 1 .. Len(trace[t])
      /\ r \in SyncRecords /\ r.seq \in Nat /\ retired[t] \in Nat /\ fetched[t] \in Nat
  BY InPipeline DEF SyncRecords, TypeOK
<1>3. /\ UNCHANGED <<recording, emitted, trace, iter, gathered, fetched>>
      /\ arrived' = IF r.kind = "BarrierArrive"
                    THEN [arrived EXCEPT ![r.obj][r.seq] = @ + 1] ELSE arrived
      /\ expected' = IF r.kind = "BarrierArrive" /\ r.extra > 0
                        /\ expected[r.obj][r.seq] = 0
                     THEN [expected EXCEPT ![r.obj][r.seq] = r.extra] ELSE expected
  BY <1>1 DEF recVars, NotifyRetire
<1>4. /\ \A b, k : AllArrivals(b, k)' = AllArrivals(b, k)
      /\ \A u, b, k : Arrivals(u, b, k)' = Arrivals(u, b, k)
  BY <1>3 DEF AllArrivals, Arrivals
<1>5. \A u \in Threads : /\ retired[u] \in Nat /\ retired'[u] \in Nat
                         /\ retired[u] <= retired'[u]
  BY <1>1, <1>2 DEF TypeOK
<1>6. Gathering' /\ BarriersShaped' /\ NothingFetchedYet'
  BY <1>3, <1>4 DEF BarrierInv, Gathering, BarriersShaped, NothingFetchedYet
<1>7. BarrierSeparates'
  <2>1. ASSUME NEW u \in Threads, NEW j \in 1 .. fetched[u],
               trace[u][j].kind = "BarrierLeave", NEW v \in Threads,
               NEW a \in Arrivals(v, trace[u][j].obj, trace[u][j].seq)
        PROVE  a <= retired'[v]
    <3>1. a <= retired[v] /\ a \in Nat
      BY <2>1 DEF BarrierInv, BarrierSeparates, Arrivals
    <3> QED
      BY <1>5, <3>1
  <2> HIDE DEF Arrivals
  <2> QED
    BY <1>3, <1>4, <2>1 DEF BarrierSeparates
<1>8. ASSUME r.kind = "BarrierArrive"
      PROVE  r.obj \in Barriers /\ r.seq \in Iterations /\ r.extra = Participants
  <2>1. r.obj \in Barriers /\ r.seq <= iter[r.obj] /\ r.extra = Participants
    BY <1>2, <1>8 DEF BarrierInv, BarriersShaped
  <2>2. iter[r.obj] \in Nat /\ emitted \in 0 .. MaxEmits /\ iter[r.obj] <= emitted
    BY <2>1 DEF TypeOK, BarrierInv, Gathering
  <2> QED
    BY <1>2, <2>1, <2>2, MaxEmitsAssumption DEF Iterations
<1>9. ASSUME NEW b \in Barriers, NEW k \in Iterations
      PROVE  /\ IsFiniteSet(RetiredArrivals(b, k)) /\ <<t, i>> \notin RetiredArrivals(b, k)
             /\ RetiredArrivals(b, k)' =
                  IF r.kind = "BarrierArrive" /\ r.obj = b /\ r.seq = k
                  THEN RetiredArrivals(b, k) \cup {<<t, i>>} ELSE RetiredArrivals(b, k)
  <2>1. k \in Nat
    BY DEF Iterations
  <2>2. IsFiniteSet(AllArrivals(b, k)) /\ RetiredArrivals(b, k) \in SUBSET AllArrivals(b, k)
    BY <2>1 DEF BarrierInv, Gathering, RetiredArrivals
  <2>3. <<t, i>> \notin RetiredArrivals(b, k)
    BY <1>2 DEF RetiredArrivals
  <2>4. <<t, i>> \in AllArrivals(b, k) <=> r.kind = "BarrierArrive" /\ r.obj = b /\ r.seq = k
    BY <1>2, ArrivalSets
  <2>5. ASSUME NEW p \in AllArrivals(b, k)
        PROVE  p[2] <= retired'[p[1]] <=> p[2] <= retired[p[1]] \/ p = <<t, i>>
    <3>1. /\ p[1] \in Threads /\ p[2] \in Nat /\ p = <<p[1], p[2]>>
          /\ p[2] \in 1 .. Len(trace[p[1]]) /\ trace[p[1]][p[2]].kind = "BarrierArrive"
      BY DEF AllArrivals, Arrivals
    <3>2. CASE p[1] # t
      BY <1>1, <3>1, <3>2 DEF TypeOK
    <3>3. CASE p[1] = t
      <4>1. retired'[t] = i
        BY <1>1 DEF TypeOK
      <4>2. retired[t] < p[2] /\ p[2] <= i => p[2] \in Pipeline(t)
        BY <1>2, <3>1, <3>3 DEF Pipeline, Surfaces
      <4>3. retired[t] < p[2] /\ p[2] <= i => p[2] = i
        BY <1>1, <1>2, <3>1, <4>2
      <4> QED
        BY <1>2, <3>1, <3>3, <4>1, <4>3
    <3> QED
      BY <3>2, <3>3
  <2>6. RetiredArrivals(b, k)' = {p \in AllArrivals(b, k) : p[2] <= retired'[p[1]]}
    BY <1>4 DEF RetiredArrivals
  <2>7. IsFiniteSet(RetiredArrivals(b, k))
    BY <2>2, FS_Subset
  <2> HIDE DEF AllArrivals
  <2> QED
    BY <2>3, <2>4, <2>5, <2>6, <2>7 DEF RetiredArrivals
<1>10. ArrivalsCounted'
  <2>1. ASSUME NEW b \in Barriers, NEW k \in Iterations
        PROVE  /\ arrived'[b][k] = Cardinality(RetiredArrivals(b, k)')
               /\ expected'[b][k] \in {0, Participants}
    <3>1. /\ arrived[b][k] = Cardinality(RetiredArrivals(b, k))
          /\ expected[b][k] \in {0, Participants}
          /\ arrived \in [Barriers -> [Iterations -> Nat]]
          /\ expected \in [Barriers -> [Iterations -> Nat]]
      BY DEF BarrierInv, ArrivalsCounted, TypeOK
    <3>2. CASE r.kind = "BarrierArrive" /\ r.obj = b /\ r.seq = k
      <4>1. arrived'[b][k] = arrived[b][k] + 1
        BY <1>3, <3>1, <3>2
      <4>2. Cardinality(RetiredArrivals(b, k) \cup {<<t, i>>})
              = Cardinality(RetiredArrivals(b, k)) + 1
        BY <1>9, FS_AddElement
      <4>3. expected'[b][k] \in {0, Participants}
        BY <1>3, <1>8, <3>1, <3>2
      <4> QED
        BY <1>9, <3>1, <3>2, <4>1, <4>2, <4>3
    <3>3. CASE ~(r.kind = "BarrierArrive" /\ r.obj = b /\ r.seq = k)
      <4>1. arrived'[b][k] = arrived[b][k] /\ expected'[b][k] = expected[b][k]
        BY <1>3, <1>8, <3>1, <3>3
      <4> QED
        BY <1>9, <3>1, <3>3, <4>1
    <3> QED
      BY <3>2, <3>3
  <2> QED
    BY <2>1 DEF ArrivalsCounted, Iterations
<1> QED
  BY <1>6, <1>7, <1>10 DEF BarrierInv

LEMMA StepKeepsBarriers ==
  ASSUME TypeOK, BarrierInv, [Next]_vars  PROVE BarrierInv'
<1>1. ASSUME NEW t \in Threads, Record1(t)  PROVE BarrierInv'
  <2>1. ASSUME NEW b \in Barriers, EmitBarrier(t, b)  PROVE BarrierInv'
    BY <2>1, EmitBarrierKeeps
  <2>2. ASSUME \/ EmitInstr(t) \/ EmitUnlock(t)
               \/ \E m \in Mutexes : EmitLock(t, m)
               \/ \E a \in Atomics : EmitAtomic(t, a)
        PROVE  BarrierInv'
    <3>1. \E c : Emit(t, c)
      BY <2>2 DEF EmitInstr, EmitUnlock, EmitLock, EmitAtomic
    <3>2. UNCHANGED <<iter, gathered>>
      BY <2>2 DEF EmitInstr, EmitUnlock, EmitLock, EmitAtomic
    <3>3. NoBarrierAdded
      BY <2>2, OthersAddNone
    <3> QED
      BY <3>1, <3>2, <3>3, OthersKeepBarriers
  <2> QED
    BY <1>1, <2>1, <2>2 DEF Record1
<1>2. ASSUME NEW t \in Threads, HoldBack(t)  PROVE BarrierInv'
  BY <1>2, BarrierFrame DEF HoldBack, recVars, coordVars
<1>3. CASE WriteProgram
  BY <1>3, BarrierFrame DEF WriteProgram, coordVars
<1>4. CASE UNCHANGED vars
  BY <1>4, BarrierFrame DEF vars, recVars, coordVars
<1> QED
  BY <1>1, <1>2, <1>3, <1>4, FetchKeepsBarriers, RetireKeepsBarriers DEF Next, Replay

\* A barrier of the program is one of the replay, for any number of threads,
\* barriers and participants and whatever was recorded: when BarrierLeave opens
\* (try_consume_sync), the arrivals counted in notify_retire are all there are,
\* because the recorder never writes more than the participants to one iteration.
THEOREM SyncBarrierSeparates == Spec => []BarrierSeparates
<1>1. Init => TypeOK /\ BarrierInv
  BY InitTyped, InitBarrier
<1>2. TypeOK /\ BarrierInv /\ [Next]_vars => (TypeOK /\ BarrierInv)'
  BY StepTyped, StepKeepsBarriers
<1>3. BarrierInv => BarrierSeparates
  BY DEF BarrierInv
<1> QED
  BY <1>1, <1>2, <1>3, PTL DEF Spec
=============================================================================
