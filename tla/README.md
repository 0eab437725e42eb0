# Verification of Multicore-OoO-sim

TLA+ models of the simulator's concurrent core, the TLC runs that check them on
small instances, and theorems about them that TLAPS checks for every instance.

## The system and its components

`comparch-sim` is a cycle-driven, single-threaded C++ program that simulates
concurrent hardware: in each cycle every part's `tick` runs, then every part's
`tock`, which moves what was written into the `*_next` halves of slots and
queues to where the consumers read it. The concurrency is that of the simulated
machine: several processors, a directory and messages on a ring.

| component | source | state | operations | interacts with |
|---|---|---|---|---|
| trace CPU | `coherence/fici_cpu.cpp` | trace position, outstanding flag, response slot | take a response, issue the next load or store | its cache |
| coherence cache and agents | `coherence/coherence_cache.cpp`, `agent*.cpp` | one input slot from the CPU and one from the network, one state machine per block | `process_proc_request`, `process_ntwk_request` | CPU, network |
| directory | `coherence/directory*.cpp` | request queue, an entry per block (state, presence bits, counters, waiting requester, owner), one latched memory response | five protocol ticks, `cycle_queue`, `schedule_data_response`, `handle_writeback` | network, LLS |
| ring network | `coherence/node.cpp`, `network.cpp` | port registers with times of flight, in and out queues | forward, deliver | all nodes |
| CoherenceAdapter | `coherence/coherence_adapter.cpp` | buffered misses, pending stores | `on_miss`, `on_evict`, fill, `on_ntwk_event` | L1/L2, agents, directory |
| shared LLS | `coherence/lls_cache.cpp` | LRU sets | `access`, `invalidate` | directory |
| SyncCoordinator | `common/sync_coordinator.cpp` | last sequence number per lock and atomic, arrivals per barrier | gate at fetch, advance at retirement | trace readers, cores |
| out-of-order core | `ooo/*.cpp` | dispatch queue, schedule queue, ROB, RAT, functional units | fetch, dispatch, schedule, execute, retire | L1, predictor, reader |
| caches, MSHRs | `cache/*.cpp` | sets with replacement state, miss entries | access, issue, merge, fill, evict, coherence hooks | core, adapter |
| branch predictors | `predictor/*.cpp` | counter and weight tables | predict, update | core |
| drivers, parsing | `full/`, `common/`, `coherence_mode.cpp` | configuration, the main loop | | everything |

What is hard in it: messages of several transactions on one block cross on the
ring; upgrades lose races; the directory reorders the requests it cannot serve
yet; bookkeeping that was noted when a transaction began is used when it ends;
a single response latch serves all blocks; progress depends on every
acknowledgement arriving. In full mode lines are evicted behind the agents'
back, and several misses of one core are outstanding. `PROJECT.json` lists each
hazard at its line.

What makes the components correct:

- coherence: one writer or many readers per block, no pair of state and message
  that throws, exact presence bits and counters, no request lost or answered
  twice, every trace finishes;
- ring: per source and destination, delivery exactly once, in order, and always;
- adapter: the same as for coherence although lines are evicted, and no miss
  that never wakes up;
- SyncCoordinator: mutual exclusion, barriers that let nobody through early,
  and no deadlock for a trace recorded from a real run;
- out-of-order core: in-order retirement, no load before an older store, renames
  that lose no dependence; caches: no lost miss, capacity, dirty lines written
  back; predictors: counters that saturate.

## The modules

    CoherentMemory                          what a protocol promises
    CoherenceBase                           CPU, cache, channels, directory parts
      MI  MSI  MESI  MOSI  MOESIF           agent tables and directory tick of each
        CoherenceSystem                     the composed system, its properties
          FullMode                          the same below finite L1s and adapters
            MCFullMode                      how many misses its run gives the cores
          CoherenceTypes                    proof: type correctness
            CoherenceBlocks                 proof: what a directory's step keeps of a block
              CoherenceSafety               proof: the five protocols are safe and refine
                FullSafety                  proof: they stay so below L1s and adapters

    FifoChannels                            what the protocols ask of the network
      Ring                                  the ring of nodes, which implements it
        RingSafety                          proof: it does, with any number of nodes

    SyncReplay                              recorder, trace reader, coordinator
      SyncSafety                            proof: mutual exclusion, atomics, barriers

    OooCore                                 the out-of-order core
      MCOooCore                             instructions for its runs
      OooSafety                             proof: order, renaming, books, capacities

    Mshr                                    the miss table, as operators
      CacheHierarchy                        L1 over L2 over memory, with prefetches
        MCCacheHierarchy                    geometries for its run
        CacheSafety                         proof: no request and no store is lost

The parts meet at few places, and each module takes its neighbour as the
neighbour's own module shows it:

- the protocols assume one FIFO channel per direction between a node and the
  directory; `Ring` provides exactly that (`RingImplementsChannels`);
- `FullMode` lets a core issue a store only when nothing else is outstanding,
  and nothing beside a waiting store: that is what `OooCore` does (the theorems
  `StoresIssueAlone` and `OooMemoryOrdered`);
- `OooCore` sees the cache as a set of MSHR entries that become ready;
  `CacheHierarchy` is what is behind them in a run without coherence,
  `FullMode` in one with it;
- `SyncReplay` sees a core as something that fetches and retires in trace
  order, which `OooProgramOrder` shows of `OooCore`; `OooCore` sees the gate as a
  fetch that may end at any time.

### Coherence: CoherenceBase, the five protocols, CoherenceSystem

One step of the model is one call of the code's tick that does something:

| action | code |
|---|---|
| `CpuTick(n)` | `FiciCpu::tick`: take the response and issue the next instruction |
| `CacheProc(n, rows)` | the CPU half of `Cache::tick` with the agent's `process_proc_request` |
| `CacheNtwk(n, rows)` | the network half of `Cache::tick` with `process_ntwk_request` |
| `DirArrive(n)` | the directory node appends an arrived message to `request_next` |
| `DirTick` | the directory takes the message at the head of `request_queue` |
| `DirRespond` | the latched memory (or LLS) response leaves |
| `Finished` | the main loop's exit, once every CPU is done |

An agent is a set of rows (state, message, what it sends, next state), read off
the `switch` statements; a pair without a row is `bad_msg`, which sets `thrown`
and ends the run. A directory tick is a disjunction with one disjunct per branch
of the `if` chain; `<protocol>Handled` is the set of the pairs those branches
take, and any other pair throws. `Send`, `Fetch`, `Note`, `CycleQueue` and
`Throw` are the ways a branch can end.

- The `*_next` half of a slot or queue and the half its consumer reads are one
  variable: the half cycle between them only delays the consumer, and delays are
  in the model anyway, because any enabled node may step next.
- `queue` is `request_queue` followed by `request_next`.
- `resp` is `request_in_progress` with the target, block and `send_E` in force
  when the response leaves; `response_time` is left open (the response may leave
  at any later time), so the memory and LLS latencies need no clock.
- `toDir[n]` and `toNode[n]` are the ring.
- `thrown` stands for the exception that leaves the main loop.

Left out: statistics, the entries' `dirty` flags (they feed counters only), the
dead stores to `tag_to_send` and `target_node` outside a scheduled response,
trace parsing, and the `kMaxCycles` cut-off, which would hide a hang instead of
resolving it. An interleaving of the model that the cycle schedule excludes is
an over-approximation: what holds in the model holds for every latency, link
width and node order.

### Full mode: FullMode

Extends `CoherenceSystem` by what `--mode full` puts between a core and its
agents when the last-level cache is shared: an L1 of `ways` lines and the
CoherenceAdapter. Agents, directory and channels are those of
`CoherenceSystem`; `cacheIn` and `fill` are the one slot `cache_in_next`.

| action | code |
|---|---|
| `CoreHit`, `CoreMiss` | `Cache::access` at the L1: a hit; a miss, or a store to a clean line, which calls `CoherenceAdapter::on_miss` |
| `AdapterTick` | `CoherenceAdapter::tick`: pass one miss to the agents (`Drain`), put the fill into the L1 (`ConsumeFill`), report the victim (`OnEvict`) |
| `AgentProc`, `AgentNtwk` | the halves of `Cache::tick`; a recall or an invalidation reaches the L1 in the same tick (`NtwkEvent`) |
| `HandleWriteback` | `DirectoryController::handle_writeback`, ahead of the protocol |

`half` keeps the order within a node's cycle that matters: the adapter ticks
before the cache, the CPU half precedes the network half, and each runs once.
A run chooses the number of ways at the start, so that one run has L1s that
hold every block and L1s that evict.

### Ring: FifoChannels, Ring

`NodeTick(n)` is `Node::tick` after the tick of its engine: load the ports from
`ntwk_out_queue` until the first message whose port is taken, pull what has
arrived, forward what is for others, hand over what is for this node. `Tock` is
the tock of every node: the flits of a port count down, `ntwk_out_next` joins
the queue. `Send` is an engine that sends. A message is its source,
destination, length and number. The outgoing packet of a node and the incoming
packet of its neighbour alias one message in the code; they are one `link`.

### Synchronisation: SyncReplay

The recording: `EmitInstr`, `EmitLock`, `EmitUnlock`, `EmitBarrier` and
`WriteProgram` are the calls of the recorder's `ThreadHandle` and
`Program::write`. `EmitAtomic` is not one of them: the recorder emits no atomics,
the reader and the coordinator take them from traces of an outside tracer. These
actions build the traces the replay reads, so the replay is checked on every
program of that size and not on a chosen one. The history variable `real` says whether the order of the calls could be an execution
(nobody takes a lock that is held, nobody runs past a barrier): the progress
property is about those only. The replay: `Fetch` and `HoldBack` are a turn of
the loop of `trace::Reader::next` with `try_consume_sync`; `Retire` is the
core's retirement with `notify_retire`.

Condition variables and thread lifecycle records are left out: every gate lets
them pass, and retiring one changes no state a gate reads.

### Out-of-order core: OooCore

A cycle of `OooCore::tick` runs the stages in reverse program order; the
variable `stage` says which comes next, and each stage is one action or, where
it is a loop with a bound, one action per turn and one that ends it (`Fetch`,
`FetchDone`, `FetchEof`; `Dispatch`, `DispatchDone`; `FireLsu`, `LsuDone`).
`MarkReady(b)` is the answer of the memory system, between the cycles.

The ring buffer `rob` keeps slots, head, tail and count as the code does, with
the stale contents of retired slots. Units of a kind are alike, so a pool is the
set of tags it holds; the MSHR table is the set of its entries. A branch is
predicted right or wrong at will, which covers every predictor. A
synchronisation token that stalls fetch is a `FetchDone`. Retiring a
mispredicted branch flushes the RAT and skips the rest of the cycle, as in the
code.

### Caches: Mshr, CacheHierarchy

`Mshr` has the table as pure operators (`Allocate`, `Merge`, `Release`,
`TickTable`). `CacheHierarchy` has the actions `Issue`, `Join`, `Refuse`
(`Cache::issue`, by its three outcomes), `Complete` and `Tick`, over the
contents of two levels and memory. A line has no data in the program; the model
marks each copy `fresh` or not, so that a lost write-back shows. Which block a
prefetcher asks for is left open, which covers all three of them.

A write-through L2 (WTWNA) is in the definitions and no run chooses it. There
`Cache::access` does nothing with a write that misses and passes none on
(`cache.cpp:398`), although `report_doc/03-phase2-cache.md:23` says "writes
pass through to next level"; as the program keeps no data this shows in
counters only, and `LatestReachable` is stated for write-back levels.

## What the runs check

| run | instance | properties |
|---|---|---|
| `coherence_3x1` | 3 processors, 1 block, traces of up to 2, every protocol | all of `CoherenceSystem` |
| `coherence_2x2` | 2 processors, 2 blocks, traces of up to 3, every protocol | `ImplementsMemory`, `EveryTraceCompletes` |
| `full_mode` | 2 cores, 2 blocks, L1 of 1 or 2 lines, every protocol; 2 misses each, or 3 and 1 over 1 line | `FullTypeOK`, `CoherentWhileResident`, `LinesBacked`, `MissConserved`, `BooksKept`, `EveryMissFilled` |
| `full_evict_throws` | MOSI, L1 of 1 line, 3 misses each | `NoThrow`, violated |
| `full_store_in_o` | MOSI, L1 of 2 lines, 2 misses each | `StoresNeedM`, violated |
| `full_stale_fill` | MI, L1 of 2 lines, 2 misses each | `RecalledLinesGone`, violated |
| `ring` | 3 caches and the directory, 3 messages of 1 or 2 flits | `ImplementsChannels`, `EverythingArrives` |
| `sync_replay` | 2 threads, a mutex, a barrier, an atomic, 5 recorded calls | `TypeOK`, `MutualExclusion`, `AtomicsSerialised`, `BarrierSeparates`, `RealProgramsReplay` |
| `ooo_core` | traces of 4 of six instructions, ring of 3, 2 MSHRs | the safety of `OooCore` |
| `ooo_live` | traces of 3, ring of 2, 1 MSHR | `EveryInstRetires` |
| `ooo_watchdog` | traces of 2, watchdog after 4 cycles | `DeadlockedMeansWedged`, violated |
| `cache` | 3 blocks, L1 of 1 line, L2 of 2, 3 requests over 2 MSHRs | all of `CacheHierarchy` |

### Coherence

Three processors are the fewest with a requester, an owner and a further sharer
at once, which is what the invalidation counts, the
recall-after-invalidations path of O and F and every race between two requests
and a recall need; two instructions per trace suffice for load-then-store
upgrades, and for the re-acquisition of a block that was taken away. With two
blocks the latch and the queue are shared: a response for one delays, and a
transit of the other reorders, what waits behind; there the run asks for the
refinement, which subsumes single-writer, and for termination.

| property | says |
|---|---|
| `TypeOK` | every variable stays in its type |
| `SWMR` | a processor that may write a block, or knows itself its only holder, is the only one with access |
| `NoThrow` | no (state, message) pair that throws is ever reached |
| `PresenceSound` | every copy has its presence bit, `active_sharers` counts the bits, and the shared states of an entry exclude writers |
| `RequestConserved` | an outstanding request is in exactly one place: slot, channel, queue, waiting entry, latch, answer |
| `HandshakeAccounted` | `inv_ack_waiting` is the number of invalidations and acknowledgements under way, and a block in transit waits for exactly one line |
| `SettledWhenDone` | after the last CPU nothing is in flight, and every entry describes the agents exactly, its owner or forwarder included |
| `ImplementsMemory` | refinement of `CoherentMemory`: a request is answered only at a level that permits it, levels rise only with an answer |
| `EveryTraceCompletes` | every CPU gets through its trace |

Deadlock checking stays on: a state without a step other than `Finished` would
be a protocol that hangs. The refinement maps an agent's state to an access
level (none, shared, sole, write) and a processor's pending request to the
instruction whose answer has not reached the CPU's slot. Every step then is an
`Issue`, an `Answer`, a `Surrender`, or no step of `CoherentMemory`.

### Full mode

With L1s that hold every block (`FitsInL1`) the system is what one hopes for,
under every protocol: coherent, no throw (`CoherentWhileResident`), every miss
in exactly one place (`MissConserved`), filled and woken (`EveryMissFilled`),
and every line in an L1 backed by its agent (`LinesBacked`, not for MI).
Two cores and two misses each are the fewest for a fill, a recall and a second
miss of one core to meet in one tick.

With evictions too, the directory's count of sharers stays equal to its
presence bits (`BooksKept`), whoever writes back: a holder, a former holder
whose copy was recalled while its `DATA_WB` was on its way, or a node that has
come back. The last takes a third miss, because one fetches a block and a second
displaces it. Then the node asks for the block again with its `DATA_WB` still
under way; where the directory cycles the writeback because the entry is in
transit, the new request can overtake it, and the writeback takes away the
presence bit of a node that holds the block again. One miss of the other core
is enough for the transit, so `MCFullMode` gives the third miss to one core at a
time, and only where lines are evicted (`MCInit`, at most `MaxTotal` misses).

The rest is deliberately restricted to `FitsInL1`. An eviction does not change
the agent's state, so the directory and the agents disagree afterwards
(`report_doc/11-validation-bugs.md` calls it the eviction desync): `SWMR` does
not survive it. And with evictions and four misses of a core over one line, a
fill in `cache_in_next` can be overwritten by the next one, which loses the miss
of the first; that is why `MissConserved` and `EveryMissFilled` are stated for
resident blocks.

Three runs show disagreements between code and text, listed as findings:

- `full_evict_throws`: a MOSI owner evicts its line and stores to it. The
  directory has forgotten it and answers with DATA; the OM state of the agent
  has no case for DATA and throws. The report has this class of aborts as
  eliminated; MOESIF received the case, MOSI did not.
- `full_store_in_o`: an owner recalled to O keeps its line dirty, and a store to
  a dirty line is a hit. So an O owner stores while other caches hold copies.
- `full_stale_fill`: a store that MI's agent answers at once and a recall of the
  block fall into one `Cache::tick`. The recall drops the line, and the fill
  that was put into `cache_in_next` restores it in the next cycle, dirty, with
  the agent in I. `LinesBacked` excludes MI for this reason; under
  the other protocols the run finds that it holds.

The runs set `CHECK_DEADLOCK FALSE`: a throw ends the run, and cores whose
bounded misses are used up stop.

### Ring

`ImplementsChannels` is the refinement of `FifoChannels`: per pair of nodes,
delivery in order, once, of what was sent. `EverythingArrives` says that
everything is delivered, although a port carries one message and the head of a
queue holds back the messages behind it. Four nodes are the fewest with
two-hop routes in both directions and with a destination that is equally far
either way; three messages let one message meet traffic of other pairs on its
way and a second one of its own pair behind it.

### Synchronisation

`MutualExclusion`: while anything of one thread's critical section is in flight,
nothing of another's on the same lock has been fetched. `AtomicsSerialised`: one
access to an atomic in flight at a time. `BarrierSeparates`: nothing behind a
barrier is fetched before everything recorded ahead of it, on all threads, has
retired. `RealProgramsReplay`: a recording in the order of an execution replays
to the end. Two threads and five calls contain two critical sections of one lock
with a barrier or an atomic between, nested locks of one thread, and a barrier
that is used twice. The replay ends, hence `CHECK_DEADLOCK FALSE`.

### Out-of-order core

`ProgramOrder`, `MispredictIsYoungest`, `BooksAgree`, `DataflowExact`,
`MemoryOrdered` and `StoresFindMshrEmpty` say: the ring and the dispatch queue
hold a gapless stretch of the program; a mispredicted branch has nothing behind
it that its retirement would have to squash; queues, units and MSHRs agree; a
source waits for exactly its youngest older writer; memory operations of which
one is a store go to the cache in program order; a store never meets a full or
occupied MSHR table. Four instructions over a ring of three wrap its indices;
two registers make renaming overwrite tags that are still awaited.
`EveryInstRetires` is checked on an even smaller core, where everything is
scarce.

`ooo_watchdog` is a finding: a core whose reader waits at a synchronisation gate
for longer than the threshold is declared deadlocked with an empty pipeline,
although the comment promises that "the pipeline is wedged" then.
`CHECK_DEADLOCK FALSE` in these runs because a core at the end of its trace may
stop.

### Caches

`LatestReachable`: through evictions, write-backs and prefetches the first copy
a read meets is the last one written. `CleanCopiesExpendable`: a clean copy may
be dropped. `HeldOnce`, `OneSlotPerBlock`, `ReadyIsFinal`: the table holds each
request once, fetches a block once, and never takes an answer back.
`ContentsMoveOnAccept`: a refused request leaves no trace.
`EveryRequestAnswered`. Three blocks in caches of one and two lines evict each
other at both levels; three requests over two slots give merging, promotion of a
merged id and refusal.

### Fairness

- `CoherenceSystem`: weak fairness of every node's actions. The main loop ticks
  every node in every cycle, a latched response leaves when its time has come,
  and the ring delivers what it accepted. `EveryTraceCompletes` says nothing of
  endless traces: there a cycled request could be overtaken again and again, and
  the code has nothing that prevents it.
- `FullMode`: the same for adapters, cache halves, arrivals and directory.
  Nothing makes a core issue.
- `Ring`: weak fairness of the cycle, `Network::tick` and `tock` in the main
  loop. Nothing makes an engine send.
- `SyncReplay`: weak fairness of fetch and retirement per thread: every core is
  ticked in every cycle and polls its reader. Nothing makes the recorder go on.
- `OooCore`: weak fairness of the next stage, strong fairness of each answer,
  because a block's entry is outstanding only at the end of each cycle.
- `CacheHierarchy`: weak fairness of `Tick`.

Each property of a passing run has a mutant in `PROJECT.json`: a plausible slip
in the code's logic, kept in the module as an operator marked "Fault", that
violates it.

## What is proved

Every theorem holds for every value of the constants that the modules' named
assumptions allow.

**CoherenceTypes**: `TypeCorrect` (`Spec => []TypeOK`) for all five protocols,
any `Blocks`, any `TraceLen` and up to 16 processors (the presence vector's
size). `TypeOK` is inductive as it stands; there is a lemma per directory
operator and per protocol tick.

**CoherenceBlocks** and **CoherenceSafety**: all five protocols are safe, for
every number of processors, set of blocks and length of the traces. `SWMR` and
`NoThrow` are not inductive: that a recall finds its owner with the copy it is
about depends on what is in the channels. The inductive invariant is
`ProtocolInv /\ CpusOK`.

`ProtocolInv` sees the network, for each block, as two sets per node: the kinds
of messages on the way up from it (`Ups`: channel and queue) and on the way down
to it (`Downs`: channel and latch). `UpChannels` and `DownChannels` say that no
message is there twice and that an answer is not overtaken by a later recall or
invalidation of the same block; with that the two sets carry all that matters.
`BlockIs`, one block's share, is the same formula for all protocols; it relates
the entry, the agents and the two sets:

- `NodeOK` for each node. `RequestPlace`: an agent that waits has its request
  asked, taken by the directory, or answered, exactly one of the three.
  `RequestKind`: it is the request or the answer that the agent's state waits
  for; a GETX that meets an exclusive or forwarded block comes from its holder.
  `HolderOK`: what the entry's state says of a node with its presence bit, for
  each of the 17 states: it rests with its copy, is invalidated or has
  acknowledged that (`Invalidated`), is recalled or has given its line up
  (`GivesUp`, `Shares`), or, as owner of a block being collected, has its turn
  when the acknowledgements are in (`LastOwner`). `Due`, the copy an agent will
  have when the answer under way has arrived, is what makes this inductive: the
  directory reckons with it long before the agent.
- `EntryOK`: `active_sharers` is the number of presence bits, exclusive states
  have one holder, owners and forwarders are present.
- `inv_ack_waiting` is the number of nodes that are being invalidated or have
  acknowledged and are not yet counted.

CoherenceBlocks takes the transitions of a block's directory entry one by one
(a grant, a recall, an invalidation, an acknowledgement that is or is not the
last, a returned line) and shows that each keeps `BlockIs`; nothing in it speaks
of channels. CoherenceSafety ties the views to the channels, one lemma per way
to send, take or move a message, shows that each row of the five agent tables is
one of a few kinds of moves (`ProcAgent`, `AnswerAgent`, `ProbeAgent`) and each
case of the five directory ticks one of the transitions above, and adds
`CpusOK`: a node has one request at a time, in its CPU's slots or with one agent.
From the invariant (`CoherenceInvariant`) follow:

- `SingleWriter` (`SWMR`), `NeverThrows` (`NoThrow`), `PresenceIsSound`
  (`PresenceSound`);
- `RequestsConserved` and `HandshakesAccounted`: the sets of kinds are turned
  back into the sums over channels, queue, entries and latch that the two
  properties count, by bijections between positions and nodes;
- `AllSettledWhenDone` (`SettledWhenDone`);
- `AllImplementMemory` (`ImplementsMemory`): every step is one of the abstract
  memory's, or a stutter.

**SyncSafety**: `SyncTypeCorrect`, `SyncMutualExclusion` and
`SyncAtomicsSerialised`, for any number of threads, locks, atomics and calls and
any order of recording. Neither property is inductive: that two sections do not
overlap follows from how the recorder numbered them and from what the
coordinator's counters say. `SyncInv` has both halves: numbers are unique and a
release follows its acquire on the same thread (`LocksNumbered`,
`AtomicsNumbered`); whoever is past a gate found its predecessor's number there,
and every number up to the counter belongs to a retired record (`LocksCounted`,
`AtomicsCounted`). Then of two sections the one with the smaller number has
retired its release before the other was let in.

`SyncBarrierSeparates` is the third property, for any number of participants,
barriers and uses of each. `BarrierInv` says of the recording that every
iteration before the current one has `Participants` arrivals and the current one
those counted (`Gathering`, `BarriersShaped`); of the replay that the
coordinator's count of an iteration is the number of its retired arrivals
(`ArrivalsCounted`); and that nothing is fetched before the programs are written
(`NothingFetchedYet`). A gate that opens has counted as many arrivals as there
are, so all of them have retired, each after what its thread recorded ahead of
it.

**OooSafety**: `StoresIssueAlone`. A store that may fire finds the MSHRs empty,
for any trace, any sizes of the core and answers at any time. `LsuInv` is the
strengthening: sequence numbers grow from the scheduling queue along the
dispatch queue (`FrontOrdered`), tags and numbers name entries (`EntriesNamed`),
ALUs and multipliers hold no memory operation (`UnitsTyped`), the LSUs hold
exactly the ids of the MSHRs and only of live entries (`LsuBooked`), and
whatever is in an LSU was unambiguous when it fired and still is (`LsuAlone`).
An access that is out is then either older than the store, which makes the
store ambiguous, or younger, which made that access ambiguous.

`OooSafety` goes on to all other invariants of the core, for any trace, widths,
ring and queue sizes: `OooTypeCorrect`, `OooProgramOrder`, `OooMispredictIsYoungest`,
`OooBooksAgree`, `OooDataflowExact`, `OooMemoryOrdered`. The ring buffer is seen
through `InFlight`, the live entries from the oldest on; one lemma per kind of
step says what becomes of them, and only those lemmas reason about head, tail
and `%`. `OrderInv` holds on top of `LsuInv`:

- `RingShaped`, `LiveNumbered`, `QueueNumbered`: head, tail and count agree, and
  numbers and tags run without a gap from the last retired instruction along the
  ring and the dispatch queue;
- `SchedPlaced`, `UnitsBooked`: a scheduling entry stands for one live,
  incomplete entry of the ring, and is busy exactly when a unit or an MSHR has
  its tag;
- `BranchLast`: behind a mispredicted branch there is nothing;
- `Renamed`: the RAT and every waiting operand name the youngest older writer,
  unless that has completed;
- `Serialised`: of two memory operations of which one is a store, the younger
  fires after the older is complete.

`OooTypeCorrect` adds `CapacityInv`: no queue, pool or table outgrows its size,
and the watchdog's counter is exact. The one assumption on traces is that a
load or store has an address.

**CacheSafety**: `RequestsHeldOnce`, `BlocksFetchedOnce`, `AnswersStand`, for
any geometry, numbers of slots, ids and blocks and every choice of the
prefetcher. `IInv` adds to the two invariants that slots are well formed and
that the primary of a slot is not among its merged ids, so that promoting a
merged id keeps every holder.

Of the contents it proves `CacheTypeCorrect` for any geometry, and
`CacheLatestReachable`, `CacheCleanExpendable` for any whose L2 is write-back
(`"WBWA"`, a hypothesis of the two theorems; the other policy is discussed
above); `CacheMovesOnAccept`, an action property, for all. `ContentsInv` says
that sets are well formed (`Shaped`: no more lines than ways, no block twice,
every line at its index) and that no store is lost (`NoStoreLost`: from the top
down, the first copy of a block is fresh, and a clean copy is backed by the one
below). An access is a chain of insertions and removals in one level at a time;
each has a lemma that says which copies it moves, `KeepsBelow` carries what is
below an insertion through the write-back of its victim, and the prefetch
follows as one more insertion.

**RingSafety**: `RingImplementsChannels`, the refinement of `FifoChannels`, for
any number of nodes, message lengths, traffic and stalls. `RingInv` views the
network as a function from places (a position in one of a node's queues, or a
port) to messages (`Placed`). Every message is on the way that its source chose
(`OnRoute`: a hop does not change which way round is shorter), so the places a
pair can use are ordered by `Rank`, the number of hops and queues to go. Then
(`Ordered`) the messages under way are numbered without a gap from those
received to those sent, and increasing from the destination back; and what was
handed over is exactly the first numbers (`InTurn`). A tick is taken apart into
moves of single messages: up to two from `ntwk_out_queue` to the ports, one from
each neighbour, up to two to the engine. The lemma `Relocated` says that a
relabelling of places along which nobody overtakes keeps `Ordered`; loading,
forwarding and the joining of the queues in `Tock` are instances of it.
`RingInvariant` is the invariant, `TickStep` and `TickDelivers` the step.

**FullSafety**: `FullCoherent` (`CoherentWhileResident`), `FullLinesBacked`
(`LinesBacked`) and `FullMissConserved` (`MissConserved`), for any number of
nodes, finite set of blocks, number of ways and of outstanding misses, and every
protocol. `FullInvariant` has the invariant, `FitInv`. Its first part is
`ProtocolInv` of `CoherenceSafety`: its lemmas speak of one agent or the
directory, never of a CPU, so a core with several misses changes nothing about
them, provided that an agent is not asked twice. That is what the second part
adds, for each node:

- `OnePlace`: a block is waited for exactly if its miss is queued in the adapter,
  in the agents' slot, with its agent or in the slot for fills, and it is in one
  of them only;
- `StillMissing`, `AgentAsked`, `FillBacked`: along the way the miss and the
  agent agree on what is asked. A queued load is of a block its agent does not
  have, so the agent asks the directory and has a row for the answer; what
  comes back is S or E for a load and M for a store;
- `LineKnown` and `LineBacked`: the L1 has the blocks its agent has, and, but for
  MI, the agent has those of the L1. The first is why a miss of the core is one
  of the agent too; the second is `LinesBacked`. MI's agent answers a store in
  the CPU half of a tick whose other half can recall the block, which is
  the finding `full_stale_fill`;
- `MissesFit`: a pending store is the only miss of its core;
- `FillSlot`: the slot for fills is full only between the cache's tick and the
  adapter's next, and under MI within a tick after a store. So no fill is
  overwritten.

Lines hold distinct blocks, so an L1 with as many ways as there are blocks has
room for a block it lacks (`RoomLeft`, a counting argument by which nothing is
ever evicted). It is the reason for the assumption that `Blocks` is finite:
block numbers are 64 bits wide.

`FullTypeCorrect` (`FullTypeOK`) holds with evictions too: whatever the size of
the L1, no set exceeds its ways or holds a block twice, every pending store has
its MSHR entry, and `handle_writeback` and the five ticks keep entries and
messages well formed. `FullShape` is inductive; the directory's part is that of
`CoherenceTypes`, whose lemmas leave open which kinds of messages the queue has.

Only model-checked, of the invariants: `BooksKept`. A writeback takes a node out
of an entry while its agent keeps the block, so `BlockIs` fails, and that
the count survives rests on a second, weaker account of all five protocols in
which agents may hold what the directory has forgotten. Liveness
(`EveryTraceCompletes`, `EveryMissFilled`, `EverythingArrives`,
`RealProgramsReplay`, `EveryInstRetires`, `EveryRequestAnswered`) is out of the
prover's reach and stays with TLC.

## Not modelled

- **Private L2 in full mode** (`--mode full` without the shared LLS): misses
  pass through an L2 to the adapter, and fills and invalidations act on both
  levels. `FullMode` has the adapter directly below the L1.
- **LLS contents**: the shared cache keeps block ids and chooses the latency of
  a response; the models leave that latency open, so no property depends on it.
- **Branch predictors and the prefetchers' tables**: sequential arithmetic that
  decides which branch is predicted how and which block is prefetched; the
  models allow every decision.
- **Condition variables, lifecycle records** of the coordinator: they gate
  nothing.
- **Trace formats, manifests, configuration, options, reports, statistics**:
  parsing and printing without a state that interacts. Cycle caps stop a run
  and resolve nothing.
- **Virtual channels between CPU nodes**: agents send to the directory only, so
  no other pair of nodes exchanges messages.

## What could follow

The private L2 in `FullMode`; a proof of `BooksKept`.
