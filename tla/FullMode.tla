------------------------------ MODULE FullMode ------------------------------
(***************************************************************************)
(* Full mode (--mode full) with the shared last-level cache: the protocols *)
(* of CoherenceSystem below L1 caches of finite size.  An out-of-order     *)
(* core has several misses outstanding; its CoherenceAdapter passes them   *)
(* to the agents one by one, puts what comes back into the L1, reports     *)
(* evictions to the directory and drops lines that are recalled.           *)
(*                                                                         *)
(* `req' of CoherenceBase stays NoReq, `left' bounds the misses of a core, *)
(* and `cacheIn' says that cache_in_next holds a message, for block `fill'.*)
(* Loads that hit or merge into a waiting miss change nothing but the LRU  *)
(* order.                                                                  *)
(***************************************************************************)
EXTENDS CoherenceSystem

CONSTANTS
    WaysChoices,    \* the capacities of the L1 a run may choose
    MaxMisses       \* bound on the blocks a core waits for (MSHR entries)

\* Block numbers are 64 bits wide (fill's default is one of them), and a cache
\* has at least one way.
ASSUME FullModeAssumption == /\ WaysChoices \subseteq Nat \ {0}
                             /\ MaxMisses \in Nat \ {0}
                             /\ IsFiniteSet(Blocks) /\ Blocks # {}

VARIABLES
    ways,           \* lines an L1 holds, fixed for a run
    lines,          \* lines[n]: the L1, most recently used first
    waiting,        \* waiting[n]: blocks of suspended MSHR entries
    outbound,       \* outbound_proc_: misses not yet with the agents
    pendingStores,  \* pending_stores_
    fill,           \* fill[n]: the block in cache_in_next, if there is one
    half            \* half[n]: last half of Cache::tick since the adapter's tick

l1Vars   == <<lines, waiting, outbound, pendingStores>>
fullVars == <<vars, ways, lines, waiting, outbound, pendingStores, fill, half>>

-----------------------------------------------------------------------------
(* The L1 (cache.cpp) and what the core asks of it.                        *)

Places(n, b) == {i \in DOMAIN lines[n] : lines[n][i].block = b}
Resident(n, b) == Places(n, b) # {}
Dirty(n, b) == \E i \in Places(n, b) : lines[n][i].dirty

\* The search for the line of b in an L1.
Has(s, b) == \E i \in DOMAIN s : s[i].block = b
PlaceOf(s, b) == CHOOSE i \in DOMAIN s : s[i].block = b

\* coherence_invalidate: the line goes without a writeback.
Without(s, b) ==
    IF Has(s, b)
    THEN SubSeq(s, 1, PlaceOf(s, b) - 1) \o SubSeq(s, PlaceOf(s, b) + 1, Len(s))
    ELSE s

\* coherence_set_dirty and coherence_clean.
Marked(s, b, dirty) ==
    [i \in DOMAIN s |-> IF s[i].block = b THEN [s[i] EXCEPT !.dirty = dirty] ELSE s[i]]

\* The line becomes the most recently used.
Promoted(s, b) == IF Has(s, b) THEN <<s[PlaceOf(s, b)]>> \o Without(s, b) ELSE s

\* Fault: a second miss on a block is sent beside the first.
MayIssueUnmerged(n, i) ==
    IF i.op = "STORE" THEN waiting[n] = {} ELSE pendingStores[n] = {}

\* A store waits alone: it fires when no other access is in flight, and
\* younger loads wait behind it (OooCore).
MayIssue(n, i) ==
    /\ IF i.op = "STORE" THEN waiting[n] = {} ELSE pendingStores[n] = {}
    /\ i.block \notin waiting[n]     \* a load of a block in wait merges

\* A load of a resident line; a store of a dirty one.
Hits(n, i) == IF i.op = "STORE" THEN Dirty(n, i.block) ELSE Resident(n, i.block)

\* Cache::access, hit.
CoreHit(n, i) ==
    /\ ~thrown
    /\ MayIssue(n, i)
    /\ Hits(n, i)
    /\ lines' = [lines EXCEPT ![n] = Promoted(@, i.block)]
    /\ UNCHANGED <<vars, ways, waiting, outbound, pendingStores, fill, half>>

\* Cache::access, miss or a store to a clean line: on_miss of the adapter.
CoreMiss(n, i) ==
    /\ ~thrown
    /\ MayIssue(n, i)
    /\ ~Hits(n, i)
    /\ Cardinality(waiting[n]) < MaxMisses
    /\ left[n] > 0
    /\ left' = [left EXCEPT ![n] = @ - 1]
    /\ lines' = [lines EXCEPT ![n] = Promoted(@, i.block)]
    /\ waiting' = [waiting EXCEPT ![n] = @ \cup {i.block}]
    /\ outbound' = [outbound EXCEPT ![n] = Append(@, i)]
    /\ pendingStores' = [pendingStores EXCEPT ![n] =
                            IF i.op = "STORE" THEN @ \cup {i.block} ELSE @]
    /\ UNCHANGED <<protocol, req, cpuIn, cacheIn, agent, toDir, toNode, queue,
                   entry, resp, thrown, ways, fill, half>>

-----------------------------------------------------------------------------
(* The adapter (coherence_adapter.cpp).                                    *)

\* Fault: the miss that has been passed on is not popped.
DrainKeeps(n) ==
    /\ cpuIn' = [cpuIn EXCEPT ![n] = IF outbound[n] # <<>> /\ @ = NoReq
                                     THEN Head(outbound[n]) ELSE @]
    /\ UNCHANGED outbound

\* One miss per cycle goes into the agents' slot.
Drain(n) ==
    IF outbound[n] # <<>> /\ cpuIn[n] = NoReq
    THEN /\ cpuIn' = [cpuIn EXCEPT ![n] = Head(outbound[n])]
         /\ outbound' = [outbound EXCEPT ![n] = Tail(@)]
    ELSE UNCHANGED <<cpuIn, outbound>>

\* on_evict: DATA_WB to the directory, clean or dirty; the agent is not told.
OnEvict(n, victim) ==
    toDir' = [toDir EXCEPT ![n] =
                Append(@, [kind |-> "DATA_WB", src |-> n, block |-> victim])]

\* Fault: a full set grows.
CacheFillGrows(n, b, dirty) ==
    /\ lines' = [lines EXCEPT ![n] =
                   IF Resident(n, b) THEN (IF dirty THEN Marked(@, b, TRUE) ELSE @)
                   ELSE <<[block |-> b, dirty |-> dirty]>> \o @]
    /\ UNCHANGED toDir

\* cache_fill: an upgraded line becomes dirty, a new one evicts the last.
CacheFill(n, b, dirty) ==
    \/ /\ Resident(n, b)
       /\ lines' = [lines EXCEPT ![n] = IF dirty THEN Marked(@, b, TRUE) ELSE @]
       /\ UNCHANGED toDir
    \/ /\ ~Resident(n, b)
       /\ Len(lines[n]) < ways
       /\ lines' = [lines EXCEPT ![n] = <<[block |-> b, dirty |-> dirty]>> \o @]
       /\ UNCHANGED toDir
    \/ /\ ~Resident(n, b)
       /\ Len(lines[n]) = ways
       /\ lines' = [lines EXCEPT ![n] =
                       <<[block |-> b, dirty |-> dirty]>> \o SubSeq(@, 1, ways - 1)]
       /\ OnEvict(n, lines[n][ways].block)

\* Fault: the answer to an upgrade wakes nobody.
ConsumeFillNew(n) ==
    IF cacheIn[n]
    THEN /\ CacheFill(n, fill[n], fill[n] \in pendingStores[n])
         /\ pendingStores' = [pendingStores EXCEPT ![n] = @ \ {fill[n]}]
         /\ waiting' = IF Resident(n, fill[n]) THEN waiting
                       ELSE [waiting EXCEPT ![n] = @ \ {fill[n]}]
         /\ cacheIn' = [cacheIn EXCEPT ![n] = FALSE]
    ELSE UNCHANGED <<lines, toDir, pendingStores, waiting, cacheIn>>

\* The fill in cache_in_next goes into the L1 and wakes its misses.
ConsumeFill(n) ==
    IF cacheIn[n]
    THEN /\ CacheFill(n, fill[n], fill[n] \in pendingStores[n])
         /\ pendingStores' = [pendingStores EXCEPT ![n] = @ \ {fill[n]}]
         /\ waiting' = [waiting EXCEPT ![n] = @ \ {fill[n]}]
         /\ cacheIn' = [cacheIn EXCEPT ![n] = FALSE]
    ELSE UNCHANGED <<lines, toDir, pendingStores, waiting, cacheIn>>

\* CoherenceAdapter::tick.  It precedes Cache::tick in the node's tick.
AdapterTick(n) ==
    /\ ~thrown
    /\ half[n] # "none" \/ cacheIn[n] \/ (outbound[n] # <<>> /\ cpuIn[n] = NoReq)
    /\ Drain(n)
    /\ ConsumeFill(n)
    /\ half' = [half EXCEPT ![n] = "none"]
    /\ UNCHANGED <<protocol, left, req, agent, toNode, queue, entry, resp, thrown,
                   ways, fill>>

\* The agent's DATA_proc puts its block into cache_in_next, over what is there.
Deposit(n, b) ==
    fill' = IF ~thrown' /\ toDir' = toDir THEN [fill EXCEPT ![n] = b] ELSE fill

\* A recalled copy stays dirty where its agent becomes or stays the owner.
StaysOwner(b) == protocol = "MOSI"
                 \/ (protocol = "MOESIF" /\ entry[b].state \in {"MO", "OO"})

\* Fault: a recalled owner keeps its line.
NtwkEventInvalidOnly(n, msg) ==
    LET b == msg.block
    IN  CASE msg.kind = "REQ_INVALID" -> Without(lines[n], b)
          [] msg.kind = "RECALL_GOTO_S" /\ ~StaysOwner(b) -> Marked(lines[n], b, FALSE)
          [] OTHER -> lines[n]

\* on_ntwk_event: recalls and invalidations reach the L1 too.
NtwkEvent(n, msg) ==
    LET b == msg.block
    IN  CASE msg.kind \in {"REQ_INVALID", "RECALL_GOTO_I"} -> Without(lines[n], b)
          [] msg.kind = "RECALL_GOTO_S" /\ ~StaysOwner(b)  -> Marked(lines[n], b, FALSE)
          [] OTHER -> lines[n]

\* Cache::tick, CPU half: it comes first, and once per tick.
AgentProc(n) ==
    /\ half[n] = "none"
    /\ half' = [half EXCEPT ![n] = "proc"]
    /\ CacheProc(n, ProcRows)
    /\ Deposit(n, cpuIn[n].block)
    /\ UNCHANGED <<ways, l1Vars>>

\* Cache::tick, network half.
AgentNtwk(n) ==
    /\ half[n] # "ntwk"
    /\ half' = [half EXCEPT ![n] = "ntwk"]
    /\ CacheNtwk(n, NtwkRows)
    /\ Deposit(n, Head(toNode[n]).block)
    /\ lines' = [lines EXCEPT ![n] = NtwkEvent(n, Head(toNode[n]))]
    /\ UNCHANGED <<ways, waiting, outbound, pendingStores>>

-----------------------------------------------------------------------------
(* The directory (directory.cpp).                                          *)

\* Fault: a writeback counts down whether or not n was a holder.
AfterWritebackUnchecked(e, n) ==
    LET e1 == [e EXCEPT !.presence = @ \ {n},
                        !.active_sharers = IF @ > 0 THEN @ - 1 ELSE @]
    IN  IF e1.active_sharers = 0 THEN [e1 EXCEPT !.state = "I"] ELSE e1

\* What a writeback by n leaves of an entry.
AfterWriteback(e, n) ==
    LET held  == n \in e.presence
        owner == held /\ (e.state = "M" \/ (e.state \in {"O", "F"} /\ n = e.o_f_id))
        e1    == IF held
                 THEN [e EXCEPT !.presence = @ \ {n},
                                !.active_sharers = IF @ > 0 THEN @ - 1 ELSE @]
                 ELSE e
    IN  IF e1.active_sharers = 0 THEN [e1 EXCEPT !.state = "I"]
        ELSE IF owner THEN [e1 EXCEPT !.state = "S", !.o_f_id = NoNode]
        ELSE e1

\* handle_writeback, before any protocol sees the message.
HandleWriteback ==
    /\ ~thrown
    /\ ~resp.busy
    /\ queue # <<>>
    /\ Head(queue).kind = "DATA_WB"
    /\ LET b == Head(queue).block
       IN  IF entry[b].state \in DirStable
           THEN Note(b, AfterWriteback(entry[b], Head(queue).src))
           ELSE CycleQueue
    /\ UNCHANGED <<protocol, left, req, cpuIn, cacheIn, agent, toDir>>

ProtocolTick == queue # <<>> /\ Head(queue).kind # "DATA_WB" /\ DirTick

-----------------------------------------------------------------------------
FullInit ==
    /\ SystemInit
    /\ ways \in WaysChoices
    /\ lines = [n \in Procs |-> <<>>]
    /\ waiting = [n \in Procs |-> {}]
    /\ outbound = [n \in Procs |-> <<>>]
    /\ pendingStores = [n \in Procs |-> {}]
    /\ fill = [n \in Procs |-> CHOOSE b \in Blocks : TRUE]
    /\ half = [n \in Procs |-> "none"]

Core(n) == \E i \in Instrs : CoreHit(n, i) \/ CoreMiss(n, i)

Arrive(n) == DirArrive(n) /\ UNCHANGED <<ways, l1Vars, fill, half>>

Directory == /\ HandleWriteback \/ ProtocolTick \/ DirRespond
             /\ UNCHANGED <<ways, l1Vars, fill, half>>

FullNext ==
    \/ \E n \in Procs : Core(n) \/ AdapterTick(n) \/ AgentProc(n) \/ AgentNtwk(n) \/ Arrive(n)
    \/ Directory

FullSpec == FullInit /\ [][FullNext]_fullVars

\* The main loop ticks every core, adapter, cache and the directory in every
\* cycle; nothing makes a core issue a further access.
FullFairness ==
    /\ \A n \in Procs : /\ WF_fullVars(AdapterTick(n))
                        /\ WF_fullVars(AgentProc(n))
                        /\ WF_fullVars(AgentNtwk(n))
                        /\ WF_fullVars(Arrive(n))
    /\ WF_fullVars(Directory)

FullFairSpec == FullSpec /\ FullFairness

-----------------------------------------------------------------------------
(* Properties.                                                             *)

UpMsg == [kind : ReqKinds \cup {"DATA", "INVACK", "DATA_WB"}, src : Procs, block : Blocks]

\* The adapters and the L1s keep their shape: a set of an L1 never holds more
\* lines than it has ways, nor a block twice, and the books of pending stores
\* agree with the MSHRs.
FullTypeOK ==
    /\ toDir \in [Procs -> Seq(UpMsg)]
    /\ queue \in Seq(UpMsg)
    /\ entry \in [Blocks -> DirEntry]
    /\ \A n \in Procs :
         /\ Len(lines[n]) <= ways
         /\ \A i, j \in DOMAIN lines[n] :
              lines[n][i].block = lines[n][j].block => i = j
         /\ waiting[n] \subseteq Blocks
         /\ pendingStores[n] \subseteq waiting[n]
         /\ fill[n] \in Blocks

\* As long as nothing is evicted.
FitsInL1 == Cardinality(Blocks) <= ways

\* With several misses outstanding per core the protocols still keep a single
\* writer or many readers, and no agent or directory throws.
CoherentWhileResident == FitsInL1 => SWMR /\ NoThrow

\* Every line of an L1 is backed by its agent, which acts for the core when the
\* core does not ask it: a resident line may be read, a dirty one is owned.
BackedLines ==
    \A n \in Procs, b \in Blocks :
      /\ Resident(n, b) => Level(agent[n][b]) >= 1
      /\ Dirty(n, b) => agent[n][b] \in {"M", "O", "OM"}

\* Recalls, invalidations and fills cross in adapter and cache and leave no
\* line behind that its agent has given up.  (Under MI they do, see
\* RecalledLinesGone.)
LinesBacked == FitsInL1 /\ protocol # "MI" => BackedLines

AskedFor(n, b) ==
    Cardinality({i \in DOMAIN outbound[n] : outbound[n][i].block = b})
    + CountBool(cpuIn[n] # NoReq /\ cpuIn[n].block = b)
    + CountBool(agent[n][b] \in {"IS", "IM", "SM", "EM", "OM", "FM"})
    + CountBool(cacheIn[n] /\ fill[n] = b)

\* Each outstanding miss is in one place: queued in the adapter, in the agents'
\* slot, with its agent, or in the one slot for fills, where no other fill
\* overwrites it.
MissConserved ==
    FitsInL1 => \A n \in Procs, b \in Blocks : AskedFor(n, b) = CountBool(b \in waiting[n])

\* Writebacks of holders, of former holders, and of nodes that have asked for the
\* block again, or hold it again, while their DATA_WB was under way, keep
\* active_sharers equal to the number of presence bits.
BooksKept ==
    \A b \in Blocks : entry[b].active_sharers = Cardinality(entry[b].presence)

\* Every miss is filled and its MSHR entry woken, as the contract of
\* CoherenceSink has it, as long as nothing is evicted.
EveryMissFilled == FitsInL1 => \A n \in Procs : []<>(waiting[n] = {})

\* A store commits without asking its agent when the line is dirty, and "a store
\* needs M-state" (core.cpp:414).  Refuted: an owner in O keeps its dirty line.
StoresNeedM == \A n \in Procs, b \in Blocks : Dirty(n, b) => agent[n][b] = "M"

\* A recalled or invalidated line is dropped from the L1 (coherence_cache.cpp:35).
\* Refuted under MI: a fill of the same tick puts it back.
RecalledLinesGone ==
    \A n \in Procs, b \in Blocks : Resident(n, b) => agent[n][b] # "I"
=============================================================================
