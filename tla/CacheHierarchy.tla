--------------------------- MODULE CacheHierarchy ---------------------------
(***************************************************************************)
(* One core's private hierarchy: a write-back L1 over an L2 over main      *)
(* memory (src/src/cache/cache.cpp), entered through the L1's table of     *)
(* outstanding misses.  The contents move at once when a request is        *)
(* issued; the table only delays the answer.                               *)
(*                                                                         *)
(* A line has no data in the program.  Here each copy of a block says      *)
(* whether it is `fresh', that is, holds what the last store to the block  *)
(* wrote: a store makes the L1's copy fresh and every other copy stale, and*)
(* a fill or a write-back carries the freshness of the copy it moves.      *)
(*                                                                         *)
(* Which block a prefetcher chooses is left open: any block in neither     *)
(* cache, other than the missed one, or none.  That covers plus_one,       *)
(* markov and hybrid and the runs without a prefetcher.                    *)
(***************************************************************************)
EXTENDS Mshr, SequencesExt, FiniteSets

CONSTANTS
    Blocks,         \* block addresses, a set of numbers
    Ids,            \* request ids, a set of numbers: bounds the requests
                    \* outstanding together
    Level,          \* 1, 2 -> [sets, ways, policy, replacement, latency]
    MemoryLatency,
    None            \* the block of an id that is not outstanding

ASSUME HierarchyAssumption ==
    /\ Blocks \subseteq Nat
    /\ Ids \subseteq Nat
    /\ None \notin Blocks
    /\ \A k \in 1 .. 2 :
        /\ Level[k].sets \in Nat \ {0}
        /\ Level[k].ways \in Nat \ {0}
        /\ Level[k].latency \in Nat
        /\ Level[k].replacement \in {"LRU_MIP", "LRU_LIP"}
    /\ Level[1].policy = "WBWA"
    /\ Level[2].policy \in {"WBWA", "WTWNA"}
    /\ MemoryLatency \in Nat

VARIABLES
    h,              \* contents: rows of level 1 and 2, and memory
    table,          \* the L1's MSHR table
    pending         \* ghost: the block of each id issued and not completed

vars == <<h, table, pending>>

-----------------------------------------------------------------------------
(* Sets of lines, the most recently used first.                            *)

Line(b, dirty, prefetched, fresh) ==
    [block |-> b, dirty |-> dirty, prefetched |-> prefetched, fresh |-> fresh]

\* Cache::get_index
IndexOf(k, b) == b % Level[k].sets

SetOf(hh, k, b) == hh.rows[k][IndexOf(k, b)]

PlacesOf(hh, k, b) ==
    {i \in DOMAIN SetOf(hh, k, b) : SetOf(hh, k, b)[i].block = b}

\* Cache::is_in_cache and block_in
Resident(hh, k, b) == PlacesOf(hh, k, b) # {}

CopyOf(hh, k, b) == SetOf(hh, k, b)[First(PlacesOf(hh, k, b))]

WithSet(hh, k, b, lines) == [hh EXCEPT !.rows[k][IndexOf(k, b)] = lines]

\* A hit: the line moves to the front (splice, find_and_promote) as `line'.
Promote(hh, k, b, line) ==
    WithSet(hh, k, b,
        <<line>> \o RemoveAt(SetOf(hh, k, b), First(PlacesOf(hh, k, b))))

\* Fault: a set is full only beyond its ways.
PlaceOneMore(hh, k, line) ==
    LET old  == SetOf(hh, k, line.block)
        kept == IF Len(old) > Level[k].ways THEN Front(old) ELSE old
    IN  WithSet(hh, k, line.block,
            IF Level[k].replacement = "LRU_LIP"
            THEN Append(kept, line) ELSE <<line>> \o kept)

\* The line leaves the back of a full set and the new one goes to the front,
\* or, with LIP insertion, to the back.
Place(hh, k, line) ==
    LET old  == SetOf(hh, k, line.block)
        kept == IF Len(old) = Level[k].ways THEN Front(old) ELSE old
    IN  WithSet(hh, k, line.block,
            IF Level[k].replacement = "LRU_LIP"
            THEN Append(kept, line) ELSE <<line>> \o kept)

\* A dirty line is about to leave the full set that block b maps to.
WritesBack(hh, k, b) ==
    LET lines == SetOf(hh, k, b)
    IN  /\ Level[k].policy = "WBWA"
        /\ Len(lines) = Level[k].ways
        /\ Last(lines).dirty

-----------------------------------------------------------------------------
(* The L2.  Each operator yields the set of contents the access may leave, *)
(* one for each choice of the prefetcher.                                  *)

\* insert_new_block: a dirty victim goes to main memory.
Insert2(hh, line) ==
    LET v    == Last(SetOf(hh, 2, line.block))
        back == IF WritesBack(hh, 2, line.block)
                THEN [hh EXCEPT !.memory[v.block] = v.fresh] ELSE hh
    IN  Place(back, 2, line)

\* Cache::issue_prefetch
IssuePrefetch(hh, p) ==
    IF Resident(hh, 2, p) THEN hh
    ELSE Insert2(hh, Line(p, FALSE, TRUE, hh.memory[p]))

\* What Prefetcher::on_miss may ask for: no block that is cached already.
MayPrefetch(hh, missed) ==
    {p \in Blocks \ {missed} : ~Resident(hh, 1, p) /\ ~Resident(hh, 2, p)}

AfterPrefetch(hh, missed) ==
    {hh} \cup {IssuePrefetch(hh, p) : p \in MayPrefetch(hh, missed)}

Read2(hh, b) ==
    IF Resident(hh, 2, b)
    THEN {Promote(hh, 2, b, [CopyOf(hh, 2, b) EXCEPT !.prefetched = FALSE])}
    ELSE AfterPrefetch(Insert2(hh, Line(b, FALSE, FALSE, hh.memory[b])), b)

\* Fault: a write-back that hits leaves the dirty bit of the line alone.
Write2Clean(hh, b, fresh) ==
    IF Resident(hh, 2, b)
    THEN {Promote(hh, 2, b, [CopyOf(hh, 2, b) EXCEPT !.fresh = fresh])}
    ELSE IF Level[2].policy = "WBWA"
    THEN AfterPrefetch(Insert2(hh, Line(b, TRUE, FALSE, fresh)), b)
    ELSE {hh}

\* A write-back from the L1.  WTWNA neither allocates nor passes it on, and
\* leaves the prefetched mark alone.
Write2(hh, b, fresh) ==
    IF Resident(hh, 2, b)
    THEN {Promote(hh, 2, b,
            IF Level[2].policy = "WBWA"
            THEN Line(b, TRUE, FALSE, fresh)
            ELSE [CopyOf(hh, 2, b) EXCEPT !.fresh = fresh])}
    ELSE IF Level[2].policy = "WBWA"
    THEN AfterPrefetch(Insert2(hh, Line(b, TRUE, FALSE, fresh)), b)
    ELSE {hh}

-----------------------------------------------------------------------------
(* The L1.                                                                 *)

\* insert_new_block: a dirty victim is written to the L2 before it leaves.
Insert1(hh, line) ==
    LET v    == Last(SetOf(hh, 1, line.block))
        back == IF WritesBack(hh, 1, line.block)
                THEN Write2(hh, v.block, v.fresh) ELSE {hh}
    IN  {Place(x, 1, line) : x \in back}

\* What the level below the L1 answers a read with.
Below(hh, b) ==
    IF Resident(hh, 2, b) THEN CopyOf(hh, 2, b).fresh ELSE hh.memory[b]

\* Every copy of b but the one in the L1 is out of date from now on.
Overwrite(hh, b) ==
    LET lines == SetOf(hh, 2, b)
    IN  WithSet([hh EXCEPT !.memory[b] = FALSE], 2, b,
            [i \in DOMAIN lines |->
                IF lines[i].block = b THEN [lines[i] EXCEPT !.fresh = FALSE]
                ELSE lines[i]])

\* Fault: a store that hits a clean line leaves it clean.
TouchedClean(line, w) == Line(line.block, line.dirty, FALSE, line.fresh \/ w)

\* What a hit leaves of the line; w says whether it is a store.
Touched(line, w) == Line(line.block, line.dirty \/ w, FALSE, line.fresh \/ w)

\* Cache::access at the L1: a write miss first reads the block below.
Access(hh, b, op) ==
    LET w    == op = "Write"
        seen == IF Resident(hh, 1, b)
                THEN {Promote(hh, 1, b, Touched(CopyOf(hh, 1, b), w))}
                ELSE UNION {Insert1(x, Line(b, w, FALSE, Below(hh, b) \/ w)) :
                              x \in Read2(hh, b)}
    IN  IF w THEN {Overwrite(x, b) : x \in seen} ELSE seen

\* AccessResult::latency of that access
Latency(hh, b) ==
    Level[1].latency
    + (IF Resident(hh, 1, b) THEN 0 ELSE Level[2].latency)
    + (IF Resident(hh, 1, b) \/ Resident(hh, 2, b) THEN 0 ELSE MemoryLatency)

-----------------------------------------------------------------------------
EmptyRows(k) == [i \in 0 .. (Level[k].sets - 1) |-> <<>>]

\* Nothing cached; memory holds the only, and so the latest, value.
Init ==
    /\ h = [rows |-> <<EmptyRows(1), EmptyRows(2)>>,
            memory |-> [b \in Blocks |-> TRUE]]
    /\ table = EmptyTable
    /\ pending = [id \in Ids |-> None]

Outstanding == {id \in Ids : pending[id] # None}

\* next_id_++, taken from the ids that are free again.
NextId == First(Ids \ Outstanding)

MayJoin(op, b) == op # "Write" /\ Fetching(table, b) # {}

\* Cache::issue of a read whose block is being fetched: no access is made.
Join(b, op) ==
    /\ Outstanding # Ids
    /\ MayJoin(op, b)
    /\ table' = Merge(table, First(Fetching(table, b)), NextId)
    /\ pending' = [pending EXCEPT ![NextId] = b]
    /\ UNCHANGED h

\* Cache::issue of any other request, when a slot is free.
Issue(b, op) ==
    /\ Outstanding # Ids
    /\ ~MayJoin(op, b)
    /\ ~Full(table)
    /\ h' \in Access(h, b, op)
    /\ table' = Allocate(table, NextId, b, Latency(h, b))
    /\ pending' = [pending EXCEPT ![NextId] = b]

\* Fault: the capacity is tested when the access has been made.
RefuseLate(b, op) ==
    /\ ~MayJoin(op, b)
    /\ Full(table)
    /\ h' \in Access(h, b, op)
    /\ UNCHANGED <<table, pending>>

\* Cache::issue with a full table: the caller is told to try again.
Refuse(b, op) ==
    /\ ~MayJoin(op, b)
    /\ Full(table)
    /\ UNCHANGED vars

\* Cache::complete: the consumer has seen peek(id)->ready.
Complete(id) ==
    /\ id \in Outstanding
    /\ ReadyId(table, id)
    /\ table' = Release(table, id)
    /\ pending' = [pending EXCEPT ![id] = None]
    /\ UNCHANGED h

\* Cache::tick
Tick ==
    /\ \E s \in Valid(table) : ~table[s].ready
    /\ table' = TickTable(table)
    /\ UNCHANGED <<h, pending>>

Next ==
    \/ Tick
    \/ \E id \in Ids : Complete(id)
    \/ \E b \in Blocks, op \in {"Read", "Write"} :
        Join(b, op) \/ Issue(b, op) \/ Refuse(b, op)

\* The driver ticks every cache every cycle.
Spec == Init /\ [][Next]_vars /\ WF_vars(Tick)

-----------------------------------------------------------------------------
(* Properties.                                                             *)

AllRows == {<<k, i>> : k \in {1}, i \in DOMAIN h.rows[1]}
           \cup {<<k, i>> : k \in {2}, i \in DOMAIN h.rows[2]}

\* Lines and slots are well formed: a set holds no more lines than its ways, no
\* block twice and only blocks of its index, whichever of the demand fill, the
\* write-back and the prefetch brought them (insert_new_block has no check).
TypeOK ==
    /\ \A r \in AllRows :
        LET lines == h.rows[r[1]][r[2]]
        IN  /\ Len(lines) <= Level[r[1]].ways
            /\ \A i \in DOMAIN lines :
                /\ lines[i].block \in Blocks
                /\ IndexOf(r[1], lines[i].block) = r[2]
                /\ lines[i].dirty => Level[r[1]].policy = "WBWA"
                /\ \A j \in DOMAIN lines :
                    lines[i].block = lines[j].block => i = j
    /\ h.memory \in [Blocks -> BOOLEAN]
    /\ pending \in [Ids -> Blocks \cup {None}]

\* The copy a read would be answered with.
FirstCopyFresh(b) ==
    IF Resident(h, 1, b) THEN CopyOf(h, 1, b).fresh ELSE Below(h, b)

\* No store is lost on the way down: whatever was evicted, prefetched over or
\* written back meanwhile, the first copy of a block that a read meets, in the
\* L1, then the L2, then memory, holds what the last store to it wrote.
LatestReachable == \A b \in Blocks : FirstCopyFresh(b)

\* The same of a clean copy and what lies below it, which is what allows
\* insert_new_block to drop a clean victim.
CleanCopiesExpendable ==
    \A b \in Blocks :
        /\ Resident(h, 1, b) /\ ~CopyOf(h, 1, b).dirty => Below(h, b)
        /\ Resident(h, 2, b) /\ ~CopyOf(h, 2, b).dirty
            => h.memory[b] = CopyOf(h, 2, b).fresh

\* peek and complete find a request by its id: each request outstanding is held
\* by exactly one slot, which fetches its block, also after the primary it had
\* joined was released; and no slot holds a request that was completed.
HeldOnce ==
    /\ \A id \in Outstanding :
        \E s \in Valid(table) :
            /\ Holders(table, id) = {s}
            /\ table[s].block = pending[id]
    /\ \A s \in Valid(table) : HeldBy(table, s) \subseteq Outstanding

\* No two slots fetch the same block, though a store never takes the merge path
\* of Cache::issue.
OneSlotPerBlock ==
    \A r, s \in Valid(table) : table[r].block = table[s].block => r = s

\* A request that was reported ready stays so until it is completed, whatever
\* joins its slot or leaves it.
ReadyIsFinal ==
    [][\A id \in Ids :
        ReadyId(table, id) => ReadyId(table, id)' \/ pending'[id] = None]_vars

\* A refused request leaves no trace: the contents move only in a step that
\* accepts a request (the order of the capacity test and of access in
\* Cache::issue).
ContentsMoveOnAccept ==
    [][h' # h => \E id \in Ids : pending[id] = None /\ pending'[id] # None]_vars

\* Every accepted request is answered.
EveryRequestAnswered ==
    \A id \in Ids :
        id \in Outstanding ~> (ReadyId(table, id) \/ id \notin Outstanding)
=============================================================================
