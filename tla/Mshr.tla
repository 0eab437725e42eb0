-------------------------------- MODULE Mshr --------------------------------
(***************************************************************************)
(* The miss-status holding registers of one cache (src/src/cache/mshr.cpp):*)
(* a table of NumEntries slots, one per block being fetched.  A request    *)
(* for a block that already has a slot joins it, and the slot stays until  *)
(* its last holder is released.                                            *)
(*                                                                         *)
(* The due cycle is kept as the number of ticks left.  The merged ids are a*)
(* set: their order only decides which of them is promoted, and no         *)
(* operation treats the primary of a slot and its merged ids differently.  *)
(* The operation, program counter and result of a slot are not kept, since *)
(* nothing the table decides depends on them.                              *)
(***************************************************************************)
EXTENDS Naturals

CONSTANT
    NumEntries      \* mshr_entries: the slots of the table

ASSUME NumEntriesAssumption == NumEntries \in Nat \ {0}

Slots == 1 .. NumEntries

\* A slot that is not valid.
Free == [valid |-> FALSE]

Entry(b, id, left) ==
    [valid |-> TRUE, ready |-> FALSE, block |-> b, left |-> left,
     id |-> id, merged |-> {}]

EmptyTable == [s \in Slots |-> Free]

Valid(t) == {s \in Slots : t[s].valid}

Full(t) == Valid(t) = Slots

\* The ids slot s answers for; entry_holds tells whether one is among them.
HeldBy(t, s) == {t[s].id} \cup t[s].merged

Holders(t, id) == {s \in Valid(t) : id \in HeldBy(t, s)}

\* The slots that fetch block b: the candidates of a merge.
Fetching(t, b) == {s \in Valid(t) : t[s].block = b}

First(S) == CHOOSE s \in S : \A r \in S : s <= r

\* Fault: a slot somebody joins waits again.
MergeRearms(t, s, id) ==
    [t EXCEPT ![s].merged = @ \cup {id}, ![s].ready = FALSE, ![s].left = 1]

Merge(t, s, id) == [t EXCEPT ![s].merged = @ \cup {id}]

\* Fault: every request gets a slot of its own.
AllocateFresh(t, id, b, left) ==
    [t EXCEPT ![First(Slots \ Valid(t))] = Entry(b, id, left)]

\* MSHR::allocate, which the callers never reach with a full table and nothing
\* to merge with.
Allocate(t, id, b, left) ==
    IF Fetching(t, b) # {}
    THEN Merge(t, First(Fetching(t, b)), id)
    ELSE [t EXCEPT ![First(Slots \ Valid(t))] = Entry(b, id, left)]

\* Fault: the slot goes with its primary.
ReleasedSlotFreed(e, id) ==
    IF id # e.id THEN [e EXCEPT !.merged = @ \ {id}] ELSE Free

\* What releasing id leaves of a slot that holds it: a merged id is promoted
\* when the primary goes, and the slot is free when nobody is left.
ReleasedSlot(e, id) ==
    IF id # e.id THEN [e EXCEPT !.merged = @ \ {id}]
    ELSE IF e.merged = {} THEN Free
    ELSE LET next == CHOOSE m \in e.merged : TRUE
         IN  [e EXCEPT !.id = next, !.merged = @ \ {next}]

\* MSHR::release
Release(t, id) ==
    [s \in Slots |-> IF s \in Holders(t, id) THEN ReleasedSlot(t[s], id) ELSE t[s]]

\* Fault: only the first slot in use is looked at.
TickFirst(t) ==
    IF Valid(t) = {} \/ t[First(Valid(t))].ready THEN t
    ELSE [t EXCEPT ![First(Valid(t))] =
            [@ EXCEPT !.left = @ - 1, !.ready = t[First(Valid(t))].left = 1]]

\* MSHR::tick
TickTable(t) ==
    [s \in Slots |->
        IF t[s].valid /\ ~t[s].ready
        THEN IF t[s].left > 1 THEN [t[s] EXCEPT !.left = @ - 1]
             ELSE [t[s] EXCEPT !.left = 0, !.ready = TRUE]
        ELSE t[s]]

\* MSHR::find(id)->ready
ReadyId(t, id) == \E s \in Holders(t, id) : t[s].ready
=============================================================================
