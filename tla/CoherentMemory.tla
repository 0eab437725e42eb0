---------------------------- MODULE CoherentMemory ----------------------------
(***************************************************************************)
(* What the directory protocols of src/coherence promise, without any      *)
(* message: every processor has an access level for every block, at most   *)
(* one processor may hold a block above Shared and then nobody else holds  *)
(* it, levels only ever rise in the step that answers a request, and a     *)
(* request is answered only by a level that permits it.                    *)
(***************************************************************************)
EXTENDS Integers

CONSTANTS Proc,     \* the processors
          Block     \* the blocks

VARIABLES level,    \* level[n][b]: what n may do with b
          pending   \* pending[n]: the unanswered request of n, or NoReq

None   == 0         \* I and the transients without a copy
Shared == 1         \* S, F, O: readable, others may read too
Sole   == 2         \* E: readable, nobody else has a copy
Write  == 3         \* M

Levels == None .. Write
Request == [op : {"LOAD", "STORE"}, block : Block]
NoReq   == [op |-> "NONE"]

Needed(op) == IF op = "STORE" THEN Write ELSE Shared

\* Level l of one processor and level k of another may coexist on a block.
Compatible(l, k) == (l <= Shared /\ k <= Shared) \/ l = None \/ k = None

-------------------------------------------------------------------------------

Init == /\ level = [n \in Proc |-> [b \in Block |-> None]]
        /\ pending = [n \in Proc |-> NoReq]

\* A processor without an unanswered request asks for a block.
Issue(n) == /\ pending[n] = NoReq
            /\ \E r \in Request : pending' = [pending EXCEPT ![n] = r]
            /\ UNCHANGED level

\* The request of n is answered, its level rising if it has to.
Answer(n) ==
  /\ pending[n] # NoReq
  /\ \E l \in Levels :
       LET b == pending[n].block IN
       /\ l >= level[n][b] /\ l >= Needed(pending[n].op)
       /\ \A k \in Proc \ {n} : Compatible(l, level[k][b])
       /\ level' = [level EXCEPT ![n][b] = l]
  /\ pending' = [pending EXCEPT ![n] = NoReq]

\* n gives up part or all of its access to b.
Surrender(n) ==
  /\ \E b \in Block, l \in Levels : /\ l < level[n][b]
                                    /\ level' = [level EXCEPT ![n][b] = l]
  /\ UNCHANGED pending

Next == \E n \in Proc : Issue(n) \/ Answer(n) \/ Surrender(n)

Spec == Init /\ [][Next]_<<level, pending>>
===============================================================================
