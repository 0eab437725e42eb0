----------------------------- MODULE MCFullMode -----------------------------
(* The misses of the cores for the run of FullMode.  A third miss of a core  *)
(* is needed for the return to an evicted block: one fetches the block, one  *)
(* displaces it, one asks for it again while its DATA_WB is under way.       *)
EXTENDS FullMode

\* Bound on the misses of all cores together.
MaxTotal == 4

\* Two misses of each core; three of one core, and one of the other, where
\* lines are evicted.
MCInit ==
    /\ FullInit
    /\ left[0] + left[1] <= MaxTotal
    /\ FitsInL1 => \A n \in Procs : left[n] <= 2

MCFairSpec == MCInit /\ [][FullNext]_fullVars /\ FullFairness
=============================================================================
