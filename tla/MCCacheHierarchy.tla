-------------------------- MODULE MCCacheHierarchy --------------------------
(* Geometries for the runs of CacheHierarchy: caches of a few lines, so    *)
(* that two or three blocks already evict each other.                      *)
EXTENDS CacheHierarchy

Geometry(sets, ways, policy, replacement, latency) ==
    [sets |-> sets, ways |-> ways, policy |-> policy,
     replacement |-> replacement, latency |-> latency]

\* A one-line L1 over a two-line L2 with insertion at the cold end.
WriteBackLevels ==
    << Geometry(1, 1, "WBWA", "LRU_MIP", 1), Geometry(1, 2, "WBWA", "LRU_LIP", 1) >>
=============================================================================
