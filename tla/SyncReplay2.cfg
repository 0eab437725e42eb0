SPECIFICATION FairSpec
CONSTANTS
  Threads = {t1, t2}
  Mutexes = {m1}
  Barriers = {b1}
  Atomics = {a1}
  MaxEmits = 5
  Participants = 2
CHECK_DEADLOCK FALSE
INVARIANTS TypeOK MutualExclusion AtomicsSerialised BarrierSeparates
PROPERTIES RealProgramsReplay
