SPECIFICATION Spec
CONSTANTS
    NumEntries = 2
    Blocks = {0, 1, 2}
    Ids = {1, 2, 3}
    Level <- WriteBackLevels
    MemoryLatency = 1
    None = None
INVARIANTS
    TypeOK
    LatestReachable
    CleanCopiesExpendable
    HeldOnce
    OneSlotPerBlock
PROPERTIES
    ReadyIsFinal
    ContentsMoveOnAccept
    EveryRequestAnswered
