SPECIFICATION MCFairSpec
CONSTANTS
    NumProcs = 2
    Blocks = {b1, b2}
    TraceLen = 3
    Protocols = {"MI", "MSI", "MESI", "MOSI", "MOESIF"}
    WaysChoices = {1, 2}
    MaxMisses = 2
INVARIANTS
    FullTypeOK
    CoherentWhileResident
    LinesBacked
    MissConserved
    BooksKept
PROPERTIES
    EveryMissFilled
CHECK_DEADLOCK FALSE
