\* Traces of four instructions through a core that is too small for them.
SPECIFICATION Spec
CONSTANTS
    NumRegs = 2
    Blocks = {1, 2}
    Insts <- MCInsts
    MaxFetch = 4
    FetchWidth = 2
    DispqCap = 2
    RobSize = 3
    SchedqCap = 3
    AluFus = 1
    MulFus = 1
    LsuFus = 3
    MshrSize = 2
    Threshold = 0
INVARIANTS TypeOK ProgramOrder MispredictIsYoungest BooksAgree DataflowExact MemoryOrdered StoresFindMshrEmpty

CHECK_DEADLOCK FALSE
