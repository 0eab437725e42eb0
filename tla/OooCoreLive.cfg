\* Traces of three instructions, all the way through a core that is too small for them.
SPECIFICATION FairSpec
CONSTANTS
    NumRegs = 2
    Blocks = {1, 2}
    Insts <- MCInsts
    MaxFetch = 3
    FetchWidth = 2
    DispqCap = 2
    RobSize = 2
    SchedqCap = 2
    AluFus = 1
    MulFus = 1
    LsuFus = 2
    MshrSize = 1
    Threshold = 0
PROPERTY EveryInstRetires

CHECK_DEADLOCK FALSE
