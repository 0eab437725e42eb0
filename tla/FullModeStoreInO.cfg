SPECIFICATION FullSpec
CONSTANTS
    NumProcs = 2
    Blocks = {b1, b2}
    TraceLen = 2
    Protocols = {"MOSI"}
    WaysChoices = {2}
    MaxMisses = 2
INVARIANT StoresNeedM
CHECK_DEADLOCK FALSE
