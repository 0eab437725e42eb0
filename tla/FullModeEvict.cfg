SPECIFICATION FullSpec
CONSTANTS
    NumProcs = 2
    Blocks = {b1, b2}
    TraceLen = 3
    Protocols = {"MOSI"}
    WaysChoices = {1}
    MaxMisses = 2
INVARIANT NoThrow
CHECK_DEADLOCK FALSE
