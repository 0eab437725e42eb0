SPECIFICATION FullSpec
CONSTANTS
    NumProcs = 2
    Blocks = {b1, b2}
    TraceLen = 2
    Protocols = {"MI"}
    WaysChoices = {2}
    MaxMisses = 2
INVARIANT RecalledLinesGone
CHECK_DEADLOCK FALSE
