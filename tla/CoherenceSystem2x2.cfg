SPECIFICATION FairSpec
CONSTANTS
  NumProcs = 2
  Blocks = {b1, b2}
  TraceLen = 3
  Protocols = {"MI","MSI","MESI","MOSI","MOESIF"}
PROPERTIES ImplementsMemory EveryTraceCompletes
