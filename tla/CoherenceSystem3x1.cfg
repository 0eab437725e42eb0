SPECIFICATION FairSpec
CONSTANTS
  NumProcs = 3
  Blocks = {b1}
  TraceLen = 2
  Protocols = {"MI","MSI","MESI","MOSI","MOESIF"}
INVARIANTS TypeOK SWMR NoThrow PresenceSound RequestConserved HandshakeAccounted SettledWhenDone
PROPERTIES ImplementsMemory EveryTraceCompletes
