\* Two programs that may connect to lashd, and one wire between them.
CONSTANTS
  a = a
  b = b
  Client = {a, b}
  Foreign = {}
  Wire <- WireDef
  Port <- PortDef
  NoClient = NoClient
  NoGraph = NoGraph
  NotSaved = NotSaved
  Document <- DocumentDef
  MaxFaults = 1
  MaxQueue = 1
SPECIFICATION Spec
INVARIANTS RunningClientsAreBound NothingLeftToResume PatchesAreKept UnmodifiedMeansSaved
PROPERTIES SavesConnections
CHECK_DEADLOCK FALSE
