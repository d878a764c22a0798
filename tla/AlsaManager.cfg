\* Two programs and one connection; the numbers of the programs are used again.
CONSTANTS
  a = a
  b = b
  n1 = n1
  n2 = n2
  Client = {a, b}
  Foreign = {}
  PortsOf <- PortsDef
  Wire <- WireDef
  Number = {n1, n2}
  NotSaved = NotSaved
  Document <- DocumentDef
  MaxEnds = 2
  MaxQueue = 1
SYMMETRY NumberSymmetry
SPECIFICATION Spec
INVARIANT RestoresConnections
PROPERTIES ConnectsTheRightPrograms SavesConnections
CHECK_DEADLOCK FALSE
