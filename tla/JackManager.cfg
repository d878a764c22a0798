\* Two programs and one connection; their names and the ports' numbers are
\* used again.
CONSTANTS
  a = a
  b = b
  out = out
  in = in
  n1 = n1
  n2 = n2
  Client = {a, b}
  Foreign = {}
  PortsOf <- PortsDef
  Wire <- WireDef
  Name = {n1, n2}
  NoName = NoName
  PortId = {0, 1, 2}
  NoPort = NoPort
  NotSaved = NotSaved
  Document <- DocumentDef
  MaxEnds = 1
  MaxQueue = 1
SYMMETRY NameSymmetry
SPECIFICATION Spec
INVARIANTS RestoresConnections
PROPERTIES ConnectsTheRightPrograms SavesConnections
CHECK_DEADLOCK FALSE
