\* A client that saves to a file and one that saves a data set.
CONSTANTS
  c1 = c1
  c2 = c2
  p1 = p1
  p2 = p2
  Client = {c1, c2}
  FileClient = {c1}
  DataSetClient = {c2}
  Pid = {p1, p2}
  NoPid = NoPid
  Percent = {120, 255}
  DepEdges = {}
  MaxTask = 2
  MaxProgress = 150
SYMMETRY PidSymmetry
SPECIFICATION Spec
INVARIANTS TypeOK PendingCountsClients
PROPERTIES SignalsTellTheTruth
