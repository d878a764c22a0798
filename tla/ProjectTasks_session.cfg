\* A client that saves to a file, and a stateless one that may depend on it.
CONSTANTS
  c1 = c1
  c2 = c2
  p1 = p1
  p2 = p2
  Client = {c1, c2}
  FileClient = {c1}
  DataSetClient = {}
  Pid = {p1, p2}
  NoPid = NoPid
  Percent = {0, 255}
  DepEdges <- OneEdge
  MaxTask = 2
  MaxProgress = 200
SYMMETRY PidSymmetry
SPECIFICATION Spec
INVARIANTS RunningClientsHaveProcesses LaunchedAfterDependencies
PROPERTIES OnlyDeathLosesClients ImplementsLifecycle
