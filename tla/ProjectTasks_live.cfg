\* Two clients that save to files; no symmetry, for liveness.
CONSTANTS
  c1 = c1
  c2 = c2
  p1 = p1
  p2 = p2
  Client = {c1, c2}
  FileClient = {c1, c2}
  DataSetClient = {}
  Pid = {p1, p2}
  NoPid = NoPid
  Percent = {0, 255}
  DepEdges = {}
  MaxTask = 1
  MaxProgress = 100
SPECIFICATION FairSpec
PROPERTIES DeadClientsAreLost SavesEnd
