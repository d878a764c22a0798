\* Three processes for two pids, so that a pid is reused; no symmetry, for
\* liveness.
CONSTANTS
  a = a
  b = b
  p = p
  q = q
  Client = {a, b}
  Terminal = {b}
  Pid = {p, q}
  NoPid = NoPid
  NoClient = NoClient
  MaxProcesses = 3
  MaxEntries = 2
SPECIFICATION Spec
PROPERTIES OnlyTheEndedAreLost PlacesAreNotTaken EndedChildrenAreBuried
