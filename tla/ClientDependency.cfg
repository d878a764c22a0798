\* lashd is dead once a search does not end: the system then stops.
CONSTANTS
  c1 = c1
  c2 = c2
  c3 = c3
  Client = {c1, c2, c3}
  MaxDeps = 2
SYMMETRY ClientSymmetry
SPECIFICATION Spec
INVARIANTS SearchFindsCircles
CHECK_DEADLOCK FALSE
PROPERTY ReadingBreaksCircles
