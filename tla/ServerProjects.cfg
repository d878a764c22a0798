\* Three project objects and the names "New Project" and "New Project 2".
CONSTANTS
  p1 = p1
  p2 = p2
  p3 = p3
  Outside = Outside
  Project = {p1, p2, p3}
  NoProject = NoProject
  NewProject = NewProject
  Typed = {NewProject}
  MaxNumber = 2
  MaxLength = 2
  Elsewhere = {Outside}
  Absent = Absent
  NoInfo = NoInfo
  NoDoc = NoDoc
SPECIFICATION Spec
INVARIANTS DirectoriesAreDistinct SavedProjectsAreOnDisk
PROPERTIES OnlyUsersMakeNamesClash
