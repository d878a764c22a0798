CONSTANTS
  p1 = p1
  p2 = p2
  A = A
  B = B
  Project <- MCProject
  Name <- MCName
  Client = {c}
  Elsewhere = Elsewhere
  None = None
  Documents <- MCDocuments
  MaxEvents = 4
  MaxCommands = 1
  MaxAdded = 3
SPECIFICATION Spec
INVARIANTS
  ViewFollowsLashd
  CommandsReachTheirProject
  PagesFollowTheList
PROPERTIES
  PromptIsObeyed
  PanelCatchesUp
CHECK_DEADLOCK FALSE
