\* Callbacks and events, files and data sets, with and without controller.
CONSTANTS
  a = a
  b = b
  c = c
  Name = {a, b, c}
  NoName = NoName
  Text = Text
  Setup <- Setups
  MaxTask = 2
  MaxRename = 2
SPECIFICATION FairSpec
INVARIANTS AskedTaskIsUnderway ClientKnowsItsProject AnswersAreDeserved
PROPERTY TasksEnd
CHECK_DEADLOCK FALSE
