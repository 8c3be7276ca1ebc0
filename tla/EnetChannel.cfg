CONSTANTS
  M = 18
  W = 2
  FREE = 3
  Groups = 8
  GroupWindow = 2
  FreeGroups = 2
  MaxUnrel = 2
  Transit = 2
  Scenarios <- AllScenarios
SPECIFICATION Spec
CHECK_DEADLOCK FALSE
INVARIANTS SenderKeeps
PROPERTIES Contract
