CONSTANTS
  MaxChildren = 3
  MaxActive = 1
  MaxTotal = 3
  MaxWakes = 1
  MaxTasks = 1
  MaxFlows = 1
SPECIFICATION Spec
INVARIANTS NoIdleSlot NoForgottenWait
PROPERTIES OldestFirst SpentTaskStaysDown
CHECK_DEADLOCK FALSE
