CONSTANTS
  p1 = p1
  p2 = p2
  r1 = r1
  r2 = r2
  r3 = r3
  Msg <- Messages
  User <- Prompts
  Round <- Rounds
  Caps = {1, 2}
  BlockedAfter = 2
  MaxCalls = 4
SYMMETRY Symmetry
SPECIFICATION Spec
INVARIANT
  GoalContinues
CHECK_DEADLOCK FALSE
