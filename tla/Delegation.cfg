CONSTANTS
  MaxMsgs = 2
  MaxCrashes = 1
SPECIFICATION Spec
INVARIANTS
  IInv
  HandedOnce
  ToldOnce
  WriterHoldsWorkspace
  NoForgottenFollowUp
PROPERTIES
  StopMeansStopped
  RunsEndAndTell
\* A refused start, or a closed conversation, is the end.
CHECK_DEADLOCK FALSE
