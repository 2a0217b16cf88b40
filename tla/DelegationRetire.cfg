CONSTANTS
  MaxMsgs = 2
  MaxCrashes = 0
SPECIFICATION Spec
INVARIANT WorkspaceOutlivesRun
CHECK_DEADLOCK FALSE
