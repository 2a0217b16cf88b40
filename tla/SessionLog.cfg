CONSTANTS
  MaxEvents = 4
  MaxFaults = 2
  MaxDamage = 1
  MaxCrashes = 2
SPECIFICATION FairSpec
INVARIANT NothingForgotten
PROPERTIES DurableImplemented EverythingWritten
CHECK_DEADLOCK FALSE
