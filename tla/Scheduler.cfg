CONSTANTS
  Jobs <- ThreeJobs
  System <- SystemJobs
  Known = {2}
  Owner <- Owners
  Policy <- Policies
  OneShot = {1}
  MaxConcurrent = 1
  MaxPerOwner = 1
  MaxQueued = 1
  Interval = 2
  Grace = 0
  MaxSleep = 2
  MaxTime = 2
  MaxCalls = 3
  MaxFaults = 1
  MaxEnds = 2
  MaxEvents = 3

SPECIFICATION Spec

INVARIANTS
  IInv
  PoolIsFull
  NoStrandedJob

PROPERTIES
  OccurrenceOnce
  OnlyStartForgets

\* The clock is bounded, and everything may be said and done.
CHECK_DEADLOCK FALSE
