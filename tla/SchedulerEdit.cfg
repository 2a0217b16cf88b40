CONSTANTS
  Jobs <- ThreeJobs
  System <- SystemJobs
  Known = {2}
  Owner <- Owners
  Policy <- Policies
  OneShot = {1}
  MaxConcurrent = 2
  MaxPerOwner = 1
  MaxQueued = 1
  Interval = 2
  Grace = 0
  MaxSleep = 2
  MaxTime = 3
  MaxCalls = 2
  MaxFaults = 0
  MaxEnds = 0
  MaxEvents = 2

SPECIFICATION Spec

INVARIANT
  EditedJobsRun

CHECK_DEADLOCK FALSE
