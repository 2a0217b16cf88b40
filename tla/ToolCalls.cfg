CONSTANTS
  Calls = 4
  MaxParallel = 2
SPECIFICATION FairSpec
INVARIANTS LoggedInModelOrder EveryCallAnswered ExclusiveIsBarrier NothingOutlivesTheStep
PROPERTIES StopEndsTheStep
