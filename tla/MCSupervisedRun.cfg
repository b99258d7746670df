CONSTANTS
  HasPreflight = TRUE
  MaxRestarts = 1
  MaxPauses = 2
  MaxFaults = 2
SPECIFICATION FairSpec
CHECK_DEADLOCK FALSE
INVARIANTS WorkerOwnsTheWorkspace ResultIsReturned RetainedIsTold
PROPERTIES EndsAreClean DoneSettles
