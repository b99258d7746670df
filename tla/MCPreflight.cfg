CONSTANTS
  Lanes <- MCLanes
  Reach <- MCReach
  MaxWork = 1
  MaxFaults = 2
SPECIFICATION FairSpec
CHECK_DEADLOCK FALSE
INVARIANTS PreflightFolds WorkIsChecked NeverStuck
PROPERTIES AdmissionSettles
