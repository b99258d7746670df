CONSTANTS
  NoKey = NoKey
  NoPosition = NoPosition
  MCGraph <- TwoNodes
  Positions <- MCPositions
  EnginePositions <- MCEnginePositions
  RetrySafe <- MCRetrySafe
  GraphInitial <- MCInitial
  Reduce <- MCReduce
  ReduceAll <- MCReduceAll
  Decide <- MCDecide
  Results = {"passed"}
  Executors = {e1}
  Slots = {1, 2}
  Exclusive = TRUE
  HostWaits = FALSE
  MaxGrants = 10
  MaxCrashes = 0
  MaxFaults = 1
  MaxWaits = 0
  MaxOthers = 0
SPECIFICATION Spec
INVARIANTS LogFolds
