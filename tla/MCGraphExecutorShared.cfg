CONSTANTS
  NoKey = NoKey
  NoPosition = NoPosition
  MCGraph <- OneNode
  Positions <- MCPositions
  EnginePositions <- MCEnginePositions
  RetrySafe <- MCRetrySafe
  GraphInitial <- MCInitial
  Reduce <- MCReduce
  ReduceAll <- MCReduceAll
  Decide <- MCDecide
  Results = {"passed"}
  Executors = {e1, e2}
  Slots = {1}
  Exclusive = FALSE
  HostWaits = TRUE
  MaxGrants = 2
  MaxCrashes = 1
  MaxFaults = 1
  MaxWaits = 1
  MaxOthers = 1
SPECIFICATION Spec
INVARIANTS LogFolds OneRunPerGrant RerunOnlyAfterPause
PROPERTIES FinalIsFinal
SYMMETRY Interchangeable
