CONSTANTS
  NoKey = NoKey
  Graph <- TwoAtOnce
  Results = {"passed"}
  Executors = {e1, e2}
  Positions <- DagPositions
  EnginePositions <- EngineWork
  RetrySafe <- SafeWork
  GraphInitial <- DagInitial
  Reduce <- ReduceOne
  ReduceAll <- ReduceBatch
  Decide <- DecideNow
  NoPosition = NoPosition
  Slots = {1}
  Exclusive = TRUE
  HostWaits = TRUE
  MaxGrants = 10
  MaxCrashes = 1
  MaxFaults = 1
  MaxWaits = 0
  MaxOthers = 0
SPECIFICATION FairSpec
INVARIANTS WorkIsOpen ReceiptsCoverCalls
PROPERTIES ImplementsDagRun RunConcludes
