CONSTANTS
  NoKey = NoKey
  NodeIds = {1, 2, 3}
  MaxGlobal = 2
  MaxRetry = 1
  Results = {"passed", "skipped"}
  Graphs <- MCGraphs
SPECIFICATION FairSpec
INVARIANTS DeclaredLimitsHold OrderHolds TerminalIsHonest
PROPERTIES StopMeansStop RunEnds
