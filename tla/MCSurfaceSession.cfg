CONSTANTS
  MaxRequests = 3
SPECIFICATION FairSpec
CHECK_DEADLOCK FALSE
INVARIANTS OneWinner HandOffAfterAnswer AlwaysBounded
PROPERTIES DecisionSettles
