CONSTANTS
  None = None
  c1 = c1
  c2 = c2
  Clients = {c1, c2}
  Questions = {"approve", "ask"}
  GateOf <- MCGateOf
  SubjectBacked = {"approve"}
  Routers = {"monitor"}
  RouterOf <- MCRouterOf
  Responses = {"yes", "no", "bad"}
  Valid = {"yes", "no"}
  Actors = {"reviewer"}
  MaxRevision = 7
  MaxOthers = 1
  MaxFaults = 1
  MaxCrashes = 1
SPECIFICATION Spec
SYMMETRY Interchangeable
INVARIANTS HistoryReads OneQuestionPerGate SubmitsAreToldTruly
PROPERTIES OwnersKeepClaims
