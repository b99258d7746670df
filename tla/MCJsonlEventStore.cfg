CONSTANTS
  w1 = w1
  w2 = w2
  Appends = {w1, w2}
  Batches <- MCBatches
  IdOf <- MCIdOf
  MaxRevision = 3
  MaxLosses = 1
SPECIFICATION StreamSpec
SYMMETRY Symmetric
INVARIANTS AckedIsOneCommit
PROPERTIES ImplementsEventLog
