CONSTANTS
  w1 = w1
  w2 = w2
  Writers = {w1, w2}
  References <- MCReferences
  DigestOf <- MCDigestOf
  SizeOf <- MCSizeOf
  Limits = {2, 3}
  MaxRetries = 2
SPECIFICATION Spec
SYMMETRY Symmetric
INVARIANTS AdmittedBytesExist AcceptedIsReadable
 
