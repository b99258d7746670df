CONSTANTS
  NoName = NoName
  NoEvidence = NoEvidence
  Graphs <- SoloGraphs
  Findings = {"f"}
  Answers <- MCAnswers
  Gates <- SoloGates
  Reviews <- SoloReviews
  Failures = {"EFFECT_FAILED"}
  MaxOutside = 0
SPECIFICATION Spec
INVARIANTS RepairsAnswerReports
