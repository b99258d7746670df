CONSTANTS
  NoName = NoName
  NoEvidence = NoEvidence
  Graphs <- MCGraphs
  Findings = {"f"}
  Answers <- MCAnswers
  Gates <- MCGates
  Reviews <- MCReviews
  Failures = {"EFFECT_FAILED", "ENGINE_UNAVAILABLE", "ABORTED"}
  MaxOutside = 1
SPECIFICATION Spec
INVARIANTS AcceptanceIsSound PassesStayCurrent ReviewsStandStill BoundsHold NeverSilent
