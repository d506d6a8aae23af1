SPECIFICATION Spec
CONSTANTS
  Scores <- MCScores
  NoScore = NoScore
INVARIANTS
  AllowedExactly
  IndicatorsNeverPass
  NeverLaxer
  OnlyKnownConflicts
PROPERTIES
  ScoreNeverHurts
