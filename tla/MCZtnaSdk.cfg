SPECIFICATION SdkSpec
CONSTANTS
  Scores <- MCScores
  NoScore = NoScore
INVARIANTS
  AnswerJustified
PROPERTIES
  AnsweredUnlessDropped
CHECK_DEADLOCK FALSE
