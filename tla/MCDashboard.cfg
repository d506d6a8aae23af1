SPECIFICATION Spec
CONSTANTS
  Anomalies <- MCAnomalies
  Threats <- MCThreats
  Offset <- MCOffset
  NoScore = NoScore
  Scenarios <- MCScenarios
  MaxLog = 2
  MaxLogins = 2
INVARIANTS
  ColoursAgree
  LogMatchesResult
  AuthAnswerCurrent
PROPERTIES
  ImplementsDecision
