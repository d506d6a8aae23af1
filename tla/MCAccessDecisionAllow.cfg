SPECIFICATION Spec
CONSTANTS
  Anomalies <- MCAnomalies
  Threats <- MCThreats
  Offset <- MCOffset
  NoScore = NoScore
INVARIANTS
  TrustedEmployeeAllowed
