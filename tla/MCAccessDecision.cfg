SPECIFICATION Spec
CONSTANTS
  Anomalies <- MCAllAnomalies
  Threats <- MCThreats
  Offset <- MCOffset
  NoScore = NoScore
INVARIANTS
  TypeOK
  LikelyThreatDenied
  UnlikelyThreatPasses
  ShownNotLaxer
