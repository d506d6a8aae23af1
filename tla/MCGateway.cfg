SPECIFICATION Spec
CONSTANTS
  Reqs = {q1, q2}
  Configurations <- MCConfigurations
  Paths <- MCPaths
  AuthEnabled = TRUE
  WriteTimeout = 3
  ShutdownTimeout = 2
  NewGrace = 1
INVARIANTS
  LogTellsClient
  RoutedRight
  KilledAreSlow
PROPERTIES
  Stops
CHECK_DEADLOCK FALSE
