SPECIFICATION Spec
CONSTANTS
  Direct = {"auth"}
  Routed = {"opa"}
  Interval = 4
  Timeout = 2
  MaxOverlap = 2
INVARIANTS
  ShownIsRecent
PROPERTIES
  OnlyRefreshGoesBack
  UpIsShown
