SPECIFICATION StoreSpec
CONSTANTS
  Workers = {w1, w2}
  MaxCrashes = 2
INVARIANTS
  StoreTypeOK
  TornOnlyByCrash
PROPERTIES
  ServesUnlessTorn
CHECK_DEADLOCK FALSE
