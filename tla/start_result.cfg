SPECIFICATION Spec
CONSTANTS
  Address = 208
  Timeout = 1
  MaxFaults = 1
  InitWeight = 1
  Resets <- Awakening
  Measurements <- Tilted
INVARIANTS
  AccessibleMeansAddressed
CHECK_DEADLOCK FALSE
