SPECIFICATION FairSpec
CONSTANTS
  Address = 208
  Timeout = 1
  MaxFaults = 2
  InitWeight = 2
  Resets <- Awakening
  Measurements <- Tilted
INVARIANTS
  TypeOK
  SettingExact
  MeasurementExact
PROPERTIES
  ReadingChangesNothing
  CallsEnd
CHECK_DEADLOCK FALSE
