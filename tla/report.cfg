SPECIFICATION FairSpec
CONSTANTS
  Ep1Results = {TRUE}
  SlowGlove = TRUE
  MaxStreams = 4
  MaxSetups = 1
  MaxResets = 2
INVARIANTS
  OldReportIsSent
  NotJammed
PROPERTIES
  KeyReleased
  GestureReachesHost
  AltOutlivesTab
