SPECIFICATION Spec
CONSTANTS
  Ep1Results = {TRUE}
  SlowGlove = FALSE
  MaxStreams = 2
  MaxSetups = 0
  MaxResets = 0
INVARIANTS
  OldReportIsSent
