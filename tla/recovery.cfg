SPECIFICATION FairSpec
CONSTANTS
  Requests <- RecoveryRequests
  Ep1Results = {TRUE}
  MaxSetups = 3
  MaxAborts = 1
  MaxResets = 1
  MaxSuspends = 0
  MaxReports = 1
  MaxReopened = 2
PROPERTIES
  Recovers
