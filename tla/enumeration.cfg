SPECIFICATION OrderlySpec
CONSTANTS
  Requests <- EnumerationRequests
  Ep1Results = {TRUE}
  MaxSetups = 4
  MaxAborts = 1
  MaxResets = 0
  MaxSuspends = 1
  MaxReports = 0
  MaxReopened = 2
INVARIANTS
  DataOutReady
  OneDeviceState
  ConfigurationAgrees
