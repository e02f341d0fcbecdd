SPECIFICATION FairSpec
CONSTANTS
  Requests <- PatientRequests
  Ep1Results = {TRUE}
  MaxSetups = 3
  MaxAborts = 0
  MaxResets = 0
  MaxSuspends = 1
  MaxReports = 0
  MaxReopened = 2
INVARIANTS
  ReadIsExact
PROPERTIES
  ImplementsTransfer
  Ends
