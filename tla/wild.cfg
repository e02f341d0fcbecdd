SPECIFICATION Spec
CONSTANTS
  Requests <- WildRequests
  Ep1Results = {TRUE, FALSE}
  MaxSetups = 2
  MaxAborts = 1
  MaxResets = 1
  MaxSuspends = 0
  MaxReports = 3
  MaxReopened = 2
INVARIANTS
  TypeOK
  PacketsInsideDescriptor
  DataOutReady
  SomeDeviceState
  AnswerAccounted
  Ep1NotOverrun
