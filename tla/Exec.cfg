SPECIFICATION MCSpec
CONSTANTS
  worker = worker
  one = one
  Caller <- Callers
  One <- OneCallers
  NoCaller = NoCaller
  MaxCalls = 3
  MaxFaults = 1
INVARIANTS ExecTypeOK OnlyEndedCallsPublish TempsAccounted LogKeepsRows HeaderTellsRows OneToldTruth
CHECK_DEADLOCK FALSE
