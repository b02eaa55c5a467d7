SPECIFICATION Spec
CONSTANTS
  Task = {t1}
  Worker = {w1, w2}
  NoTask = NoTask
  Token = {1, 2, 3, 4}
  NoToken = 0
  LeaseWindow = 1
  MaxLag = 1
  MaxAttempts = 2
  Benchmark = FALSE
  Commands = {"pause", "resume", "cancel", "retry"}
  MaxRateLimits = 1
  MaxCrashes = 1
  MaxEscapes = 1
SYMMETRY Symmetry
INVARIANTS TypeOK OneOwner RowsConsistent CountersCurrent
PROPERTIES LiveLeaseRespected BudgetRespected ImplementsLedger
