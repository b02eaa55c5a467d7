SPECIFICATION Spec
CONSTANTS
  Task = {t1, t2}
  Worker = {w1, w2}
  NoTask = NoTask
  Token = {1, 2, 3}
  NoToken = 0
  LeaseWindow = 0
  MaxLag = 0
  MaxAttempts = 2
  t1 = t1
  t2 = t2
  Configs <- SmallConfigs
  Commands = {"pause", "resume", "cancel", "retry"}
  MaxSessions = 2
  MaxExecutions = 2
  MaxEvents = 1
SYMMETRY Symmetry
INVARIANTS SessionTypeOK SessionsHeldOnce TurnsNumbered LinkTellsOutput ClosedCountsDone FailedTurnsEndSessions
PROPERTIES SessionsImplementLedger
