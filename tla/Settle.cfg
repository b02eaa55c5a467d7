SPECIFICATION FairSpec
CONSTANTS
  Task = {t1, t2}
  Worker = {w1, w2}
  NoTask = NoTask
  Token = {1, 2, 3, 4}
  NoToken = 0
  LeaseWindow = 2
  MaxLag = 1
  MaxAttempts = 2
  Benchmark = TRUE
  Commands = {}
  MaxRateLimits = 1
  MaxCrashes = 1
  MaxEscapes = 0
INVARIANTS HeartbeatKeepsOwnership
PROPERTIES EveryTaskSettles
