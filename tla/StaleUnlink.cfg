SPECIFICATION Spec
CONSTANTS
  Task = {t1}
  Worker = {w1, w2}
  NoTask = NoTask
  Token = {1, 2, 3, 4}
  NoToken = 0
  LeaseWindow = 1
  MaxLag = 1
  MaxAttempts = 2
  Benchmark = TRUE
  Commands = {}
  MaxRateLimits = 0
  MaxCrashes = 0
  MaxEscapes = 0
INVARIANTS DoneHasOutput
