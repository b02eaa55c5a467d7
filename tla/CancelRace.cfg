SPECIFICATION FairSpec
CONSTANTS
  Task = {t1}
  Worker = {w1, w2}
  NoTask = NoTask
  Token = {1, 2, 3, 4}
  NoToken = 0
  LeaseWindow = 1
  MaxLag = 0
  MaxAttempts = 2
  Benchmark = FALSE
  Commands = {"cancel"}
  MaxRateLimits = 1
  MaxCrashes = 0
  MaxEscapes = 0
PROPERTIES CancelDrains
