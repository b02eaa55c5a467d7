SPECIFICATION FairSpec
CONSTANTS
  Task = {t1, t2}
  NoTask = NoTask
  Token = {w1, w2}
  NoToken = NoToken
  NoThrottle = NoThrottle
  LeaseWindow = 1
  MaxLag = 0
  Desired = 3
  BaseCooldown = 1
  MaxCooldown = 2
  Hints = {1}
  Threshold = 2
  MaxConsecutive = 3
  MaxRateLimits = 3
  MaxCrashes = 1
INVARIANTS ThrottleTypeOK GiveUpLeavesNothing GiveUpAfterLimits
PROPERTIES RunResumes
