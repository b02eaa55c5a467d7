SPECIFICATION Spec
CONSTANTS
  Task = {t1}
  Worker = {w1, w2}
  NoTask = NoTask
  Token = {1, 2, 3}
  NoToken = 0
  LeaseWindow = 0
  MaxLag = 0
  MaxAttempts = 2
  t1 = t1
  t2 = t2
  Configs <- OneConfig
  Commands = {}
  MaxSessions = 3
  MaxExecutions = 4
  MaxEvents = 1
PROPERTIES SessionBudgetRespected
