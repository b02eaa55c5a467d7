SPECIFICATION Spec
CONSTANTS
  Task = {t1, t2}
  Reader = {r1, r2}
  Token = {k}
  NoToken = NoToken
  LeaseWindow = 0
  MaxLag = 0
  Commands = {"pause", "resume", "cancel", "retry"}
SYMMETRY Symmetry
INVARIANTS LifecycleTypeOK CanceledMeansDrained LastStatusFinal
