SPECIFICATION Spec
CONSTANTS
  Task = {t1}
  NoTask = NoTask
  Token <- MCToken
  NoToken = 0
  LeaseWindow = 0
  MaxLag = 0
  Worker = {w1, w2}
  Learner = {l1, l2}
  Text = {"x"}
  Signature = {"keys"}
  SignatureOf <- MCSignatureOf
  TipLimit = 1
  RetireUses = 1
  RetireScore <- MCRetireScore
  SignatureCap = 1
  TipCap = 2
  MaxRaw = 2
  MaxClaims = 2
  MaxTips = 2
  MaxEvents = 3
SYMMETRY Symmetry
INVARIANTS RecordsTypeOK ScoresTellUsage UsageTellsOutcome RowsHaveBundles BundlesTellRows EvidenceOrWarning
CHECK_DEADLOCK FALSE
