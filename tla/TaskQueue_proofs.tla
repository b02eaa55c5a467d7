--------------------------- MODULE TaskQueue_proofs ---------------------------
(***************************************************************************)
(* Facts about the operations of TaskQueue: each keeps the queue typed,    *)
(* and each says of the rows what the proofs about the workers need.       *)
(***************************************************************************)
EXTENDS TaskQueue, TLAPS

LEMMA LagBounds ==
  ASSUME NEW lag \in Lag
  PROVE  LeaseWindow - lag \in Floor..LeaseWindow
BY QueueAssumption DEF Lag, Floor

LEMMA ReleasedType ==
  ASSUME NEW r \in Row, NEW s \in TaskStatus
  PROVE  Released(r, s) \in Row
<1>1. Floor \in Floor..LeaseWindow
  BY QueueAssumption DEF Floor
<1> QED
  BY <1>1 DEF Released, Row

LEMMA ClaimedType ==
  ASSUME NEW r \in Row, NEW tok \in Token, NEW lag \in Lag
  PROVE  Claimed(r, tok, lag) \in Row
BY LagBounds DEF Claimed, Row, TaskStatus

LEMMA RateLimitedType ==
  ASSUME NEW r \in Row
  PROVE  RateLimited(r) \in Row
<1>1. Released(r, "queued") \in Row
  BY ReleasedType DEF TaskStatus
<1> QED
  BY <1>1 DEF RateLimited, Row

LEMMA RetriedType ==
  ASSUME NEW r \in Row
  PROVE  Retried(r) \in Row
<1>1. Released(r, "queued") \in Row
  BY ReleasedType DEF TaskStatus
<1> QED
  BY <1>1 DEF Retried, Row

LEMMA QueueInitType == QueueInit => QueueTypeOK
<1>1. Floor \in Floor..LeaseWindow
  BY QueueAssumption DEF Floor
<1>2. NewRow \in Row
  BY <1>1 DEF NewRow, Row, TaskStatus
<1> QED
  BY <1>2 DEF QueueInit, QueueTypeOK, ControlState

LEMMA ClaimType ==
  ASSUME QueueTypeOK, NEW t \in Task, NEW tok \in Token, NEW lag \in Lag,
         Claim(t, tok, lag)
  PROVE  QueueTypeOK'
BY ClaimedType DEF QueueTypeOK, Claim

LEMMA ReleaseType ==
  ASSUME QueueTypeOK, NEW t \in Task, NEW tok \in Token, NEW s \in TaskStatus,
         Release(t, tok, s)
  PROVE  QueueTypeOK'
BY ReleasedType DEF QueueTypeOK, Release

LEMMA RateLimitType ==
  ASSUME QueueTypeOK, NEW t \in Task, NEW tok \in Token,
         RequeueTaskAfterRateLimit(t, tok)
  PROVE  QueueTypeOK'
BY RateLimitedType DEF QueueTypeOK, RequeueTaskAfterRateLimit

LEMMA BeginType ==
  ASSUME QueueTypeOK, NEW t \in Task, NEW tok \in Token,
         BeginTaskExecution(t, tok)
  PROVE  QueueTypeOK'
BY DEF QueueTypeOK, BeginTaskExecution, Row

LEMMA HeartbeatType ==
  ASSUME QueueTypeOK, NEW t \in Task, NEW tok \in Token, NEW lag \in Lag,
         HeartbeatTaskLease(t, tok, lag)
  PROVE  QueueTypeOK'
BY LagBounds DEF QueueTypeOK, HeartbeatTaskLease, Row

LEMMA OperatorType ==
  ASSUME QueueTypeOK,
         \/ SetRunControlState("paused")
         \/ SetRunControlState("active")
         \/ \E lag \in Lag : CancelRunTasks(lag)
         \/ RequeueErrorTasks
         \/ ConfirmCancel
  PROVE  QueueTypeOK'
<1>1. CASE SetRunControlState("paused") \/ SetRunControlState("active") \/ ConfirmCancel
  BY <1>1 DEF QueueTypeOK, SetRunControlState, ConfirmCancel, ControlState
<1>2. CASE \E lag \in Lag : CancelRunTasks(lag)
  BY <1>2, ReleasedType DEF QueueTypeOK, CancelRunTasks, ControlState, TaskStatus
<1>3. CASE RequeueErrorTasks
  BY <1>3, RetriedType DEF QueueTypeOK, RequeueErrorTasks
<1> QED
  BY <1>1, <1>2, <1>3

LEMMA TickType ==
  ASSUME QueueTypeOK, Tick
  PROVE  QueueTypeOK'
<1>1. ASSUME NEW t \in Task, row[t].left > Floor
      PROVE  [row[t] EXCEPT !.left = @ - 1] \in Row
  BY <1>1, QueueAssumption DEF QueueTypeOK, Row, Floor
<1> QED
  BY <1>1 DEF QueueTypeOK, Tick
==============================================================================
