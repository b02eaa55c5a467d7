-------------------------- MODULE FarmWorkers_proofs --------------------------
(***************************************************************************)
(* Theorems about FarmWorkers for every set of tasks, workers and tokens,  *)
(* every lease window and every budget.                                    *)
(*                                                                         *)
(* The proofs go in layers.  The first invariant is type correctness with  *)
(* the shape of a worker's claim; each later one assumes the layers below. *)
(***************************************************************************)
EXTENDS FarmWorkers, TaskQueue_proofs

Idle == {"top", "gone"}

(* A worker has a task and a token in every phase but the idle ones, where  *)
(* it has neither and no heartbeat runs.                                    *)
ClaimsHeld ==
  \A w \in Worker :
    IF worker[w].phase \in Idle
    THEN worker[w].task = NoTask /\ worker[w].token = NoToken /\ ~worker[w].beating
    ELSE worker[w].task \in Task /\ worker[w].token \in Token

TypeInv == TypeOK /\ ClaimsHeld

(* Two claims on the same task have different tokens. *)
ClaimsDistinct ==
  \A v, w \in Worker :
    /\ worker[v].task # NoTask
    /\ worker[v].task = worker[w].task
    /\ worker[v].token = worker[w].token
    => v = w

------------------------------------------------------------------------------
(* What the moves of a worker do to its record. *)

LEMMA HoldingType ==
  ASSUME NEW p \in Phase
  PROVE  Holding(p) \in WorkerState
BY DEF Holding, WorkerState

(* A worker that becomes idle drops its claim. *)
LEMMA BecomeIdle ==
  ASSUME NEW w \in Worker, NEW p \in Idle,
         worker \in [Worker -> WorkerState], ClaimsHeld,
         worker' = [worker EXCEPT ![w] = Holding(p)]
  PROVE  worker' \in [Worker -> WorkerState] /\ ClaimsHeld'
<1>1. p \in Phase
  BY DEF Idle, Phase
<1>2. Holding(p) \in WorkerState
  BY <1>1, HoldingType
<1> QED
  BY <1>2 DEF ClaimsHeld, Holding

(* A worker that holds a claim keeps it when it goes to another busy phase. *)
LEMMA GotoBusy ==
  ASSUME NEW w \in Worker, NEW p \in Phase \ Idle,
         worker \in [Worker -> WorkerState], ClaimsHeld,
         worker[w].phase \notin Idle,
         Goto(w, p)
  PROVE  worker' \in [Worker -> WorkerState] /\ ClaimsHeld'
BY DEF Goto, ClaimsHeld, WorkerState

LEMMA LoopTopType ==
  ASSUME NEW w \in Worker,
         worker \in [Worker -> WorkerState], ClaimsHeld,
         LoopTop(w)
  PROVE  worker' \in [Worker -> WorkerState] /\ ClaimsHeld'
BY BecomeIdle DEF LoopTop, Idle

LEMMA FreshToken ==
  ASSUME NEW t \in Task, Fresh(t) # {}
  PROVE  /\ (CHOOSE k \in Fresh(t) : TRUE) \in Token
         /\ ~InUse(t, CHOOSE k \in Fresh(t) : TRUE)
BY DEF Fresh

------------------------------------------------------------------------------
(* Type correctness, one lemma for the steps of a worker and one for the rest. *)

LEMMA WorkType ==
  ASSUME TypeInv, NEW w \in Worker, Work(w)
  PROVE  TypeInv'
<1> USE DEF TypeInv, TypeOK, NoFault
<1>0. worker[w].phase \notin Idle => worker[w].task \in Task /\ worker[w].token \in Token
  BY DEF ClaimsHeld
<1>1. CASE LeaseOneTask(w)
  <2>1. PICK t \in Task, lag \in Lag :
          /\ Fresh(t) # {}
          /\ Claim(t, CHOOSE k \in Fresh(t) : TRUE, lag)
          /\ worker' = [worker EXCEPT ![w] =
                          [phase |-> "claimed", task |-> t,
                           token |-> CHOOSE k \in Fresh(t) : TRUE,
                           execs |-> row[t].execs, limited |-> row[t].limited,
                           beating |-> TRUE]]
    BY <1>1 DEF LeaseOneTask
  <2> DEFINE tok == CHOOSE k \in Fresh(t) : TRUE
  <2>2. tok \in Token
    BY <2>1, FreshToken
  <2> HIDE DEF tok
  <2>3. QueueTypeOK'
    BY <2>1, <2>2, ClaimType DEF tok
  <2>4. row[t].execs \in Nat /\ row[t].limited \in Nat
    BY DEF QueueTypeOK, Row
  <2>5. worker' = [worker EXCEPT ![w] =
                     [phase |-> "claimed", task |-> t, token |-> tok,
                      execs |-> row[t].execs, limited |-> row[t].limited,
                      beating |-> TRUE]]
    BY <2>1 DEF tok
  <2>6. worker' \in [Worker -> WorkerState]
    BY <2>2, <2>4, <2>5 DEF WorkerState, Phase
  <2>7. ClaimsHeld'
    BY <2>2, <2>5 DEF ClaimsHeld, Idle
  <2> QED
    BY <1>1, <2>3, <2>6, <2>7 DEF LeaseOneTask
<1>2. CASE Leave(w)
  <2>1. worker' \in [Worker -> WorkerState]
    BY <1>2 DEF Leave, Goto, WorkerState, Phase
  <2>2. ClaimsHeld'
    BY <1>2 DEF Leave, Goto, At, ClaimsHeld, Idle, WorkerState
  <2> QED
    BY <1>2, <2>1, <2>2 DEF Leave, queueVars, QueueTypeOK
<1>3. CASE BudgetGuard(w) \/ PreflightError(w) \/ ExecutionFailsForGood(w) \/ AttemptsExhausted(w)
  <2>1. MarkTaskError(worker[w].task, worker[w].token) /\ LoopTop(w) /\ UNCHANGED <<final, crashes, escapes>>
    BY <1>3 DEF BudgetGuard, PreflightError, ExecutionFailsForGood, AttemptsExhausted
  <2>2. worker[w].phase \notin Idle
    BY <1>3 DEF BudgetGuard, PreflightError, ExecutionFailsForGood, AttemptsExhausted, At, Idle
  <2>3. QueueTypeOK'
    BY <1>0, <2>1, <2>2, ReleaseType DEF MarkTaskError, TaskStatus
  <2> QED
    BY <2>1, <2>3, LoopTopType
<1>4. CASE StartExecution(w)
  <2>1. worker[w].phase \notin Idle
    BY <1>4 DEF StartExecution, At, Idle
  <2>2. CASE /\ BeginTaskExecution(worker[w].task, worker[w].token)
             /\ worker' = [worker EXCEPT ![w].phase = "executing",
                                         ![w].execs = row[worker[w].task].execs + 1]
    <3>1. row[worker[w].task].execs + 1 \in Nat
      BY <1>0, <2>1 DEF QueueTypeOK, Row
    <3> DEFINE r == [worker[w] EXCEPT !.phase = "executing",
                                      !.execs = row[worker[w].task].execs + 1]
    <3>5. r \in WorkerState
      BY <3>1 DEF WorkerState, Phase
    <3>6. worker' = [worker EXCEPT ![w] = r]
      BY <2>2
    <3>2. worker' \in [Worker -> WorkerState]
      BY <3>5, <3>6
    <3>3. ClaimsHeld'
      BY <1>0, <2>1, <2>2 DEF ClaimsHeld, Idle, WorkerState
    <3>4. QueueTypeOK'
      BY <1>0, <2>1, <2>2, BeginType
    <3> QED
      BY <1>4, <3>2, <3>3, <3>4 DEF StartExecution
  <2>3. CASE LoopTop(w) /\ UNCHANGED queueVars
    BY <1>4, <2>3, LoopTopType DEF StartExecution, queueVars, QueueTypeOK
  <2> QED
    BY <1>4, <2>2, <2>3 DEF StartExecution
<1>5. CASE ExecutionSucceeds(w)
  BY <1>5, GotoBusy DEF ExecutionSucceeds, At, Idle, Phase, queueVars, QueueTypeOK
<1>6. CASE ExecutionFails(w)
  BY <1>6, GotoBusy DEF ExecutionFails, Idle, Phase, queueVars, QueueTypeOK
<1>13. CASE CommitFails(w)
  BY <1>13, GotoBusy DEF CommitFails, Idle, Phase, QueueTypeOK
<1>7. CASE ExecutionRateLimited(w)
  <2>1. QueueTypeOK'
    BY <1>0, <1>7, RateLimitType DEF ExecutionRateLimited, At, Idle
  <2>2. worker' \in [Worker -> WorkerState] /\ ClaimsHeld'
    BY <1>7, BecomeIdle DEF ExecutionRateLimited, Idle
  <2> QED
    BY <1>7, <2>1, <2>2 DEF ExecutionRateLimited
<1>8. CASE PromoteReplace(w)
  <2>1. worker[w].task \in Task /\ worker[w].token \in Token
    BY <1>0, <1>8 DEF PromoteReplace, At, Idle
  <2>2. CASE OwnsClaim(w)
    BY <1>8, <2>1, <2>2, GotoBusy DEF PromoteReplace, At, Idle, Phase, QueueTypeOK
  <2>3. CASE ~OwnsClaim(w)
    BY <1>8, <2>1, <2>3, LoopTopType DEF PromoteReplace, QueueTypeOK
  <2> QED
    BY <2>2, <2>3
<1>9. CASE PromoteCommit(w)
  <2>1. worker[w].task \in Task /\ worker[w].token \in Token
    BY <1>0, <1>9 DEF PromoteCommit, At, Idle
  <2>2. CASE Benchmark
    BY <1>9, <2>1, <2>2, GotoBusy DEF PromoteCommit, At, Idle, Phase, QueueTypeOK
  <2>3. CASE ~Benchmark
    <3>1. QueueTypeOK'
      <4>1. /\ row \in [Task -> Row] /\ control \in ControlState /\ UNCHANGED control /\ locked' = FALSE
            /\ row' = [row EXCEPT ![worker[w].task] = Released(@, "done")]
        BY <1>9, <2>3 DEF PromoteCommit, QueueTypeOK
      <4>2. Released(row[worker[w].task], "done") \in Row
        BY <4>1, <2>1, ReleasedType DEF TaskStatus
      <4> QED
        BY <4>1, <4>2, <2>1 DEF QueueTypeOK
    <3> QED
      BY <1>9, <2>3, <3>1, LoopTopType DEF PromoteCommit
  <2> QED
    BY <2>2, <2>3
<1>10. CASE ArtifactsWritten(w) \/ CancelAfterFailure(w) \/ RequeueAfterFailure(w)
  <2>1. /\ \E s \in TaskStatus : Release(worker[w].task, worker[w].token, s)
        /\ LoopTop(w)
        /\ UNCHANGED <<final, crashes, escapes>>
    BY <1>10 DEF ArtifactsWritten, CancelAfterFailure, RequeueAfterFailure,
                 MarkTaskDone, MarkTaskCanceled, RequeueTask, TaskStatus
  <2>2. worker[w].phase \notin Idle
    BY <1>10 DEF ArtifactsWritten, CancelAfterFailure, RequeueAfterFailure, At, Idle
  <2>3. QueueTypeOK'
    BY <1>0, <2>1, <2>2, ReleaseType
  <2> QED
    BY <2>1, <2>3, LoopTopType
<1>11. CASE ArtifactsFail(w)
  <2>1. worker' \in [Worker -> WorkerState] /\ ClaimsHeld'
    BY <1>11, GotoBusy DEF ArtifactsFail, At, Idle, Phase
  <2> QED
    BY <1>11, <2>1 DEF ArtifactsFail, queueVars, QueueTypeOK
<1>12. CASE ReadControlState(w)
  <2>1. worker' \in [Worker -> WorkerState] /\ ClaimsHeld'
    BY <1>12, GotoBusy DEF ReadControlState, At, Idle, Phase
  <2> QED
    BY <1>12, <2>1 DEF ReadControlState, queueVars, QueueTypeOK
<1> QED
  BY <1>1, <1>2, <1>3, <1>4, <1>5, <1>6, <1>7, <1>8, <1>9, <1>10, <1>11, <1>12, <1>13 DEF Work

LEMMA OtherType ==
  ASSUME TypeInv, [Next]_vars,
         ~ \E w \in Worker : Work(w)
  PROVE  TypeInv'
<1> USE DEF TypeInv, TypeOK, NoFault
<1>1. ASSUME NEW w \in Worker, Heartbeat(w)
      PROVE  TypeInv'
  <2>1. worker[w].task \in Task /\ worker[w].token \in Token
    BY <1>1 DEF Heartbeat, ClaimsHeld
  <2>2. CASE /\ \E lag \in Lag : HeartbeatTaskLease(worker[w].task, worker[w].token, lag)
             /\ UNCHANGED worker
    BY <1>1, <2>1, <2>2, HeartbeatType DEF Heartbeat, ClaimsHeld
  <2>3. CASE worker' = [worker EXCEPT ![w].beating = FALSE] /\ UNCHANGED queueVars
    <3>1. worker' \in [Worker -> WorkerState]
      BY <2>3 DEF WorkerState
    <3>2. ClaimsHeld'
      BY <2>3 DEF ClaimsHeld, WorkerState
    <3> QED
      BY <1>1, <2>3, <3>1, <3>2 DEF Heartbeat, queueVars, QueueTypeOK
  <2> QED
    BY <1>1, <2>2, <2>3 DEF Heartbeat
<1>2. ASSUME NEW w \in Worker, Escape(w)
      PROVE  TypeInv'
  <2>1. worker' \in [Worker -> WorkerState] /\ ClaimsHeld'
    BY <1>2, GotoBusy DEF Escape, Idle, Phase
  <2>2. escapes' \in 0..MaxEscapes
    BY <1>2, WorkerAssumption DEF Escape
  <2> QED
    BY <1>2, <2>1, <2>2 DEF Escape, queueVars, QueueTypeOK
<1>3. ASSUME NEW w \in Worker, Crash(w)
      PROVE  TypeInv'
  <2>1. worker' \in [Worker -> WorkerState] /\ ClaimsHeld'
    BY <1>3, BecomeIdle DEF Crash, Idle
  <2>2. crashes' \in 0..MaxCrashes
    BY <1>3, WorkerAssumption DEF Crash
  <2> QED
    BY <1>3, <2>1, <2>2 DEF Crash, QueueTypeOK
<1>4. ASSUME NEW w \in Worker, Start(w)
      PROVE  TypeInv'
  BY <1>4, LoopTopType DEF Start, queueVars, QueueTypeOK
<1>5. ASSUME Operator
      PROVE  TypeInv'
  <2>1. QueueTypeOK'
    BY <1>5, OperatorType DEF Operator
  <2> QED
    BY <1>5, <2>1 DEF Operator, ClaimsHeld
<1>6. ASSUME Time
      PROVE  TypeInv'
  BY <1>6, TickType DEF Time, ClaimsHeld
<1>7. ASSUME UNCHANGED vars
      PROVE  TypeInv'
  BY <1>7 DEF vars, QueueTypeOK, ClaimsHeld
<1> QED
  BY <1>1, <1>2, <1>3, <1>4, <1>5, <1>6, <1>7 DEF Next

LEMMA TypeStep == TypeInv /\ [Next]_vars => TypeInv'
BY WorkType, OtherType

LEMMA TypeInit == Init => TypeInv
<1> SUFFICES ASSUME Init
             PROVE  TypeInv
  OBVIOUS
<1>1. worker \in [Worker -> WorkerState] /\ ClaimsHeld
  BY DEF Init, Holding, WorkerState, Phase, ClaimsHeld, Idle
<1> QED
  BY <1>1, QueueInitType, WorkerAssumption DEF Init, TypeInv, TypeOK

(* Every reachable state is typed, and a worker that is busy holds a claim  *)
(* on a task of the run.                                                    *)
THEOREM TypeCorrect == Spec => [](TypeOK /\ ClaimsHeld)
BY TypeInit, TypeStep, PTL DEF Spec, TypeInv

------------------------------------------------------------------------------
(* How a step moves the workers: claims are taken only by LeaseOneTask, and *)
(* each phase on the way to an output is entered by one action.             *)

LEMMA Moves ==
  ASSUME TypeInv, [Next]_vars, NEW v \in Worker
  PROVE  /\ \/ LeaseOneTask(v)
            \/ worker'[v].task = worker[v].task /\ worker'[v].token = worker[v].token
            \/ worker'[v].task = NoTask
         /\ At(v, "executing")' => At(v, "executing") \/ StartExecution(v)
         /\ At(v, "replaced")' => At(v, "replaced") \/ PromoteReplace(v)
         /\ At(v, "published")' => At(v, "published") \/ PromoteCommit(v)
<1> USE DEF TypeInv, TypeOK, WorkerState, At
<1>1. ASSUME NEW w \in Worker, Work(w), v # w
      PROVE  worker'[v] = worker[v]
  BY <1>1 DEF Work, LeaseOneTask, Leave, BudgetGuard, PreflightError, StartExecution,
       ExecutionSucceeds, ExecutionFails, ExecutionFailsForGood, ExecutionRateLimited,
       PromoteReplace, PromoteCommit, CommitFails, ArtifactsWritten, ArtifactsFail, AttemptsExhausted,
       ReadControlState, CancelAfterFailure, RequeueAfterFailure, LoopTop, Goto
<1>2. ASSUME Work(v), ~LeaseOneTask(v)
      PROVE  \/ worker'[v].task = worker[v].task /\ worker'[v].token = worker[v].token
             \/ worker'[v].task = NoTask
  BY <1>2 DEF Work, Leave, BudgetGuard, PreflightError, StartExecution,
       ExecutionSucceeds, ExecutionFails, ExecutionFailsForGood, ExecutionRateLimited,
       PromoteReplace, PromoteCommit, CommitFails, ArtifactsWritten, ArtifactsFail, AttemptsExhausted,
       ReadControlState, CancelAfterFailure, RequeueAfterFailure, LoopTop, Goto, Holding
<1>3. ASSUME Work(v)
      PROVE  /\ worker'[v].phase = "executing" => StartExecution(v)
             /\ worker'[v].phase = "replaced" => PromoteReplace(v)
             /\ worker'[v].phase = "published" => PromoteCommit(v)
  <2>1. CASE LeaseOneTask(v) \/ Leave(v) \/ BudgetGuard(v) \/ PreflightError(v)
    BY <2>1 DEF LeaseOneTask, Leave, BudgetGuard, PreflightError, LoopTop, Goto, Holding
  <2>2. CASE StartExecution(v) \/ PromoteReplace(v) \/ PromoteCommit(v)
    BY <2>2 DEF StartExecution, PromoteReplace, PromoteCommit, LoopTop, Goto, Holding
  <2>3. CASE \/ ExecutionSucceeds(v) \/ ExecutionFails(v) \/ ExecutionFailsForGood(v)
             \/ ExecutionRateLimited(v) \/ CommitFails(v) \/ ArtifactsWritten(v) \/ ArtifactsFail(v)
             \/ AttemptsExhausted(v) \/ ReadControlState(v) \/ CancelAfterFailure(v)
             \/ RequeueAfterFailure(v)
    BY <2>3 DEF ExecutionSucceeds, ExecutionFails, ExecutionFailsForGood,
         ExecutionRateLimited, CommitFails, ArtifactsWritten, ArtifactsFail, AttemptsExhausted,
         ReadControlState, CancelAfterFailure, RequeueAfterFailure, LoopTop, Goto, Holding
  <2> QED
    BY <1>3, <2>1, <2>2, <2>3 DEF Work
<1>4. ASSUME NEW w \in Worker, Heartbeat(w) \/ Escape(w) \/ Crash(w) \/ Start(w)
      PROVE  /\ \/ worker'[v].task = worker[v].task /\ worker'[v].token = worker[v].token
                \/ worker'[v].task = NoTask
             /\ \/ worker'[v].phase = worker[v].phase
                \/ worker'[v].phase \in {"top", "gone", "dead"}
  <2>1. CASE Heartbeat(w)
    BY <2>1 DEF Heartbeat
  <2>2. CASE Escape(w)
    BY <2>2 DEF Escape, Goto
  <2>3. CASE Crash(w) \/ Start(w)
    <3>1. PICK p \in {"top", "gone"} : worker' = [worker EXCEPT ![w] = Holding(p)]
      BY <2>3 DEF Crash, Start, LoopTop
    <3> QED
      BY <3>1 DEF Holding
  <2> QED
    BY <1>4, <2>1, <2>2, <2>3
<1>5. ASSUME Operator \/ Time \/ UNCHANGED vars
      PROVE  worker' = worker
  BY <1>5 DEF Operator, Time, vars
<1>6. \/ \E w \in Worker : Work(w)
      \/ \E w \in Worker : Heartbeat(w) \/ Escape(w) \/ Crash(w) \/ Start(w)
      \/ Operator \/ Time \/ UNCHANGED vars
  BY DEF Next
<1> HIDE DEF TypeInv, TypeOK, WorkerState
<1> QED
  BY <1>1, <1>2, <1>3, <1>4, <1>5, <1>6

------------------------------------------------------------------------------
(* No two workers hold the same claim, hence no two own the same task. *)

LEMMA DistinctStep == TypeInv /\ ClaimsDistinct /\ [Next]_vars => ClaimsDistinct'
<1> SUFFICES ASSUME TypeInv, ClaimsDistinct, [Next]_vars,
                    NEW v \in Worker, NEW w \in Worker,
                    worker'[v].task # NoTask,
                    worker'[v].task = worker'[w].task,
                    worker'[v].token = worker'[w].token
             PROVE  v = w
  BY DEF ClaimsDistinct
<1>1. ASSUME NEW u \in Worker, NEW x \in Worker, u # x, LeaseOneTask(u),
             worker'[u].task = worker'[x].task, worker'[u].token = worker'[x].token
      PROVE  FALSE
  <2>1. PICK t \in Task :
          /\ Fresh(t) # {}
          /\ worker' = [worker EXCEPT ![u] =
                          [phase |-> "claimed", task |-> t,
                           token |-> CHOOSE k \in Fresh(t) : TRUE,
                           execs |-> row[t].execs, limited |-> row[t].limited,
                           beating |-> TRUE]]
    BY <1>1 DEF LeaseOneTask
  <2>2. /\ worker'[u].task = t
        /\ worker'[u].token = CHOOSE k \in Fresh(t) : TRUE
        /\ worker'[x] = worker[x]
    BY <1>1, <2>1 DEF TypeInv, TypeOK
  <2>3. ~InUse(t, worker'[u].token)
    BY <2>1, <2>2, FreshToken
  <2> QED
    BY <1>1, <2>2, <2>3 DEF InUse
<1>2. CASE LeaseOneTask(v) \/ LeaseOneTask(w)
  BY <1>1, <1>2
<1>3. CASE ~LeaseOneTask(v) /\ ~LeaseOneTask(w)
  BY <1>3, Moves DEF ClaimsDistinct
<1> QED
  BY <1>2, <1>3

LEMMA OwnersDistinct == TypeInv /\ ClaimsDistinct => OneOwner
BY DEF TypeInv, ClaimsDistinct, OneOwner, OwnsClaim, Owns

(* No two workers ever own the same task (the lease_token guard of db.py).  *)
THEOREM OneOwnerAlways == Spec => []OneOwner
<1>1. Init => ClaimsDistinct
  BY DEF Init, ClaimsDistinct, Holding
<1>2. Spec => []TypeInv
  BY TypeCorrect DEF TypeInv
<1> QED
  BY <1>1, <1>2, DistinctStep, OwnersDistinct, PTL DEF Spec

------------------------------------------------------------------------------
(* Safety beyond ownership: promotions, what a step can do to a row, the    *)
(* counters, and from these the attempt budget, live leases and the ledger. *)

(* A promotion that has replaced the file holds the write lock alone, still *)
(* owns the task, and its file is the output.                               *)
PromotionHeld ==
  /\ \A w \in Worker : At(w, "replaced") => locked /\ OwnsClaim(w)
  /\ \A v, w \in Worker : At(v, "replaced") /\ At(w, "replaced") => v = w
  /\ \A w \in Worker : At(w, "published") => Benchmark
  /\ \A w \in Worker : At(w, "replaced") /\ ~Benchmark
                       => final[worker[w].task] = worker[w].token

(* An execution in progress is not counted as rate limited yet. *)
ExecutionUncounted ==
  \A w \in Worker :
    OwnsClaim(w) /\ At(w, "executing")
    => row[worker[w].task].limited < row[worker[w].task].execs

------------------------------------------------------------------------------
(* While the write lock is held only the commit or the end of the promotion *)
(* that holds it changes anything the promotion relies on.                  *)

RowKept(t) ==
  /\ row'[t].status = row[t].status
  /\ row'[t].token = row[t].token
  /\ row'[t].execs = row[t].execs
  /\ row'[t].limited = row[t].limited
  /\ row[t].status # "running" /\ row[t].left = Floor => row'[t].left = Floor

LEMMA GotoOnly ==
  ASSUME TypeInv, NEW w \in Worker, NEW p, Goto(w, p)
  PROVE  /\ worker'[w] = [worker[w] EXCEPT !.phase = p]
         /\ worker'[w].phase = p
         /\ worker'[w].task = worker[w].task
         /\ worker'[w].token = worker[w].token
         /\ worker'[w].execs = worker[w].execs
         /\ worker'[w].limited = worker[w].limited
         /\ \A v \in Worker : v # w => worker'[v] = worker[v]
BY DEF Goto, TypeInv, TypeOK, WorkerState

LEMMA LoopTopOnly ==
  ASSUME TypeInv, NEW w \in Worker, LoopTop(w)
  PROVE  /\ worker'[w] = Holding("top")
         /\ \A v \in Worker : v # w => worker'[v] = worker[v]
BY DEF LoopTop, TypeInv, TypeOK

LEMMA TickKeeps ==
  ASSUME TypeInv, Tick, NEW t \in Task
  PROVE  RowKept(t)
<1>1. row[t] \in Row
  BY DEF TypeInv, TypeOK, QueueTypeOK
<1>2. row'[t] = IF row[t].left > Floor THEN [row[t] EXCEPT !.left = @ - 1] ELSE row[t]
  BY DEF Tick
<1> QED
  BY <1>1, <1>2 DEF RowKept, Row

LEMMA LockedStep ==
  ASSUME TypeInv, locked, [Next]_vars
  PROVE  \/ \E v \in Worker : PromoteCommit(v)
         \/ \E v \in Worker : (Crash(v) \/ CommitFails(v)) /\ At(v, "replaced")
         \/ /\ locked'
            /\ \A t \in Task : RowKept(t)
            /\ final' = final \/ \E v \in Worker : At(v, "published")
<1> DEFINE Kept == /\ locked'
                   /\ \A t \in Task : RowKept(t)
                   /\ final' = final \/ \E v \in Worker : At(v, "published")
<1>1. ASSUME NEW w \in Worker, Work(w), ~PromoteCommit(w),
             ~(CommitFails(w) /\ At(w, "replaced"))
      PROVE  Kept
  <2>1. CASE \/ LeaseOneTask(w) \/ BudgetGuard(w) \/ PreflightError(w) \/ StartExecution(w)
             \/ ExecutionFailsForGood(w) \/ ExecutionRateLimited(w) \/ PromoteReplace(w)
             \/ ArtifactsWritten(w) \/ AttemptsExhausted(w) \/ CancelAfterFailure(w)
             \/ RequeueAfterFailure(w)
    BY <2>1 DEF LeaseOneTask, Claim, BudgetGuard, PreflightError, StartExecution,
         BeginTaskExecution, ExecutionFailsForGood, ExecutionRateLimited,
         RequeueTaskAfterRateLimit, PromoteReplace, ArtifactsWritten, AttemptsExhausted,
         CancelAfterFailure, RequeueAfterFailure, MarkTaskDone, MarkTaskError,
         MarkTaskCanceled, RequeueTask, Release
  <2>2. CASE \/ Leave(w) \/ ExecutionSucceeds(w) \/ ExecutionFails(w)
             \/ ArtifactsFail(w) \/ ReadControlState(w)
    BY <2>2 DEF Leave, ExecutionSucceeds, ExecutionFails, ArtifactsFail, ReadControlState,
         queueVars, RowKept
  <2>3. CASE CommitFails(w)
    BY <1>1, <2>3 DEF CommitFails, RowKept
  <2> QED
    BY <1>1, <2>1, <2>2, <2>3 DEF Work
<1>2. ASSUME NEW w \in Worker, Heartbeat(w) \/ Escape(w) \/ Start(w)
      PROVE  Kept
  BY <1>2 DEF Heartbeat, HeartbeatTaskLease, Escape, Start, queueVars, RowKept
<1>3. ASSUME NEW w \in Worker, Crash(w), ~At(w, "replaced")
      PROVE  Kept
  BY <1>3 DEF Crash, RowKept
<1>4. ASSUME Operator
      PROVE  Kept
  BY <1>4 DEF Operator, SetRunControlState, CancelRunTasks, RequeueErrorTasks, ConfirmCancel
<1>5. ASSUME Time
      PROVE  Kept
  BY <1>5, TickKeeps DEF Time, Tick
<1>6. ASSUME UNCHANGED vars
      PROVE  Kept
  BY <1>6 DEF vars, RowKept
<1> HIDE DEF Kept
<1>7. \/ Kept
      \/ \E v \in Worker : PromoteCommit(v)
      \/ \E v \in Worker : (Crash(v) \/ CommitFails(v)) /\ At(v, "replaced")
  BY <1>1, <1>2, <1>3, <1>4, <1>5, <1>6 DEF Next
<1> QED
  BY <1>7 DEF Kept

LEMMA PromotionStep == TypeInv /\ PromotionHeld /\ [Next]_vars => PromotionHeld'
<1> SUFFICES ASSUME TypeInv, PromotionHeld, [Next]_vars
             PROVE  PromotionHeld'
  OBVIOUS
<1> USE DEF At
<1>0. TypeInv'
  BY TypeStep
<1>1. ASSUME NEW w \in Worker, At(w, "replaced"), At(w, "replaced")'
      PROVE  /\ locked' /\ OwnsClaim(w)'
             /\ ~Benchmark => final'[worker'[w].task] = worker'[w].token
  <2>1. locked /\ OwnsClaim(w)
    BY <1>1 DEF PromotionHeld
  <2>2. worker'[w].task \in Task
    BY <1>0, <1>1 DEF TypeInv, ClaimsHeld, Idle
  <2>3. worker'[w].task = worker[w].task /\ worker'[w].token = worker[w].token
    BY <1>1, <2>2, Moves, WorkerAssumption DEF LeaseOneTask
  <2>4. ASSUME NEW v \in Worker, PromoteCommit(v)
        PROVE  FALSE
    <3>1. v = w
      BY <1>1, <2>4 DEF PromoteCommit, PromotionHeld
    <3>2. Goto(w, "published") \/ LoopTop(w)
      BY <2>4, <3>1 DEF PromoteCommit
    <3> QED
      <4>1. CASE Goto(w, "published")
        <5>1. worker'[w].phase = "published"
          BY <4>1, GotoOnly
        <5> QED
          BY <1>1, <5>1
      <4>2. CASE LoopTop(w)
        <5>1. worker'[w] = Holding("top")
          BY <4>2, LoopTopOnly
        <5> QED
          BY <1>1, <5>1 DEF Holding
      <4> QED
        BY <3>2, <4>1, <4>2
  <2>5. ASSUME NEW v \in Worker, Crash(v) \/ CommitFails(v), At(v, "replaced")
        PROVE  FALSE
    <3>1. v = w
      BY <1>1, <2>5 DEF PromotionHeld
    <3>2. CASE Crash(w)
      BY <1>1, <3>2 DEF Crash, Holding, TypeInv, TypeOK
    <3>3. CASE CommitFails(w)
      <4>1. worker'[w].phase = "failed"
        BY <3>3, GotoOnly DEF CommitFails
      <4> QED
        BY <1>1, <4>1
    <3> QED
      BY <2>5, <3>1, <3>2, <3>3
  <2>6. /\ locked'
        /\ RowKept(worker[w].task)
        /\ final' = final \/ Benchmark
    BY <2>1, <2>2, <2>3, <2>4, <2>5, LockedStep DEF PromotionHeld
  <2> QED
    BY <1>1, <2>1, <2>3, <2>6 DEF OwnsClaim, Owns, RowKept, PromotionHeld
<1>2. ASSUME NEW w \in Worker, PromoteReplace(w), At(w, "replaced")'
      PROVE  /\ ~locked /\ At(w, "valid")
             /\ locked' /\ OwnsClaim(w)'
             /\ final'[worker'[w].task] = worker'[w].token
             /\ \A v \in Worker : v # w => worker'[v] = worker[v]
  <2>1. OwnsClaim(w)
    BY <1>2 DEF PromoteReplace, LoopTop, Holding, TypeInv, TypeOK
  <2>2. /\ ~locked /\ At(w, "valid")
        /\ locked' /\ row' = row
        /\ final' = [final EXCEPT ![worker[w].task] = worker[w].token]
        /\ worker' = [worker EXCEPT ![w].phase = "replaced"]
    BY <1>2, <2>1 DEF PromoteReplace, Goto
  <2>3. worker'[w].task = worker[w].task /\ worker'[w].token = worker[w].token
    BY <2>2 DEF TypeInv, TypeOK, WorkerState
  <2>4. worker[w].task \in Task
    BY <2>1 DEF OwnsClaim, TypeInv, TypeOK, WorkerState
  <2> QED
    BY <2>1, <2>2, <2>3, <2>4 DEF OwnsClaim, Owns, TypeInv, TypeOK
<1>3. ASSUME NEW v \in Worker, NEW w \in Worker, At(v, "replaced")', At(w, "replaced")'
      PROVE  v = w
  <2>1. At(v, "replaced") \/ PromoteReplace(v)
    BY <1>3, Moves
  <2>2. At(w, "replaced") \/ PromoteReplace(w)
    BY <1>3, Moves
  <2> QED
    BY <1>2, <1>3, <2>1, <2>2 DEF PromotionHeld
<1>4. ASSUME NEW w \in Worker, At(w, "published")'
      PROVE  Benchmark
  <2>1. At(w, "published") \/ PromoteCommit(w)
    BY <1>4, Moves
  <2>2. ASSUME PromoteCommit(w), ~Benchmark
        PROVE  FALSE
    BY <1>4, <2>2 DEF PromoteCommit, LoopTop, Holding, TypeInv, TypeOK
  <2> QED
    BY <2>1, <2>2 DEF PromotionHeld
<1>5. \A w \in Worker : At(w, "replaced")' => At(w, "replaced") \/ PromoteReplace(w)
  BY Moves
<1> HIDE DEF At
<1> QED
  BY <1>1, <1>2, <1>3, <1>4, <1>5 DEF PromotionHeld

THEOREM PromotionSafe == Spec => []PromotionHeld
<1>1. Init => PromotionHeld
  BY DEF Init, PromotionHeld, At, Holding
<1>2. Spec => []TypeInv
  BY TypeCorrect DEF TypeInv
<1> QED
  BY <1>1, <1>2, PromotionStep, PTL DEF Spec

------------------------------------------------------------------------------
(* What a step does to the rows: a claim, the begin of an execution or the  *)
(* end of a claim changes one row, the operator's bulk updates several.     *)

RowClaimed(t, w) ==
  /\ row[t].status = "queued" \/ (row[t].status = "running" /\ row[t].left < 0)
  /\ worker'[w].task = t
  /\ worker'[w].token \in Token
  /\ ~InUse(t, worker'[w].token)
  /\ worker'[w].phase = "claimed"
  /\ worker'[w].execs = row[t].execs
  /\ worker'[w].limited = row[t].limited
  /\ row'[t].status = "running"
  /\ row'[t].token = worker'[w].token
  /\ row'[t].execs = row[t].execs
  /\ row'[t].limited = row[t].limited

RowBegun(t, w) ==
  /\ OwnsClaim(w)
  /\ Spent(w) < MaxAttempts
  /\ worker[w].task = t
  /\ worker'[w].task = t
  /\ worker'[w].execs = row'[t].execs
  /\ worker'[w].limited = worker[w].limited
  /\ row'[t].status = "running"
  /\ row'[t].token = row[t].token
  /\ row'[t].execs = row[t].execs + 1
  /\ row'[t].limited = row[t].limited

Emptied(t) ==
  /\ row'[t].status # "running"
  /\ row'[t].token = NoToken
  /\ row'[t].left = Floor
  /\ row'[t].execs = row[t].execs

RowEnded(t, w) ==
  /\ OwnsClaim(w)
  /\ worker[w].task = t
  /\ worker'[w].task = NoTask
  /\ Emptied(t)
  /\ \/ row'[t].limited = row[t].limited
     \/ At(w, "executing") /\ row'[t].limited = row[t].limited + 1
  /\ row'[t].status = "done" => worker[w].phase \in {"replaced", "published"}

RowCanceled(t) ==
  /\ row[t].status = "queued" \/ (row[t].status = "running" /\ row[t].left < 0)
  /\ Emptied(t)
  /\ row'[t].status = "canceled"
  /\ row'[t].limited = row[t].limited

RowRetried(t) ==
  /\ row[t].status = "error"
  /\ Emptied(t)
  /\ row'[t].status = "queued"
  /\ row'[t].limited = 0

QueueStep ==
  \/ \A t \in Task : RowKept(t)
  \/ \E t \in Task, w \in Worker :
       /\ RowClaimed(t, w) \/ RowBegun(t, w) \/ RowEnded(t, w)
       /\ \A u \in Task \ {t} : RowKept(u)
  \/ \A t \in Task : RowKept(t) \/ RowCanceled(t)
  \/ \A t \in Task : IF row[t].status = "error" THEN RowRetried(t) ELSE RowKept(t)

LEMMA ClaimStep ==
  ASSUME TypeInv, NEW w \in Worker, LeaseOneTask(w)
  PROVE  \E t \in Task : RowClaimed(t, w) /\ \A u \in Task \ {t} : RowKept(u)
<1>1. PICK t \in Task, lag \in Lag :
        /\ Fresh(t) # {}
        /\ Claim(t, CHOOSE k \in Fresh(t) : TRUE, lag)
        /\ worker' = [worker EXCEPT ![w] =
                        [phase |-> "claimed", task |-> t,
                         token |-> CHOOSE k \in Fresh(t) : TRUE,
                         execs |-> row[t].execs, limited |-> row[t].limited,
                         beating |-> TRUE]]
  BY DEF LeaseOneTask
<1> DEFINE tok == CHOOSE k \in Fresh(t) : TRUE
<1>2. tok \in Token /\ ~InUse(t, tok)
  BY <1>1, FreshToken
<1>3. Claim(t, tok, lag)
  BY <1>1
<1>4. worker'[w] = [phase |-> "claimed", task |-> t, token |-> tok,
                    execs |-> row[t].execs, limited |-> row[t].limited, beating |-> TRUE]
  BY <1>1 DEF TypeInv, TypeOK
<1> HIDE DEF tok
<1>5. row' = [row EXCEPT ![t] = Claimed(row[t], tok, lag)]
  BY <1>3 DEF Claim
<1>6. row[t] \in Row /\ row \in [Task -> Row]
  BY DEF TypeInv, TypeOK, QueueTypeOK
<1>7. /\ row'[t].status = "running"
      /\ row'[t].token = tok
      /\ row'[t].execs = row[t].execs
      /\ row'[t].limited = row[t].limited
  BY <1>5, <1>6 DEF Claimed, Row
<1>8. row[t].status = "queued" \/ (row[t].status = "running" /\ row[t].left < 0)
  <2>1. row[t].left \in Int
    BY <1>6, LagBounds DEF Row
  <2> QED
    BY <1>3, <2>1, QueueAssumption DEF Claim, Claimable, Expired, Lag
<1>9. \A u \in Task \ {t} : RowKept(u)
  BY <1>5, <1>6 DEF RowKept
<1> QED
  BY <1>2, <1>4, <1>7, <1>8, <1>9 DEF RowClaimed

LEMMA ReleaseStep ==
  ASSUME TypeInv, NEW w \in Worker,
         worker[w].task \in Task,
         worker'[w].task = NoTask,
         NEW s \in TaskStatus \ {"running"},
         Release(worker[w].task, worker[w].token, s),
         s = "done" => worker[w].phase \in {"replaced", "published"}
  PROVE  QueueStep
<1> DEFINE t == worker[w].task
<1>1. CASE ~Owns(t, worker[w].token)
  BY <1>1 DEF Release, QueueStep, RowKept
<1>2. CASE Owns(t, worker[w].token)
  <2>1. row' = [row EXCEPT ![t] = Released(row[t], s)]
    BY <1>2 DEF Release
  <2>2. row \in [Task -> Row]
    BY DEF TypeInv, TypeOK, QueueTypeOK
  <2>3. Emptied(t) /\ row'[t].limited = row[t].limited /\ row'[t].status = s
    BY <2>1, <2>2 DEF Emptied, Released, Row
  <2>4. \A u \in Task \ {t} : RowKept(u)
    BY <2>1, <2>2 DEF RowKept
  <2>5. OwnsClaim(w)
    BY <1>2, WorkerAssumption DEF OwnsClaim
  <2>6. RowEnded(t, w)
    BY <2>3, <2>5 DEF RowEnded
  <2> QED
    BY <2>4, <2>6 DEF QueueStep
<1> QED
  BY <1>1, <1>2

LEMMA RateLimitStep ==
  ASSUME TypeInv, NEW w \in Worker, ExecutionRateLimited(w)
  PROVE  QueueStep
<1> DEFINE t == worker[w].task
<1>1. t \in Task
  BY DEF ExecutionRateLimited, At, TypeInv, ClaimsHeld, Idle
<1>2. worker'[w].task = NoTask
  BY DEF ExecutionRateLimited, Holding, TypeInv, TypeOK
<1>3. RequeueTaskAfterRateLimit(t, worker[w].token)
  BY DEF ExecutionRateLimited
<1>4. CASE ~Owns(t, worker[w].token)
  BY <1>3, <1>4 DEF RequeueTaskAfterRateLimit, QueueStep, RowKept
<1>5. CASE Owns(t, worker[w].token)
  <2>1. row' = [row EXCEPT ![t] = RateLimited(row[t])]
    BY <1>3, <1>5 DEF RequeueTaskAfterRateLimit
  <2>2. row \in [Task -> Row]
    BY DEF TypeInv, TypeOK, QueueTypeOK
  <2>3. Emptied(t) /\ row'[t].limited = row[t].limited + 1 /\ row'[t].status = "queued"
    BY <1>1, <2>1, <2>2 DEF Emptied, RateLimited, Released, Row
  <2>4. \A u \in Task \ {t} : RowKept(u)
    BY <2>1, <2>2 DEF RowKept
  <2>5. RowEnded(t, w)
    BY <1>1, <1>2, <1>5, <2>3, WorkerAssumption
       DEF RowEnded, OwnsClaim, ExecutionRateLimited, At
  <2> QED
    BY <1>1, <2>4, <2>5 DEF QueueStep
<1> QED
  BY <1>4, <1>5

LEMMA BeginStep ==
  ASSUME TypeInv, NEW w \in Worker, StartExecution(w)
  PROVE  \/ worker'[w].task = NoTask /\ row' = row
         \/ /\ worker[w].task \in Task
            /\ RowBegun(worker[w].task, w)
            /\ \A u \in Task \ {worker[w].task} : RowKept(u)
<1> DEFINE t == worker[w].task
<1>1. t \in Task
  BY DEF StartExecution, At, TypeInv, ClaimsHeld, Idle
<1>2. CASE LoopTop(w) /\ row' = row
  BY <1>2, LoopTopOnly DEF Holding
<1>3. CASE /\ BeginTaskExecution(t, worker[w].token)
           /\ worker' = [worker EXCEPT ![w].phase = "executing",
                                       ![w].execs = row[t].execs + 1]
  <2>1. row \in [Task -> Row]
    BY DEF TypeInv, TypeOK, QueueTypeOK
  <2>2. row' = [row EXCEPT ![t].execs = row[t].execs + 1] /\ Owns(t, worker[w].token)
    BY <1>3 DEF BeginTaskExecution
  <2>3. row'[t] = [row[t] EXCEPT !.execs = row[t].execs + 1]
    BY <1>1, <2>1, <2>2
  <2>4. /\ row'[t].status = "running"
        /\ row'[t].token = row[t].token
        /\ row'[t].execs = row[t].execs + 1
        /\ row'[t].limited = row[t].limited
    BY <1>1, <2>1, <2>2, <2>3 DEF Row, Owns
  <2>5. \A u \in Task \ {t} : RowKept(u)
    BY <2>1, <2>2 DEF RowKept
  <2>6. /\ worker'[w].task = t
        /\ worker'[w].execs = row[t].execs + 1
        /\ worker'[w].limited = worker[w].limited
    BY <1>3 DEF TypeInv, TypeOK, WorkerState
  <2>7. Spent(w) < MaxAttempts
    BY DEF StartExecution
  <2>8. RowBegun(t, w)
    BY <1>1, <2>2, <2>4, <2>6, <2>7, WorkerAssumption DEF RowBegun, OwnsClaim
  <2> QED
    BY <1>1, <2>5, <2>8
<1> QED
  BY <1>2, <1>3 DEF StartExecution, queueVars

LEMMA CommitStep ==
  ASSUME TypeInv, PromotionHeld, NEW w \in Worker, PromoteCommit(w)
  PROVE  QueueStep
<1> DEFINE t == worker[w].task
<1>1. t \in Task
  BY DEF PromoteCommit, At, TypeInv, ClaimsHeld, Idle
<1>2. CASE Benchmark
  BY <1>2 DEF PromoteCommit, QueueStep, RowKept
<1>3. CASE ~Benchmark
  <2>1. row \in [Task -> Row]
    BY DEF TypeInv, TypeOK, QueueTypeOK
  <2>2. row' = [row EXCEPT ![t] = Released(row[t], "done")] /\ LoopTop(w)
    BY <1>3 DEF PromoteCommit
  <2>3. Emptied(t) /\ row'[t].limited = row[t].limited
    BY <1>1, <2>1, <2>2 DEF Emptied, Released, Row
  <2>4. \A u \in Task \ {t} : RowKept(u)
    BY <2>1, <2>2 DEF RowKept
  <2>5. worker'[w].task = NoTask
    BY <2>2, LoopTopOnly DEF Holding
  <2>6. OwnsClaim(w) /\ worker[w].phase = "replaced"
    BY DEF PromoteCommit, PromotionHeld, At
  <2>7. RowEnded(t, w)
    BY <2>3, <2>5, <2>6 DEF RowEnded
  <2> QED
    BY <1>1, <2>4, <2>7 DEF QueueStep
<1> QED
  BY <1>2, <1>3

LEMMA OperatorStep ==
  ASSUME TypeInv, Operator
  PROVE  QueueStep
<1>0. row \in [Task -> Row]
  BY DEF TypeInv, TypeOK, QueueTypeOK
<1>1. ASSUME NEW lag \in Lag, CancelRunTasks(lag)
      PROVE  QueueStep
  <2>1. ASSUME NEW t \in Task
        PROVE  RowKept(t) \/ RowCanceled(t)
    <3>1. row'[t] = IF row[t].status = "queued" \/ Expired(t, lag)
                    THEN Released(row[t], "canceled") ELSE row[t]
      BY <1>1 DEF CancelRunTasks
    <3>2. row[t].left \in Int
      BY <1>0, LagBounds DEF Row
    <3>3. Expired(t, lag) => row[t].status = "running" /\ row[t].left < 0
      BY <3>2, QueueAssumption DEF Expired, Lag
    <3> QED
      BY <1>0, <3>1, <3>3 DEF Released, Row, RowKept, RowCanceled, Emptied
  <2> QED
    BY <2>1 DEF QueueStep
<1>2. ASSUME RequeueErrorTasks
      PROVE  QueueStep
  <2>1. ASSUME NEW t \in Task
        PROVE  IF row[t].status = "error" THEN RowRetried(t) ELSE RowKept(t)
    <3>1. row'[t] = IF row[t].status = "error" THEN Retried(row[t]) ELSE row[t]
      BY <1>2 DEF RequeueErrorTasks
    <3> QED
      BY <1>0, <3>1 DEF Retried, Released, Row, RowKept, RowRetried, Emptied
  <2> QED
    BY <2>1 DEF QueueStep
<1>3. ASSUME row' = row
      PROVE  QueueStep
  BY <1>3 DEF QueueStep, RowKept
<1> QED
  BY <1>1, <1>2, <1>3 DEF Operator, SetRunControlState, ConfirmCancel

LEMMA HeartbeatStep ==
  ASSUME TypeInv, NEW w \in Worker, Heartbeat(w)
  PROVE  QueueStep
<1>1. CASE row' = row
  BY <1>1 DEF QueueStep, RowKept
<1>2. ASSUME NEW lag \in Lag, HeartbeatTaskLease(worker[w].task, worker[w].token, lag)
      PROVE  QueueStep
  <2> DEFINE t == worker[w].task
  <2>1. row \in [Task -> Row]
    BY DEF TypeInv, TypeOK, QueueTypeOK
  <2>2. row' = [row EXCEPT ![t].left = LeaseWindow - lag] /\ row[t].status = "running"
    BY <1>2 DEF HeartbeatTaskLease, Owns
  <2>3. ASSUME NEW u \in Task
        PROVE  RowKept(u)
    <3>1. row'[u] = IF u = t THEN [row[u] EXCEPT !.left = LeaseWindow - lag] ELSE row[u]
      BY <2>1, <2>2
    <3>2. row[u] \in Row
      BY <2>1
    <3> QED
      BY <2>2, <3>1, <3>2 DEF RowKept, Row
  <2> QED
    BY <2>3 DEF QueueStep
<1> QED
  BY <1>1, <1>2 DEF Heartbeat, queueVars

LEMMA RowStep == TypeInv /\ PromotionHeld /\ [Next]_vars => QueueStep
<1> SUFFICES ASSUME TypeInv, PromotionHeld, [Next]_vars
             PROVE  QueueStep
  OBVIOUS
<1>1. ASSUME NEW w \in Worker, Work(w)
      PROVE  QueueStep
  <2>0. worker[w].phase \notin Idle => worker[w].task \in Task
    BY DEF TypeInv, ClaimsHeld
  <2>1. CASE LeaseOneTask(w)
    BY <2>1, ClaimStep DEF QueueStep
  <2>2. CASE \/ BudgetGuard(w) \/ PreflightError(w) \/ ExecutionFailsForGood(w)
             \/ AttemptsExhausted(w) \/ ArtifactsWritten(w) \/ CancelAfterFailure(w)
             \/ RequeueAfterFailure(w)
    <3>1. LoopTop(w) /\ worker[w].phase \notin Idle
      BY <2>2 DEF BudgetGuard, PreflightError, ExecutionFailsForGood, AttemptsExhausted,
           ArtifactsWritten, CancelAfterFailure, RequeueAfterFailure, At, Idle
    <3>2. worker'[w].task = NoTask
      BY <3>1, LoopTopOnly DEF Holding
    <3>3. PICK s \in TaskStatus \ {"running"} :
            /\ Release(worker[w].task, worker[w].token, s)
            /\ s = "done" => worker[w].phase = "published"
      BY <2>2 DEF BudgetGuard, PreflightError, ExecutionFailsForGood, AttemptsExhausted,
           ArtifactsWritten, CancelAfterFailure, RequeueAfterFailure, At, TaskStatus,
           MarkTaskDone, MarkTaskError, MarkTaskCanceled, RequeueTask
    <3> QED
      BY <2>0, <3>1, <3>2, <3>3, ReleaseStep
  <2>3. CASE StartExecution(w)
    BY <2>3, BeginStep DEF QueueStep, RowKept
  <2>4. CASE ExecutionRateLimited(w)
    BY <2>4, RateLimitStep
  <2>5. CASE PromoteCommit(w)
    BY <2>5, CommitStep
  <2>6. CASE \/ Leave(w) \/ ExecutionSucceeds(w) \/ ExecutionFails(w)
             \/ PromoteReplace(w) \/ CommitFails(w) \/ ArtifactsFail(w)
             \/ ReadControlState(w)
    BY <2>6 DEF Leave, ExecutionSucceeds, ExecutionFails, PromoteReplace, CommitFails,
         ArtifactsFail, ReadControlState, queueVars, QueueStep, RowKept
  <2> QED
    BY <1>1, <2>1, <2>2, <2>3, <2>4, <2>5, <2>6 DEF Work
<1>2. ASSUME NEW w \in Worker, Heartbeat(w)
      PROVE  QueueStep
  BY <1>2, HeartbeatStep
<1>3. ASSUME NEW w \in Worker, Escape(w) \/ Crash(w) \/ Start(w)
      PROVE  QueueStep
  BY <1>3 DEF Escape, Crash, Start, queueVars, QueueStep, RowKept
<1>4. CASE Operator
  BY <1>4, OperatorStep
<1>5. CASE Time
  BY <1>5, TickKeeps DEF Time, QueueStep
<1>6. CASE UNCHANGED vars
  BY <1>6 DEF vars, QueueStep, RowKept
<1> QED
  BY <1>1, <1>2, <1>3, <1>4, <1>5, <1>6 DEF Next

------------------------------------------------------------------------------
(* The counters: rows are consistent, what a worker remembers of a task it  *)
(* owns is current, and an execution in progress is not yet counted as rate *)
(* limited.  None of the three is inductive without the others.             *)

CountersInv == RowsConsistent /\ CountersCurrent /\ ExecutionUncounted

LEMMA CountersKept ==
  ASSUME TypeInv, [Next]_vars, NEW v \in Worker
  PROVE  \/ LeaseOneTask(v)
         \/ StartExecution(v)
         \/ worker'[v].task = NoTask
         \/ worker'[v].execs = worker[v].execs /\ worker'[v].limited = worker[v].limited
<1>1. ASSUME NEW w \in Worker, Work(w), v # w
      PROVE  worker'[v] = worker[v]
  BY <1>1 DEF Work, LeaseOneTask, Leave, BudgetGuard, PreflightError, StartExecution,
       ExecutionSucceeds, ExecutionFails, ExecutionFailsForGood, ExecutionRateLimited,
       PromoteReplace, PromoteCommit, CommitFails, ArtifactsWritten, ArtifactsFail, AttemptsExhausted,
       ReadControlState, CancelAfterFailure, RequeueAfterFailure, LoopTop, Goto,
       TypeInv, TypeOK
<1>2. ASSUME Work(v), ~LeaseOneTask(v), ~StartExecution(v)
      PROVE  (\E p \in Phase : worker' = [worker EXCEPT ![v].phase = p])
             \/ \E p \in Phase : worker' = [worker EXCEPT ![v] = Holding(p)]
  BY <1>2 DEF Work, Leave, BudgetGuard, PreflightError,
       ExecutionSucceeds, ExecutionFails, ExecutionFailsForGood, ExecutionRateLimited,
       PromoteReplace, PromoteCommit, CommitFails, ArtifactsWritten, ArtifactsFail, AttemptsExhausted,
       ReadControlState, CancelAfterFailure, RequeueAfterFailure, LoopTop, Goto, Phase
<1>3. ASSUME NEW p \in Phase, worker' = [worker EXCEPT ![v].phase = p]
      PROVE  worker'[v].execs = worker[v].execs /\ worker'[v].limited = worker[v].limited
  BY <1>3 DEF TypeInv, TypeOK, WorkerState
<1>4. ASSUME NEW p \in Phase, worker' = [worker EXCEPT ![v] = Holding(p)]
      PROVE  worker'[v].task = NoTask
  BY <1>4 DEF Holding, TypeInv, TypeOK
<1>5. ASSUME NEW w \in Worker, Heartbeat(w) \/ Escape(w) \/ Crash(w) \/ Start(w)
      PROVE  \/ worker'[v].task = NoTask
             \/ worker'[v].execs = worker[v].execs /\ worker'[v].limited = worker[v].limited
  <2>1. CASE Heartbeat(w)
    BY <2>1 DEF Heartbeat, TypeInv, TypeOK, WorkerState
  <2>2. CASE Escape(w)
    BY <2>2 DEF Escape, Goto, TypeInv, TypeOK, WorkerState
  <2>3. CASE Crash(w) \/ Start(w)
    <3>1. PICK p \in Phase : worker' = [worker EXCEPT ![w] = Holding(p)]
      BY <2>3 DEF Crash, Start, LoopTop, Phase
    <3> QED
      BY <3>1 DEF Holding, TypeInv, TypeOK
  <2> QED
    BY <1>5, <2>1, <2>2, <2>3
<1>6. ASSUME Operator \/ Time \/ UNCHANGED vars
      PROVE  worker' = worker
  BY <1>6 DEF Operator, Time, vars
<1>7. \/ \E w \in Worker : Work(w)
      \/ \E w \in Worker : Heartbeat(w) \/ Escape(w) \/ Crash(w) \/ Start(w)
      \/ Operator \/ Time \/ UNCHANGED vars
  BY DEF Next
<1> QED
  BY <1>1, <1>2, <1>3, <1>4, <1>5, <1>6, <1>7

LEMMA RowsStep ==
  ASSUME TypeInv, TypeInv', CountersInv, QueueStep
  PROVE  RowsConsistent'
<1> SUFFICES ASSUME NEW t \in Task
             PROVE  /\ row'[t].status = "running" <=> row'[t].token # NoToken
                    /\ row'[t].status # "running" => row'[t].left = Floor
                    /\ row'[t].limited <= row'[t].execs
  BY DEF RowsConsistent
<1>1. /\ row[t].status = "running" <=> row[t].token # NoToken
      /\ row[t].status # "running" => row[t].left = Floor
      /\ row[t].limited <= row[t].execs
  BY DEF CountersInv, RowsConsistent
<1>2. row[t].execs \in Nat /\ row[t].limited \in Nat
  BY DEF TypeInv, TypeOK, QueueTypeOK, Row
<1>3. CASE RowKept(t)
  BY <1>1, <1>3 DEF RowKept
<1>4. ASSUME NEW w \in Worker, RowClaimed(t, w)
      PROVE  row'[t].status = "running" /\ row'[t].token # NoToken /\ row'[t].limited <= row'[t].execs
  BY <1>1, <1>4, QueueAssumption DEF RowClaimed
<1>5. ASSUME NEW w \in Worker, RowBegun(t, w)
      PROVE  row'[t].status = "running" /\ row'[t].token # NoToken /\ row'[t].limited <= row'[t].execs
  BY <1>1, <1>2, <1>5 DEF RowBegun, OwnsClaim, Owns
<1>6. ASSUME NEW w \in Worker, RowEnded(t, w)
      PROVE  Emptied(t) /\ row'[t].limited <= row'[t].execs
  BY <1>1, <1>2, <1>6 DEF RowEnded, Emptied, CountersInv, ExecutionUncounted
<1>7. CASE RowCanceled(t)
  BY <1>1, <1>7 DEF RowCanceled, Emptied
<1>8. CASE RowRetried(t)
  BY <1>2, <1>8 DEF RowRetried, Emptied
<1>9. \/ RowKept(t) \/ RowCanceled(t) \/ RowRetried(t)
      \/ \E w \in Worker : RowClaimed(t, w) \/ RowBegun(t, w) \/ RowEnded(t, w)
  BY DEF QueueStep
<1> QED
  BY <1>3, <1>4, <1>5, <1>6, <1>7, <1>8, <1>9 DEF Emptied

LEMMA CountersStep ==
  TypeInv /\ ClaimsDistinct /\ PromotionHeld /\ CountersInv /\ [Next]_vars => CountersInv'
<1> SUFFICES ASSUME TypeInv, ClaimsDistinct, PromotionHeld, CountersInv, [Next]_vars
             PROVE  CountersInv'
  OBVIOUS
<1>1. TypeInv' /\ QueueStep
  BY TypeStep, RowStep
<1>2. RowsConsistent'
  BY <1>1, RowsStep
<1>3. ASSUME NEW v \in Worker, OwnsClaim(v)'
      PROVE  /\ worker'[v].execs = row'[worker'[v].task].execs
             /\ worker'[v].limited = row'[worker'[v].task].limited
             /\ At(v, "executing")' => row'[worker'[v].task].limited < row'[worker'[v].task].execs
  <2> DEFINE t == worker'[v].task
  <2>1. /\ t \in Task
        /\ row'[t].status = "running" /\ row'[t].token = worker'[v].token
    BY <1>1, <1>3 DEF OwnsClaim, Owns, TypeInv, TypeOK, WorkerState
  <2>2. row[t].execs \in Nat /\ row[t].limited \in Nat /\ row[t].limited <= row[t].execs
    BY <2>1 DEF TypeInv, TypeOK, QueueTypeOK, Row, CountersInv, RowsConsistent
  <2>3. CASE LeaseOneTask(v)
    BY <2>3, ClaimStep DEF RowClaimed, At
  <2>4. CASE StartExecution(v)
    <3>1. RowBegun(t, v)
      BY <2>1, <2>4, BeginStep, WorkerAssumption DEF RowBegun
    <3>2. worker[v].limited = row[t].limited
      BY <3>1 DEF RowBegun, CountersInv, CountersCurrent
    <3> QED
      BY <2>2, <3>1, <3>2 DEF RowBegun
  <2>5. CASE ~LeaseOneTask(v) /\ ~StartExecution(v)
    <3>1. /\ worker[v].task = t /\ worker[v].token = worker'[v].token
          /\ worker'[v].execs = worker[v].execs
          /\ worker'[v].limited = worker[v].limited
          /\ At(v, "executing")' => At(v, "executing")
      BY <2>1, <2>5, Moves, CountersKept, WorkerAssumption
    <3>2. CASE RowKept(t)
      <4>1. OwnsClaim(v)
        BY <2>1, <3>1, <3>2, WorkerAssumption DEF RowKept, OwnsClaim, Owns
      <4> QED
        BY <3>1, <3>2, <4>1 DEF RowKept, CountersInv, CountersCurrent, ExecutionUncounted
    <3>3. ASSUME NEW w \in Worker, RowClaimed(t, w)
          PROVE  FALSE
      BY <2>1, <3>1, <3>3 DEF RowClaimed, InUse
    <3>4. ASSUME NEW w \in Worker, RowBegun(t, w)
          PROVE  /\ worker'[v].execs = row'[t].execs
                 /\ worker'[v].limited = row'[t].limited
                 /\ row'[t].limited < row'[t].execs
      <4>1. OwnsClaim(v)
        BY <2>1, <3>1, <3>4, WorkerAssumption DEF RowBegun, OwnsClaim, Owns
      <4>2. v = w
        BY <3>1, <3>4, <4>1, OwnersDistinct DEF RowBegun, OneOwner
      <4> QED
        BY <2>2, <3>1, <3>4, <4>1, <4>2 DEF RowBegun, CountersInv, CountersCurrent
    <3>5. ~RowCanceled(t) /\ ~RowRetried(t) /\ \A w \in Worker : ~RowEnded(t, w)
      BY <2>1 DEF RowCanceled, RowRetried, RowEnded, Emptied
    <3> QED
      BY <1>1, <2>1, <3>2, <3>3, <3>4, <3>5 DEF QueueStep
  <2> QED
    BY <2>3, <2>4, <2>5
<1> QED
  BY <1>2, <1>3 DEF CountersInv, CountersCurrent, ExecutionUncounted

(* Together: everything the later theorems need of a reachable state. *)
SafeInv == TypeInv /\ ClaimsDistinct /\ PromotionHeld /\ CountersInv

LEMMA SafeInit == Init => SafeInv
<1> SUFFICES ASSUME Init
             PROVE  SafeInv
  OBVIOUS
<1>1. TypeInv
  BY TypeInit
<1>2. ClaimsDistinct /\ PromotionHeld
  BY DEF Init, ClaimsDistinct, PromotionHeld, At, Holding
<1>3. RowsConsistent
  <2>1. ASSUME NEW t \in Task
        PROVE  /\ row[t].status = "queued" /\ row[t].token = NoToken
               /\ row[t].left = Floor /\ row[t].execs = 0 /\ row[t].limited = 0
    BY DEF Init, QueueInit, NewRow
  <2>2. ASSUME NEW t \in Task
        PROVE  row[t].limited <= row[t].execs
    BY <2>1
  <2> QED
    BY <2>1, <2>2 DEF RowsConsistent
<1>4. CountersCurrent /\ ExecutionUncounted
  BY DEF Init, Holding, CountersCurrent, ExecutionUncounted, OwnsClaim
<1> QED
  BY <1>1, <1>2, <1>3, <1>4 DEF SafeInv, CountersInv

LEMMA SafeStep == SafeInv /\ [Next]_vars => SafeInv'
BY TypeStep, DistinctStep, PromotionStep, CountersStep DEF SafeInv

LEMMA SafeAlways == Spec => []SafeInv
BY SafeInit, SafeStep, PTL DEF Spec

(* The lease columns of a row agree with its status, and rate limits never  *)
(* outnumber executions.                                                    *)
THEOREM RowsAlways == Spec => []RowsConsistent
<1>1. SafeInv => RowsConsistent
  BY DEF SafeInv, CountersInv
<1> QED
  BY <1>1, SafeAlways, PTL

(* The counters that a worker read with its claim are those of the row for  *)
(* as long as it owns the task.                                             *)
THEOREM CountersAlways == Spec => []CountersCurrent
<1>1. SafeInv => CountersCurrent
  BY DEF SafeInv, CountersInv
<1> QED
  BY <1>1, SafeAlways, PTL

(* No execution begins beyond the attempt budget, for any budget: the guard *)
(* reads counters that may be minutes old, and they are current because the *)
(* worker still owns the task when begin_task_execution succeeds.           *)
THEOREM BudgetAlways == Spec => BudgetRespected
<1>1. ASSUME SafeInv, [Next]_vars, NEW t \in Task, row'[t].execs # row[t].execs
      PROVE  row[t].execs - row[t].limited < MaxAttempts
  <2>1. QueueStep
    BY <1>1, RowStep DEF SafeInv
  <2>2. PICK w \in Worker : RowBegun(t, w)
    BY <1>1, <2>1 DEF QueueStep, RowKept, RowClaimed, RowEnded, RowCanceled, RowRetried, Emptied
  <2>3. worker[w].execs = row[t].execs /\ worker[w].limited = row[t].limited
    BY <1>1, <2>2 DEF RowBegun, SafeInv, CountersInv, CountersCurrent
  <2> QED
    BY <2>2, <2>3 DEF RowBegun, Spent
<1>2. SafeInv /\ [Next]_vars =>
        [\A t \in Task : row'[t].execs # row[t].execs
                         => row[t].execs - row[t].limited < MaxAttempts]_vars
  BY <1>1
<1> QED
  BY <1>2, SafeAlways, PTL DEF Spec, BudgetRespected

(* A lease that has not expired is ended by its holder alone, for every age *)
(* of the clock readings that claims and cancels are made with.             *)
THEOREM LiveLeaseAlways == Spec => LiveLeaseRespected
<1>1. ASSUME SafeInv, [Next]_vars, NEW t \in Task,
             row[t].status = "running", row[t].left >= 0, row'[t].token # row[t].token
      PROVE  \E w \in Worker : /\ worker[w].task = t
                               /\ worker[w].token = row[t].token
                               /\ worker'[w].task # t
  <2>1. QueueStep
    BY <1>1, RowStep DEF SafeInv
  <2>2. row[t].left \in Int
    BY LagBounds, <1>1 DEF SafeInv, TypeInv, TypeOK, QueueTypeOK, Row
  <2>3. PICK w \in Worker : RowEnded(t, w)
    BY <1>1, <2>1, <2>2 DEF QueueStep, RowKept, RowClaimed, RowBegun, RowCanceled, RowRetried
  <2> QED
    BY <2>3, WorkerAssumption DEF RowEnded, OwnsClaim, Owns
<1>2. SafeInv /\ [Next]_vars =>
        [\A t \in Task :
           row[t].status = "running" /\ row[t].left >= 0 /\ row'[t].token # row[t].token
           => \E w \in Worker : /\ worker[w].task = t
                                /\ worker[w].token = row[t].token
                                /\ worker'[w].task # t]_vars
  BY <1>1
<1> QED
  BY <1>2, SafeAlways, PTL DEF Spec, LiveLeaseRespected

------------------------------------------------------------------------------
(* The ledger. *)

LState == [t \in Task |-> row[t].status]
LHolder == [t \in Task |-> row[t].token]
LOutput == [t \in Task |-> IF row[t].status = "done" THEN final[t] ELSE NoToken]
lvars == <<LState, LHolder, LOutput>>

(* Outside benchmark mode an output file is touched only while its task     *)
(* runs, and in a step that leaves the rows alone.                          *)
LEMMA FinalStep ==
  ASSUME SafeInv, ~Benchmark, [Next]_vars, NEW t \in Task, final'[t] # final[t]
  PROVE  row[t].status = "running" /\ row' = row
<1>1. ASSUME NEW w \in Worker, PromoteReplace(w)
      PROVE  row[t].status = "running" /\ row' = row
  <2>1. OwnsClaim(w) /\ final' = [final EXCEPT ![worker[w].task] = worker[w].token] /\ row' = row
    BY <1>1 DEF PromoteReplace
  <2>2. t = worker[w].task
    BY <2>1 DEF SafeInv, TypeInv, TypeOK
  <2> QED
    BY <2>1, <2>2 DEF OwnsClaim, Owns
<1>2. ASSUME NEW w \in Worker, ArtifactsFail(w)
      PROVE  FALSE
  BY <1>2 DEF ArtifactsFail, SafeInv, PromotionHeld
<1>3. ASSUME NEW w \in Worker, Work(w), ~PromoteReplace(w), ~ArtifactsFail(w)
      PROVE  final' = final
  BY <1>3 DEF Work, LeaseOneTask, Leave, BudgetGuard, PreflightError, StartExecution,
       ExecutionSucceeds, ExecutionFails, ExecutionFailsForGood, ExecutionRateLimited,
       PromoteCommit, CommitFails, ArtifactsWritten, AttemptsExhausted, ReadControlState,
       CancelAfterFailure, RequeueAfterFailure
<1>4. ASSUME NEW w \in Worker, Heartbeat(w) \/ Escape(w) \/ Crash(w) \/ Start(w)
      PROVE  final' = final
  BY <1>4 DEF Heartbeat, Escape, Crash, Start
<1>5. ASSUME Operator \/ Time \/ UNCHANGED vars
      PROVE  final' = final
  BY <1>5 DEF Operator, Time, vars
<1> QED
  BY <1>1, <1>2, <1>3, <1>4, <1>5 DEF Next

(* The end of a claim is a Drop or a Complete of the ledger. *)
LEMMA LedgerEnd ==
  ASSUME SafeInv, SafeInv', ~Benchmark, [Next]_vars,
         NEW t \in Task, NEW w \in Worker, RowEnded(t, w),
         \A u \in Task \ {t} : RowKept(u)
  PROVE  Ledger!LedgerNext
<1>1. /\ row[t].status = "running" /\ row[t].token = worker[w].token
      /\ row'[t].status # "running" /\ row'[t].token = NoToken
      /\ row'[t].status \in TaskStatus
  BY DEF RowEnded, OwnsClaim, Owns, Emptied, SafeInv, TypeInv, TypeOK, QueueTypeOK, Row
<1>2. \A u \in Task : final'[u] = final[u]
  BY <1>1, FinalStep
<1>3. /\ LState' = [LState EXCEPT ![t] = row'[t].status]
      /\ LHolder' = [LHolder EXCEPT ![t] = NoToken]
  BY <1>1 DEF LState, LHolder, RowKept
<1>4. CASE row'[t].status = "done"
  <2>1. final[t] = row[t].token
    BY <1>1, <1>4 DEF RowEnded, SafeInv, PromotionHeld, At
  <2>2. LOutput' = [LOutput EXCEPT ![t] = LHolder[t]]
    BY <1>1, <1>2, <1>4, <2>1 DEF LOutput, LHolder, RowKept
  <2>3. Ledger!Complete(t)
    BY <1>1, <1>3, <1>4, <2>2 DEF Ledger!Complete, LState, LHolder, LOutput
  <2> QED
    BY <2>3 DEF Ledger!LedgerNext
<1>5. CASE row'[t].status # "done"
  <2>1. LOutput' = LOutput
    BY <1>1, <1>2, <1>5 DEF LOutput, RowKept
  <2>2. PICK s \in {"queued", "error", "canceled"} : s = row'[t].status
    BY <1>1, <1>5 DEF TaskStatus
  <2>3. Ledger!Drop(t, s)
    BY <1>1, <1>3, <2>1, <2>2 DEF Ledger!Drop, LState, LHolder, LOutput
  <2> QED
    BY <2>3 DEF Ledger!LedgerNext
<1> QED
  BY <1>4, <1>5

LEMMA LedgerStep ==
  SafeInv /\ ~Benchmark /\ [Next]_vars => [Ledger!LedgerNext]_lvars
<1> SUFFICES ASSUME SafeInv, ~Benchmark, [Next]_vars
             PROVE  Ledger!LedgerNext \/ UNCHANGED lvars
  OBVIOUS
<1>0. SafeInv' /\ QueueStep
  BY SafeStep, RowStep DEF SafeInv
<1>1. ASSUME NEW t \in Task, row[t].status # "running" \/ row'[t] # row[t]
      PROVE  final'[t] = final[t]
  BY <1>1, FinalStep
<1>2. CASE \A t \in Task : RowKept(t)
  <2>1. LState' = LState /\ LHolder' = LHolder
    BY <1>2 DEF LState, LHolder, RowKept
  <2>2. LOutput' = LOutput
    BY <1>1, <1>2 DEF LOutput, RowKept
  <2> QED
    BY <2>1, <2>2 DEF lvars
<1>3. ASSUME NEW t \in Task, NEW w \in Worker, RowClaimed(t, w),
             \A u \in Task \ {t} : RowKept(u)
      PROVE  Ledger!LedgerNext
  <2>1. /\ LState' = [LState EXCEPT ![t] = "running"]
        /\ LHolder' = [LHolder EXCEPT ![t] = row'[t].token]
    BY <1>3 DEF RowClaimed, LState, LHolder, RowKept
  <2>2. LOutput' = LOutput
    BY <1>1, <1>3 DEF LOutput, RowClaimed, RowKept
  <2>3. row'[t].token \in Token /\ row[t].token # row'[t].token
    BY <1>3 DEF RowClaimed, InUse
  <2>4. PICK c \in Token : c = row'[t].token
    BY <2>3
  <2>5. Ledger!Acquire(t, c)
    BY <1>3, <2>1, <2>2, <2>3, <2>4 DEF Ledger!Acquire, LState, LHolder, LOutput, RowClaimed
  <2> QED
    BY <2>5 DEF Ledger!LedgerNext
<1>4. ASSUME NEW t \in Task, NEW w \in Worker, RowBegun(t, w),
             \A u \in Task \ {t} : RowKept(u)
      PROVE  UNCHANGED lvars
  <2>1. row[t].status = "running" /\ row'[t].status = "running" /\ row'[t].token = row[t].token
    BY <1>4 DEF RowBegun, OwnsClaim, Owns
  <2>2. LState' = LState /\ LHolder' = LHolder
    BY <1>4, <2>1 DEF LState, LHolder, RowKept
  <2>3. LOutput' = LOutput
    BY <1>1, <1>4, <2>1 DEF LOutput, RowKept
  <2> QED
    BY <2>2, <2>3 DEF lvars
<1>5. CASE \A t \in Task : RowKept(t) \/ RowCanceled(t)
  <2>0. PICK S \in SUBSET Task : S = {t \in Task : ~RowKept(t)}
    OBVIOUS
  <2>1. \A t \in Task : IF t \in S THEN RowCanceled(t) ELSE RowKept(t)
    BY <1>5, <2>0
  <2>2. LState' = [t \in Task |-> IF t \in S THEN "canceled" ELSE LState[t]]
    BY <2>1 DEF LState, RowKept, RowCanceled
  <2>3. LHolder' = [t \in Task |-> IF t \in S THEN NoToken ELSE LHolder[t]]
    BY <2>1 DEF LHolder, RowKept, RowCanceled, Emptied
  <2>4. LOutput' = LOutput
    BY <1>1, <2>1 DEF LOutput, RowKept, RowCanceled
  <2>5. \A t \in S : LState[t] \in {"queued", "running"}
    BY <2>1 DEF LState, RowCanceled
  <2>6. Ledger!Cancel(S)
    BY <2>2, <2>3, <2>4, <2>5 DEF Ledger!Cancel, LState, LHolder, LOutput
  <2> QED
    BY <2>6 DEF Ledger!LedgerNext
<1>6. CASE \A t \in Task : IF row[t].status = "error" THEN RowRetried(t) ELSE RowKept(t)
  <2>1. LState' = [t \in Task |-> IF LState[t] = "error" THEN "queued" ELSE LState[t]]
    BY <1>6 DEF LState, RowKept, RowRetried
  <2>2. LHolder' = LHolder
    BY <1>6 DEF LHolder, RowKept, RowRetried, Emptied, SafeInv, CountersInv, RowsConsistent
  <2>3. LOutput' = LOutput
    BY <1>1, <1>6 DEF LOutput, RowKept, RowRetried
  <2>4. Ledger!RetryErrors
    BY <2>1, <2>2, <2>3 DEF Ledger!RetryErrors, LState, LHolder, LOutput
  <2> QED
    BY <2>4 DEF Ledger!LedgerNext
<1> QED
  BY <1>0, <1>2, <1>3, <1>4, <1>5, <1>6, LedgerEnd DEF QueueStep

(* Outside benchmark mode the queue, the workers and the output files       *)
(* implement TaskLedger: every step is a step of the ledger or a stutter.   *)
THEOREM LedgerImplemented == ~Benchmark /\ Spec => ImplementsLedger
<1>1. Init => Ledger!LedgerInit
  BY DEF Init, QueueInit, NewRow, Ledger!LedgerInit
<1>2. SafeInv /\ ~Benchmark /\ [Next]_vars => [Ledger!LedgerNext]_lvars
  BY LedgerStep
<1>3. ~Benchmark => (~Benchmark)'
  OBVIOUS
<1> QED
  BY <1>1, <1>2, <1>3, SafeAlways, PTL
     DEF Spec, ImplementsLedger, Ledger!LedgerSpec, lvars, LState, LHolder, LOutput

------------------------------------------------------------------------------
(* Timely heartbeats.  As long as every lease that a heartbeat thread renews *)
(* is renewed before it runs out, a worker between claim and end of claim    *)
(* owns its task: its heartbeat runs, and its lease has not expired.         *)

Working == {"claimed", "executing", "valid", "replaced", "published",
            "failed", "requeueing", "canceling"}

LeaseKept ==
  \A w \in Worker :
    worker[w].phase \in Working
    => worker[w].beating /\ OwnsClaim(w) /\ row[worker[w].task].left >= 0

(* Only the heartbeat thread itself, told that the claim is lost, stops      *)
(* while its worker goes on, and only a claim makes a worker busy.           *)
LEMMA BeatStep ==
  ASSUME TypeInv, [Next]_vars, NEW v \in Worker, worker'[v].phase \in Working
  PROVE  \/ LeaseOneTask(v)
         \/ /\ worker[v].phase \in Working
            /\ worker'[v].task = worker[v].task /\ worker'[v].token = worker[v].token
            /\ worker'[v].beating = worker[v].beating \/ ~OwnsClaim(v)
<1> USE DEF TypeInv, TypeOK, WorkerState, At
<1>1. ASSUME NEW w \in Worker, Work(w), v # w
      PROVE  worker'[v] = worker[v]
  BY <1>1 DEF Work, LeaseOneTask, Leave, BudgetGuard, PreflightError, StartExecution,
       ExecutionSucceeds, ExecutionFails, ExecutionFailsForGood, ExecutionRateLimited,
       PromoteReplace, PromoteCommit, CommitFails, ArtifactsWritten, ArtifactsFail, AttemptsExhausted,
       ReadControlState, CancelAfterFailure, RequeueAfterFailure, LoopTop, Goto
<1>2. ASSUME Work(v), ~LeaseOneTask(v)
      PROVE  /\ worker[v].phase \in Working
             /\ worker'[v].task = worker[v].task /\ worker'[v].token = worker[v].token
             /\ worker'[v].beating = worker[v].beating
  <2>1. CASE Leave(v) \/ BudgetGuard(v) \/ PreflightError(v) \/ ExecutionFailsForGood(v)
             \/ ExecutionRateLimited(v) \/ ArtifactsWritten(v) \/ AttemptsExhausted(v)
             \/ CancelAfterFailure(v) \/ RequeueAfterFailure(v)
    BY <2>1 DEF Leave, BudgetGuard, PreflightError, ExecutionFailsForGood,
         ExecutionRateLimited, ArtifactsWritten, AttemptsExhausted, CancelAfterFailure,
         RequeueAfterFailure, LoopTop, Goto, Holding, Working
  <2>2. CASE StartExecution(v) \/ ExecutionSucceeds(v) \/ ExecutionFails(v)
    BY <2>2 DEF StartExecution, ExecutionSucceeds, ExecutionFails, LoopTop, Goto, Holding, Working
  <2>3. CASE PromoteReplace(v) \/ PromoteCommit(v)
    BY <2>3 DEF PromoteReplace, PromoteCommit, LoopTop, Goto, Holding, Working
  <2>4. CASE CommitFails(v) \/ ArtifactsFail(v) \/ ReadControlState(v)
    BY <2>4 DEF CommitFails, ArtifactsFail, ReadControlState, LoopTop, Goto, Holding, Working
  <2> QED
    BY <1>2, <2>1, <2>2, <2>3, <2>4 DEF Work
<1>3. ASSUME NEW w \in Worker, Heartbeat(w) \/ Escape(w) \/ Crash(w) \/ Start(w)
      PROVE  /\ worker[v].phase \in Working
             /\ worker'[v].task = worker[v].task /\ worker'[v].token = worker[v].token
             /\ worker'[v].beating = worker[v].beating \/ ~OwnsClaim(v)
  <2>1. CASE Heartbeat(w)
    BY <2>1 DEF Heartbeat
  <2>2. CASE Escape(w)
    BY <2>2 DEF Escape, Goto, Working
  <2>3. CASE Crash(w) \/ Start(w)
    <3>1. PICK p \in {"top", "gone"} : worker' = [worker EXCEPT ![w] = Holding(p)]
      BY <2>3 DEF Crash, Start, LoopTop
    <3> QED
      BY <3>1 DEF Holding, Working
  <2> QED
    BY <1>3, <2>1, <2>2, <2>3
<1>4. ASSUME Operator \/ Time \/ UNCHANGED vars
      PROVE  worker' = worker
  BY <1>4 DEF Operator, Time, vars
<1>5. \/ \E w \in Worker : Work(w)
      \/ \E w \in Worker : Heartbeat(w) \/ Escape(w) \/ Crash(w) \/ Start(w)
      \/ Operator \/ Time \/ UNCHANGED vars
  BY DEF Next
<1> HIDE DEF TypeInv, TypeOK, WorkerState
<1> QED
  BY <1>1, <1>2, <1>3, <1>4, <1>5

(* The lease of a task that goes on running is renewed or stays as it is     *)
(* unless time passes.                                                       *)
LEMMA LeftStep ==
  ASSUME TypeInv, NEW t \in Task, row'[t].status = "running",
         \/ \E w \in Worker : Work(w) \/ Heartbeat(w) \/ Escape(w) \/ Crash(w) \/ Start(w)
         \/ Operator
         \/ UNCHANGED vars
  PROVE  \/ row'[t].left = row[t].left
         \/ \E lag \in Lag : row'[t].left = LeaseWindow - lag
<1> DEFINE Kept == \/ row'[t].left = row[t].left
                   \/ \E lag \in Lag : row'[t].left = LeaseWindow - lag
<1>0. row[t] \in Row /\ row \in [Task -> Row] /\ worker \in [Worker -> WorkerState]
  BY DEF TypeInv, TypeOK, QueueTypeOK
<1>1. ASSUME NEW w \in Worker, Work(w)
      PROVE  Kept
  <2>1. CASE LeaseOneTask(w)
    <3>1. PICK u \in Task, lag \in Lag :
            Claim(u, CHOOSE k \in Fresh(u) : TRUE, lag)
      BY <2>1 DEF LeaseOneTask
    <3>2. row' = [row EXCEPT ![u] = Claimed(row[u], CHOOSE k \in Fresh(u) : TRUE, lag)]
      BY <3>1 DEF Claim
    <3>3. Claimed(row[u], CHOOSE k \in Fresh(u) : TRUE, lag).left = LeaseWindow - lag
      BY <1>0 DEF Claimed, Row
    <3> QED
      BY <1>0, <3>2, <3>3
  <2>2. CASE \/ BudgetGuard(w) \/ PreflightError(w) \/ ExecutionFailsForGood(w)
             \/ AttemptsExhausted(w) \/ ArtifactsWritten(w) \/ CancelAfterFailure(w)
             \/ RequeueAfterFailure(w)
    <3>1. PICK s \in TaskStatus \ {"running"} : Release(worker[w].task, worker[w].token, s)
      BY <2>2 DEF BudgetGuard, PreflightError, ExecutionFailsForGood, AttemptsExhausted,
           ArtifactsWritten, CancelAfterFailure, RequeueAfterFailure, TaskStatus,
           MarkTaskDone, MarkTaskError, MarkTaskCanceled, RequeueTask
    <3>2. PICK u : u = worker[w].task
      OBVIOUS
    <3>3. row' = row \/ row' = [row EXCEPT ![u] = Released(row[u], s)]
      BY <3>1, <3>2 DEF Release
    <3>4. u = t => Released(row[u], s).status = s
      BY <1>0 DEF Released, Row
    <3> QED
      BY <1>0, <3>3, <3>4
  <2>3. CASE StartExecution(w)
    BY <1>0, <2>3 DEF StartExecution, BeginTaskExecution, queueVars, Row
  <2>4. CASE ExecutionRateLimited(w)
    <3>1. PICK u : u = worker[w].task
      OBVIOUS
    <3>2. row' = row \/ row' = [row EXCEPT ![u] = RateLimited(row[u])]
      BY <2>4, <3>1 DEF ExecutionRateLimited, RequeueTaskAfterRateLimit
    <3>3. u = t => RateLimited(row[u]).status = "queued"
      BY <1>0 DEF RateLimited, Released, Row
    <3> QED
      BY <1>0, <3>2, <3>3
  <2>5. CASE PromoteCommit(w)
    <3>1. PICK u : u = worker[w].task
      OBVIOUS
    <3>2. row' = row \/ row' = [row EXCEPT ![u] = Released(row[u], "done")]
      BY <2>5, <3>1 DEF PromoteCommit
    <3>3. u = t => Released(row[u], "done").status = "done"
      BY <1>0 DEF Released, Row
    <3> QED
      BY <1>0, <3>2, <3>3
  <2>6. CASE \/ Leave(w) \/ ExecutionSucceeds(w) \/ ExecutionFails(w)
             \/ PromoteReplace(w) \/ CommitFails(w) \/ ArtifactsFail(w)
             \/ ReadControlState(w)
    BY <2>6 DEF Leave, ExecutionSucceeds, ExecutionFails, PromoteReplace, CommitFails,
         ArtifactsFail, ReadControlState, queueVars
  <2> QED
    BY <1>1, <2>1, <2>2, <2>3, <2>4, <2>5, <2>6 DEF Work
<1>2. ASSUME NEW w \in Worker, Heartbeat(w)
      PROVE  Kept
  <2>1. CASE row' = row
    BY <2>1
  <2>2. ASSUME NEW lag \in Lag, HeartbeatTaskLease(worker[w].task, worker[w].token, lag)
        PROVE  Kept
    <3>1. PICK u : u = worker[w].task
      OBVIOUS
    <3>2. row' = [row EXCEPT ![u] = [row[u] EXCEPT !.left = LeaseWindow - lag]]
      BY <2>2, <3>1 DEF HeartbeatTaskLease
    <3> QED
      BY <1>0, <3>2 DEF Row
  <2> QED
    BY <1>2, <2>1, <2>2 DEF Heartbeat, queueVars
<1>3. ASSUME NEW w \in Worker, Escape(w) \/ Crash(w) \/ Start(w)
      PROVE  Kept
  BY <1>3 DEF Escape, Crash, Start, queueVars
<1>4. ASSUME Operator
      PROVE  Kept
  <2>1. CASE row' = row
    BY <2>1
  <2>2. ASSUME NEW lag \in Lag, CancelRunTasks(lag)
        PROVE  Kept
    <3>1. row'[t] = row[t] \/ row'[t] = Released(row[t], "canceled")
      BY <2>2 DEF CancelRunTasks
    <3>2. Released(row[t], "canceled").status = "canceled"
      BY <1>0 DEF Released, Row
    <3> QED
      BY <3>1, <3>2
  <2>3. CASE RequeueErrorTasks
    <3>1. row'[t] = row[t] \/ row'[t] = Retried(row[t])
      BY <2>3 DEF RequeueErrorTasks
    <3>2. Retried(row[t]).status = "queued"
      BY <1>0 DEF Retried, Released, Row
    <3> QED
      BY <3>1, <3>2
  <2> QED
    BY <1>4, <2>1, <2>2, <2>3 DEF Operator, SetRunControlState, ConfirmCancel
<1>5. ASSUME UNCHANGED vars
      PROVE  Kept
  BY <1>5 DEF vars
<1> HIDE DEF Kept
<1>6. Kept
  BY <1>1, <1>2, <1>3, <1>4, <1>5
<1> QED
  BY <1>6 DEF Kept

LEMMA LeaseKeptStep ==
  ASSUME SafeInv, LeaseKept, [TimelyNext]_vars, MaxLag <= LeaseWindow
  PROVE  LeaseKept'
<1>0. TypeInv /\ TypeInv' /\ [Next]_vars /\ QueueStep
  BY TypeStep, RowStep DEF SafeInv, TimelyNext, TimelyTime, Next
<1>1. \A lag \in Lag : LeaseWindow - lag >= 0
  BY QueueAssumption DEF Lag
<1> SUFFICES ASSUME NEW v \in Worker, worker'[v].phase \in Working
             PROVE  /\ worker'[v].beating /\ OwnsClaim(v)'
                    /\ row'[worker'[v].task].left >= 0
  BY DEF LeaseKept
<1>2. CASE LeaseOneTask(v)
  <2>1. PICK t \in Task, lag \in Lag :
          \E k :
            /\ Claim(t, k, lag)
            /\ worker' = [worker EXCEPT ![v] =
                            [phase |-> "claimed", task |-> t, token |-> k,
                             execs |-> row[t].execs, limited |-> row[t].limited,
                             beating |-> TRUE]]
    BY <1>2 DEF LeaseOneTask
  <2>0. PICK k :
          /\ Claim(t, k, lag)
          /\ worker' = [worker EXCEPT ![v] =
                          [phase |-> "claimed", task |-> t, token |-> k,
                           execs |-> row[t].execs, limited |-> row[t].limited,
                           beating |-> TRUE]]
    BY <2>1
  <2>2. worker'[v].task = t /\ worker'[v].token = k /\ worker'[v].beating
    BY <1>0, <2>0 DEF TypeInv, TypeOK
  <2>3. row' = [row EXCEPT ![t] = Claimed(row[t], k, lag)] /\ row[t] \in Row
    BY <1>0, <2>0 DEF Claim, TypeInv, TypeOK, QueueTypeOK
  <2>4. row'[t].status = "running" /\ row'[t].token = k /\ row'[t].left = LeaseWindow - lag
    BY <1>0, <2>3 DEF Claimed, Row, TypeInv, TypeOK, QueueTypeOK
  <2> QED
    BY <1>1, <2>2, <2>4, WorkerAssumption DEF OwnsClaim, Owns
<1>3. CASE ~LeaseOneTask(v)
  <2>1. /\ worker[v].phase \in Working
        /\ worker'[v].task = worker[v].task /\ worker'[v].token = worker[v].token
        /\ worker'[v].beating = worker[v].beating \/ ~OwnsClaim(v)
    BY <1>0, <1>3, BeatStep
  <2>2. worker[v].beating /\ OwnsClaim(v) /\ row[worker[v].task].left >= 0
    BY <2>1 DEF LeaseKept
  <2>3. PICK t \in Task : t = worker[v].task
    BY <1>0, <2>2 DEF OwnsClaim, TypeInv, TypeOK, WorkerState
  <2>4. /\ row[t].status = "running" /\ row[t].token = worker[v].token
        /\ row[t].left >= 0 /\ row[t].left \in Int
    BY <1>0, <2>2, <2>3, LagBounds DEF OwnsClaim, Owns, TypeInv, TypeOK, QueueTypeOK, Row
  <2>5. row'[t].status = "running" /\ row'[t].token = row[t].token
    <3>1. ASSUME NEW w \in Worker, RowEnded(t, w)
          PROVE  FALSE
      <4>1. v = w
        BY <2>2, <2>3, <3>1, OwnersDistinct DEF RowEnded, OneOwner, SafeInv
      <4> QED
        BY <2>1, <2>3, <3>1, <4>1, WorkerAssumption DEF RowEnded
    <3>2. ~RowCanceled(t) /\ ~RowRetried(t) /\ \A w \in Worker : ~RowClaimed(t, w)
      BY <2>4 DEF RowCanceled, RowRetried, RowClaimed
    <3>3. RowKept(t) \/ \E w \in Worker : RowBegun(t, w)
      BY <1>0, <3>1, <3>2 DEF QueueStep
    <3> QED
      BY <2>4, <3>3 DEF RowKept, RowBegun
  <2>6. row'[t].left >= 0
    <3>1. CASE TimelyTime
      <4>1. row[t].left > 0
        BY <2>2, <2>3, <3>1 DEF TimelyTime
      <4>2. row'[t].left = row[t].left \/ row'[t].left = row[t].left - 1
        BY <1>0, <3>1 DEF TimelyTime, Time, Tick, TypeInv, TypeOK, QueueTypeOK, Row
      <4> QED
        BY <2>4, <4>1, <4>2
    <3>2. CASE ~TimelyTime
      BY <1>0, <1>1, <2>4, <2>5, <3>2, LeftStep DEF TimelyNext
    <3> QED
      BY <3>1, <3>2
  <2> QED
    BY <2>1, <2>2, <2>3, <2>4, <2>5, <2>6 DEF OwnsClaim, Owns
<1> QED
  BY <1>2, <1>3

LEMMA TimelyInv ==
  ASSUME MaxLag <= LeaseWindow
  PROVE  TimelySpec => []LeaseKept
<1>1. Init => SafeInv /\ LeaseKept
  <2>1. Init => LeaseKept
    BY DEF Init, QueueInit, NewRow, Holding, LeaseKept, Working
  <2> QED
    BY <2>1, SafeInit
<1>2. SafeInv /\ LeaseKept /\ [TimelyNext]_vars => (SafeInv /\ LeaseKept)'
  <2>1. [TimelyNext]_vars => [Next]_vars
    BY DEF TimelyNext, TimelyTime, Next
  <2> QED
    BY <2>1, SafeStep, LeaseKeptStep
<1> QED
  BY <1>1, <1>2, PTL DEF TimelySpec

(* Timely heartbeats keep healthy work from being reclaimed, however late   *)
(* the clock readings are that claims, renewals and cancels are made with,  *)
(* if no reading is older than the lease is long.                           *)
THEOREM OwnershipAlways ==
  ASSUME MaxLag <= LeaseWindow
  PROVE  TimelySpec => []HeartbeatKeepsOwnership
<1>1. LeaseKept => HeartbeatKeepsOwnership
  BY DEF LeaseKept, HeartbeatKeepsOwnership, Working
<1> QED
  BY <1>1, TimelyInv, PTL
==============================================================================
