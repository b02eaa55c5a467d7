----------------------------- MODULE FarmWorkers -----------------------------
(***************************************************************************)
(* The worker loops of worker.py over the task queue of one run, with      *)
(* their heartbeat threads, the promotion of staged outputs, worker and    *)
(* process failures, and the operator's commands.                          *)
(*                                                                         *)
(* Every step is one transaction, one file operation, or one read whose    *)
(* result is used later.  A worker is in one of these phases:              *)
(*                                                                         *)
(*   top         at the top of the loop, holding nothing                   *)
(*   claimed     lease_one_task returned a task; preflight checks          *)
(*   executing   begin_task_execution succeeded; codex runs, output staged *)
(*   valid       the staged output passed the schema                       *)
(*   replaced    inside the promotion: file replaced, not yet committed    *)
(*   published   benchmark mode: promoted, artifacts still to be written   *)
(*   failed      a retryable failure is being handled                      *)
(*   requeueing, canceling   the run's control state has been read         *)
(*   gone        the loop returned, or its process was killed              *)
(*   dead        an exception left the loop while its process lives on     *)
(***************************************************************************)
EXTENDS TaskQueue

CONSTANTS Worker,
          NoTask,
          MaxAttempts,    \* --max-attempts
          Benchmark,      \* the run is in recipeimport benchmark mode
          Commands,       \* operator commands given: pause resume cancel retry
          MaxRateLimits,  \* bound: rate limits counted against one task
          MaxCrashes,     \* bound: processes killed
          MaxEscapes      \* bound: exceptions that leave a worker loop

ASSUME WorkerAssumption ==
  /\ NoTask \notin Task
  /\ MaxAttempts \in Nat \ {0}
  /\ Benchmark \in BOOLEAN
  /\ MaxRateLimits \in Nat
  /\ MaxCrashes \in Nat
  /\ MaxEscapes \in Nat

VARIABLES worker,   \* what each worker holds
          final,    \* the canonical output of a task: the claim that wrote it
          crashes,
          escapes

queueVars == <<row, control, locked>>
vars == <<row, control, locked, worker, final, crashes, escapes>>

Phase == {"top", "claimed", "executing", "valid", "replaced", "published",
          "failed", "requeueing", "canceling", "gone", "dead"}

(* execs and limited are the counters as read with the claim; execs is read *)
(* again when the execution begins.  beating: a heartbeat thread renews it. *)
WorkerState == [phase   : Phase,
                task    : Task \cup {NoTask},
                token   : Token \cup {NoToken},
                execs   : Nat,
                limited : Nat,
                beating : BOOLEAN]

Holding(p) == [phase |-> p, task |-> NoTask, token |-> NoToken,
               execs |-> 0, limited |-> 0, beating |-> FALSE]

TypeOK ==
  /\ QueueTypeOK
  /\ worker \in [Worker -> WorkerState]
  /\ final \in [Task -> Token \cup {NoToken}]
  /\ crashes \in 0..MaxCrashes
  /\ escapes \in 0..MaxEscapes

Init ==
  /\ QueueInit
  /\ worker = [w \in Worker |-> Holding("top")]
  /\ final = [t \in Task |-> NoToken]
  /\ crashes = 0
  /\ escapes = 0

------------------------------------------------------------------------------
(* effective_execution_attempts *)
Spent(w) == worker[w].execs - worker[w].limited

OwnsClaim(w) == worker[w].task # NoTask /\ Owns(worker[w].task, worker[w].token)

(* A token names one claim of a task: uuid4 never returns one that a row, a *)
(* worker or an output file of that task still carries.                     *)
InUse(t, tok) ==
  \/ row[t].token = tok
  \/ final[t] = tok
  \/ \E w \in Worker : worker[w].task = t /\ worker[w].token = tok

Fresh(t) == {tok \in Token : ~InUse(t, tok)}

Goto(w, p)   == worker' = [worker EXCEPT ![w].phase = p]
LoopTop(w)   == worker' = [worker EXCEPT ![w] = Holding("top")]
NoFault      == UNCHANGED <<crashes, escapes>>
At(w, p)     == worker[w].phase = p

(* Mutant: a takeover keeps the lease_token it finds in the row. *)
LeaseKeepingToken(w) ==
  /\ At(w, "top")
  /\ \E t \in Task, lag \in Lag :
       /\ Fresh(t) # {}
       /\ LET tok == IF row[t].token # NoToken THEN row[t].token
                     ELSE CHOOSE k \in Fresh(t) : TRUE
          IN /\ Claim(t, tok, lag)
             /\ worker' = [worker EXCEPT ![w] =
                             [phase |-> "claimed", task |-> t, token |-> tok,
                              execs |-> row[t].execs, limited |-> row[t].limited,
                              beating |-> TRUE]]
  /\ UNCHANGED final
  /\ NoFault

LeaseOneTask(w) ==
  /\ At(w, "top")
  /\ \E t \in Task, lag \in Lag :
       /\ Fresh(t) # {}
       /\ LET tok == CHOOSE k \in Fresh(t) : TRUE
          IN /\ Claim(t, tok, lag)
             /\ worker' = [worker EXCEPT ![w] =
                             [phase |-> "claimed", task |-> t, token |-> tok,
                              execs |-> row[t].execs, limited |-> row[t].limited,
                              beating |-> TRUE]]
  /\ UNCHANGED final
  /\ NoFault

(* Nothing queued and nothing running is the only way out of the loop that  *)
(* run_has_waitable_work leaves: pausing and canceling make workers wait.   *)
Leave(w) ==
  /\ At(w, "top")
  /\ Drained
  /\ Goto(w, "gone")
  /\ UNCHANGED <<queueVars, final>>
  /\ NoFault

(* Mutant: a task without budget is skipped instead of marked. *)
BudgetGuardSkips(w) ==
  /\ At(w, "claimed")
  /\ Spent(w) >= MaxAttempts
  /\ LoopTop(w)
  /\ UNCHANGED <<queueVars, final>>
  /\ NoFault

(* The attempt budget is checked before anything else is.                   *)
BudgetGuard(w) ==
  /\ At(w, "claimed")
  /\ Spent(w) >= MaxAttempts
  /\ MarkTaskError(worker[w].task, worker[w].token)
  /\ LoopTop(w)
  /\ UNCHANGED final
  /\ NoFault

(* Configuration, frozen assets, pipeline or --cd directory cannot be used. *)
PreflightError(w) ==
  /\ At(w, "claimed")
  /\ Spent(w) < MaxAttempts
  /\ MarkTaskError(worker[w].task, worker[w].token)
  /\ LoopTop(w)
  /\ UNCHANGED final
  /\ NoFault

(* Mutant: the budget is compared with > instead of >=. *)
StartExecutionOnceMore(w) ==
  /\ At(w, "claimed")
  /\ Spent(w) <= MaxAttempts
  /\ BeginTaskExecution(worker[w].task, worker[w].token)
  /\ worker' = [worker EXCEPT ![w].phase = "executing",
                              ![w].execs = row[worker[w].task].execs + 1]
  /\ UNCHANGED final
  /\ NoFault

(* Mutant: execution_attempts is not read again when the execution begins. *)
StartExecutionStale(w) ==
  /\ At(w, "claimed")
  /\ Spent(w) < MaxAttempts
  /\ BeginTaskExecution(worker[w].task, worker[w].token)
  /\ Goto(w, "executing")
  /\ UNCHANGED final
  /\ NoFault

StartExecution(w) ==
  /\ At(w, "claimed")
  /\ Spent(w) < MaxAttempts
  /\ \/ /\ BeginTaskExecution(worker[w].task, worker[w].token)
        /\ worker' = [worker EXCEPT ![w].phase = "executing",
                                    ![w].execs = row[worker[w].task].execs + 1]
     \/ /\ ~locked
        /\ ~OwnsClaim(w)
        /\ LoopTop(w)
        /\ UNCHANGED queueVars
  /\ UNCHANGED final
  /\ NoFault

------------------------------------------------------------------------------
(* What an execution ends with. *)

ExecutionSucceeds(w) ==
  /\ At(w, "executing")
  /\ Goto(w, "valid")
  /\ UNCHANGED <<queueVars, final>>
  /\ NoFault

(* Timeout, no payload, a payload the schema rejects, or any error up to    *)
(* the promotion itself; the staged file goes, the canonical one stays.     *)
ExecutionFails(w) ==
  /\ worker[w].phase \in {"executing", "valid"}
  /\ Goto(w, "failed")
  /\ UNCHANGED <<queueVars, final>>
  /\ NoFault

(* Authentication, a schema the provider rejects, the content filter, or an *)
(* output that breaks the benchmark contract: no retry.                     *)
ExecutionFailsForGood(w) ==
  /\ At(w, "executing")
  /\ MarkTaskError(worker[w].task, worker[w].token)
  /\ LoopTop(w)
  /\ UNCHANGED final
  /\ NoFault

(* HTTP 429.  After too many in a row, whether or not the task was still    *)
(* this worker's, the loop returns; the throttle row is not in this module. *)
ExecutionRateLimited(w) ==
  /\ At(w, "executing")
  /\ row[worker[w].task].limited < MaxRateLimits
  /\ RequeueTaskAfterRateLimit(worker[w].task, worker[w].token)
  /\ \E p \in {"top", "gone"} : worker' = [worker EXCEPT ![w] = Holding(p)]
  /\ UNCHANGED final
  /\ NoFault

(* Mutant: the promotion does not hold the write lock. *)
PromoteUnlocked(w) ==
  /\ At(w, "valid")
  /\ ~locked
  /\ IF OwnsClaim(w)
     THEN /\ final' = [final EXCEPT ![worker[w].task] = worker[w].token]
          /\ Goto(w, "replaced")
     ELSE /\ LoopTop(w)
          /\ UNCHANGED final
  /\ UNCHANGED queueVars
  /\ NoFault

(* Mutant: the owner is not checked before the file is replaced. *)
PromoteUnchecked(w) ==
  /\ At(w, "valid")
  /\ ~locked
  /\ final' = [final EXCEPT ![worker[w].task] = worker[w].token]
  /\ locked' = TRUE
  /\ Goto(w, "replaced")
  /\ UNCHANGED <<row, control>>
  /\ NoFault

(* _promote_staged_output_if_owner: BEGIN IMMEDIATE, the owner check and    *)
(* os.replace.  The write lock is kept until the commit.                    *)
PromoteReplace(w) ==
  /\ At(w, "valid")
  /\ ~locked
  /\ IF OwnsClaim(w)
     THEN /\ final' = [final EXCEPT ![worker[w].task] = worker[w].token]
          /\ locked' = TRUE
          /\ Goto(w, "replaced")
     ELSE /\ LoopTop(w)
          /\ UNCHANGED <<final, locked>>
  /\ UNCHANGED <<row, control>>
  /\ NoFault

PromoteCommit(w) ==
  /\ At(w, "replaced")
  /\ locked' = FALSE
  /\ IF Benchmark
     THEN /\ Goto(w, "published")
          /\ UNCHANGED row
     ELSE /\ row' = [row EXCEPT ![worker[w].task] = Released(@, "done")]
          /\ LoopTop(w)
  /\ UNCHANGED <<control, final>>
  /\ NoFault

(* Benchmark mode writes its artifacts after the promotion and marks the    *)
(* task done afterwards.                                                    *)
ArtifactsWritten(w) ==
  /\ At(w, "published")
  /\ MarkTaskDone(worker[w].task, worker[w].token)
  /\ LoopTop(w)
  /\ UNCHANGED final
  /\ NoFault

(* The commit of the promotion, or the update after it, raises: the         *)
(* transaction is rolled back, the file stays where it is.                  *)
CommitFails(w) ==
  /\ worker[w].phase \in {"replaced", "published"}
  /\ locked' = (locked /\ ~At(w, "replaced"))
  /\ Goto(w, "failed")
  /\ UNCHANGED <<row, control, final>>
  /\ NoFault

(* When they cannot be written the canonical output is unlinked, whoever    *)
(* wrote it.                                                                *)
ArtifactsFail(w) ==
  /\ At(w, "published")
  /\ final' = [final EXCEPT ![worker[w].task] = NoToken]
  /\ Goto(w, "failed")
  /\ UNCHANGED queueVars
  /\ NoFault

------------------------------------------------------------------------------
(* The end of a retryable failure. *)

AttemptsExhausted(w) ==
  /\ At(w, "failed")
  /\ Spent(w) >= MaxAttempts
  /\ MarkTaskError(worker[w].task, worker[w].token)
  /\ LoopTop(w)
  /\ UNCHANGED final
  /\ NoFault

ReadControlState(w) ==
  /\ At(w, "failed")
  /\ Spent(w) < MaxAttempts
  /\ Goto(w, IF Canceling THEN "canceling" ELSE "requeueing")
  /\ UNCHANGED <<queueVars, final>>
  /\ NoFault

CancelAfterFailure(w) ==
  /\ At(w, "canceling")
  /\ MarkTaskCanceled(worker[w].task, worker[w].token)
  /\ LoopTop(w)
  /\ UNCHANGED final
  /\ NoFault

RequeueAfterFailure(w) ==
  /\ At(w, "requeueing")
  /\ RequeueTask(worker[w].task, worker[w].token)
  /\ LoopTop(w)
  /\ UNCHANGED final
  /\ NoFault

------------------------------------------------------------------------------
(* Heartbeat threads, failures and restarts. *)

Heartbeat(w) ==
  /\ worker[w].beating
  /\ \/ /\ \E lag \in Lag : HeartbeatTaskLease(worker[w].task, worker[w].token, lag)
        /\ UNCHANGED worker
     \/ /\ ~locked
        /\ ~OwnsClaim(w)
        /\ worker' = [worker EXCEPT ![w].beating = FALSE]
        /\ UNCHANGED queueVars
  /\ UNCHANGED final
  /\ NoFault

(* An unreadable template or input before the execution, or a database that *)
(* stays locked while a failure is handled: the exception ends the loop,    *)
(* and nothing stops the daemon thread that renews the lease.               *)
Escape(w) ==
  /\ worker[w].phase \in {"claimed", "executing", "failed", "requeueing", "canceling"}
  /\ escapes < MaxEscapes
  /\ escapes' = escapes + 1
  /\ Goto(w, "dead")
  /\ UNCHANGED <<queueVars, final, crashes>>

(* The process ends: its threads stop, an open transaction is rolled back,  *)
(* what it replaced on disk stays.                                          *)
Crash(w) ==
  /\ worker[w].phase # "gone"
  /\ crashes < MaxCrashes
  /\ crashes' = crashes + 1
  /\ worker' = [worker EXCEPT ![w] = Holding("gone")]
  /\ locked' = IF At(w, "replaced") THEN FALSE ELSE locked
  /\ UNCHANGED <<row, control, final, escapes>>

Start(w) ==
  /\ At(w, "gone")
  /\ LoopTop(w)
  /\ UNCHANGED <<queueVars, final>>
  /\ NoFault

Operator ==
  /\ \/ "pause" \in Commands /\ SetRunControlState("paused")
     \/ "resume" \in Commands /\ SetRunControlState("active")
     \/ "cancel" \in Commands /\ \E lag \in Lag : CancelRunTasks(lag)
     \/ "retry" \in Commands /\ RequeueErrorTasks
     \/ ConfirmCancel
  /\ UNCHANGED <<worker, final>>
  /\ NoFault

Time ==
  /\ Tick
  /\ UNCHANGED <<worker, final>>
  /\ NoFault

------------------------------------------------------------------------------
Work(w) ==
  \/ LeaseOneTask(w) \/ Leave(w)
  \/ BudgetGuard(w) \/ PreflightError(w) \/ StartExecution(w)
  \/ ExecutionSucceeds(w) \/ ExecutionFails(w)
  \/ ExecutionFailsForGood(w) \/ ExecutionRateLimited(w)
  \/ PromoteReplace(w) \/ PromoteCommit(w)
  \/ CommitFails(w) \/ ArtifactsWritten(w) \/ ArtifactsFail(w)
  \/ AttemptsExhausted(w) \/ ReadControlState(w)
  \/ CancelAfterFailure(w) \/ RequeueAfterFailure(w)

Next ==
  \/ \E w \in Worker : Work(w) \/ Heartbeat(w) \/ Escape(w) \/ Crash(w) \/ Start(w)
  \/ Operator
  \/ Time

Spec == Init /\ [][Next]_vars
------------------------------------------------------------------------------
(* Safety. *)

(* No two workers own the same task at the same time, however leases expire, *)
(* are renewed late or are taken over (the lease_token guard of db.py).      *)
OneOwner ==
  \A v, w \in Worker :
    OwnsClaim(v) /\ OwnsClaim(w) /\ worker[v].task = worker[w].task => v = w

(* The lease columns are set exactly while a task runs, and rate limits are  *)
(* counted only against executions that began: the clamp of                  *)
(* effective_attempts to zero never hides anything.                          *)
RowsConsistent ==
  \A t \in Task :
    /\ row[t].status = "running" <=> row[t].token # NoToken
    /\ row[t].status # "running" => row[t].left = Floor
    /\ row[t].limited <= row[t].execs

(* The counters a worker read with its claim are still those of the row for  *)
(* as long as it owns the task, so the budget it computes from them later is *)
(* the real one.                                                             *)
CountersCurrent ==
  \A w \in Worker :
    OwnsClaim(w) => /\ worker[w].execs = row[worker[w].task].execs
                    /\ worker[w].limited = row[worker[w].task].limited

(* While a lease has not expired nobody but its holder ends it: neither a    *)
(* claim with an old clock reading nor the operator's cancel.                *)
LiveLeaseRespected ==
  [][\A t \in Task :
       row[t].status = "running" /\ row[t].left >= 0 /\ row'[t].token # row[t].token
       => \E w \in Worker : /\ worker[w].task = t
                            /\ worker[w].token = row[t].token
                            /\ worker'[w].task # t]_vars

(* No execution begins once MaxAttempts of them have ended other than by a   *)
(* rate limit, whatever crashes and takeovers happened in between.           *)
BudgetRespected ==
  [][\A t \in Task :
       row'[t].execs # row[t].execs => row[t].execs - row[t].limited < MaxAttempts]_vars

(* Outside benchmark mode the queue and the output files implement the       *)
(* ledger: an output never changes once its task is done.                    *)
Ledger == INSTANCE TaskLedger WITH
            ClaimId <- Token,
            NoClaim <- NoToken,
            state   <- [t \in Task |-> row[t].status],
            holder  <- [t \in Task |-> row[t].token],
            output  <- [t \in Task |-> IF row[t].status = "done" THEN final[t] ELSE NoToken]

ImplementsLedger == Ledger!LedgerSpec

(* src/codex_farm/README.md: "stale owners cannot overwrite or delete        *)
(* canonical outputs".  A done task has its output; not so in benchmark mode *)
(* when the worker that lost the task unlinks it (ArtifactsFail).            *)
DoneHasOutput == \A t \in Task : row[t].status = "done" => final[t] # NoToken

(* The retry-errors command: "Requeue terminal error tasks with a fresh      *)
(* attempt budget."  A task it requeues may be executed again.               *)
RetryRestoresBudget ==
  [][\A t \in Task :
       row[t].status = "error" /\ row'[t].status = "queued"
       => row'[t].execs - row'[t].limited < MaxAttempts]_vars

------------------------------------------------------------------------------
(* Timing and fairness.  A heartbeat comes every third of the lease, so a   *)
(* running heartbeat thread renews a lease before it expires; codex runs    *)
(* under a timeout and every other step of a worker is finite.              *)

TimelyTime ==
  /\ \A w \in Worker :
       worker[w].beating /\ OwnsClaim(w) => row[worker[w].task].left > 0
  /\ Time

TimelyNext ==
  \/ \E w \in Worker : Work(w) \/ Heartbeat(w) \/ Escape(w) \/ Crash(w) \/ Start(w)
  \/ Operator
  \/ TimelyTime

TimelySpec == Init /\ [][TimelyNext]_vars

FairSpec ==
  /\ TimelySpec
  /\ \A w \in Worker : WF_vars(Work(w)) /\ WF_vars(Heartbeat(w))
  /\ WF_vars(TimelyTime)
  /\ WF_vars(Operator /\ control' = "canceled")

(* A heartbeat keeps healthy work from being reclaimed: whoever executes a   *)
(* task, or has its output in hand, still owns it.                           *)
HeartbeatKeepsOwnership ==
  \A w \in Worker :
    worker[w].phase \in {"executing", "valid", "replaced", "published",
                         "failed", "requeueing", "canceling"} => OwnsClaim(w)

NobodyWorks == \A w \in Worker : worker[w].phase \in {"gone", "dead"}

(* As long as some worker stays, every task reaches a terminal status: a     *)
(* crashed worker's task is reclaimed, retries end with the budget, and the  *)
(* remaining workers do not return before that.                              *)
EveryTaskSettles == <>(Drained \/ NobodyWorks)

(* A cancel request drains: nothing stays queued or running, and the         *)
(* workers that wait for the run are released.                               *)
CancelDrains == control = "cancel_requested" ~> (Drained \/ NobodyWorks)
==============================================================================
