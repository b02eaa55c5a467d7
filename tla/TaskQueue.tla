------------------------------ MODULE TaskQueue ------------------------------
(***************************************************************************)
(* The tasks table of one run and the functions of db.py that move a task  *)
(* through it: claim, heartbeat, start of an execution, the four ways a    *)
(* lease holder ends its claim, and the operator's bulk updates.           *)
(*                                                                         *)
(* A row keeps status, lease_token, execution_attempts, rate_limit_count   *)
(* and lease_until.  lease_until is kept as `left', the number of clock    *)
(* ticks to its expiry (lease_until - now), so the clock needs no bound: a *)
(* lease has expired once left < 0.  A transaction may wait for SQLite's   *)
(* write lock after it read the time, so a reading may be up to MaxLag     *)
(* ticks old when it is used; left stops at Floor, where every reading     *)
(* agrees that the lease is over.                                          *)
(***************************************************************************)
EXTENDS Integers

CONSTANTS Task,         \* the tasks of the run
          Token,        \* the lease tokens uuid4 can return
          NoToken,      \* a NULL lease_token
          LeaseWindow,  \* lease_seconds plus the two seconds of grace, in ticks
          MaxLag        \* how old a clock reading may be when it is used

ASSUME QueueAssumption ==
  /\ NoToken \notin Token
  /\ LeaseWindow \in Nat
  /\ MaxLag \in Nat

VARIABLES row,      \* the row of each task
          control,  \* runs.control_state
          locked    \* a transaction that spans several steps holds the write lock

TaskStatus == {"queued", "running", "done", "error", "canceled"}
ControlState == {"active", "paused", "cancel_requested", "canceled"}
Terminal == {"done", "error", "canceled"}
Floor == -(MaxLag + 1)
Lag == 0..MaxLag

Row == [status  : TaskStatus,
        token   : Token \cup {NoToken},
        left    : Floor..LeaseWindow,
        execs   : Nat,
        limited : Nat]

NewRow == [status |-> "queued", token |-> NoToken, left |-> Floor,
           execs |-> 0, limited |-> 0]

QueueTypeOK ==
  /\ row \in [Task -> Row]
  /\ control \in ControlState
  /\ locked \in BOOLEAN

QueueInit ==
  /\ row = [t \in Task |-> NewRow]
  /\ control = "active"
  /\ locked = FALSE

Drained == \A t \in Task : row[t].status \in Terminal
Canceling == control \in {"cancel_requested", "canceled"}

------------------------------------------------------------------------------
(* One claim.  The expiry test is the strict one of the SELECT, made with a *)
(* time that is lag ticks old; queued tasks go before expired ones.         *)

(* Mutant: the live bound of the lease counts as expired. *)
ExpiredAtBound(t, lag) == row[t].status = "running" /\ row[t].left <= -lag

Expired(t, lag) == row[t].status = "running" /\ row[t].left < -lag

(* Mutant: a lapsed lease is never taken over. *)
ClaimableQueued(t, lag) == row[t].status = "queued" /\ lag \in Lag

Claimable(t, lag) ==
  \/ row[t].status = "queued"
  \/ /\ Expired(t, lag)
     /\ \A u \in Task : row[u].status # "queued"

Claimed(r, tok, lag) ==
  [r EXCEPT !.status = "running", !.token = tok, !.left = LeaseWindow - lag]

Claim(t, tok, lag) ==
  /\ ~locked
  /\ control = "active"
  /\ Claimable(t, lag)
  /\ row' = [row EXCEPT ![t] = Claimed(@, tok, lag)]
  /\ UNCHANGED <<control, locked>>

(* The guard of every update made on behalf of a claim.  It does not ask    *)
(* whether the lease has expired, only whether somebody else took it.       *)
Owns(t, tok) == row[t].status = "running" /\ row[t].token = tok

(* Mutant: lease_token is not set to NULL. *)
ReleasedWithToken(r, s) == [r EXCEPT !.status = s, !.left = Floor]

Released(r, s) == [r EXCEPT !.status = s, !.token = NoToken, !.left = Floor]

(* mark_task_done, mark_task_error, mark_task_canceled and requeue_task     *)
(* differ in the status they write; all are no-ops for a lost lease.        *)
Release(t, tok, s) ==
  /\ ~locked
  /\ row' = IF Owns(t, tok) THEN [row EXCEPT ![t] = Released(@, s)] ELSE row
  /\ UNCHANGED <<control, locked>>

MarkTaskDone(t, tok)     == Release(t, tok, "done")
MarkTaskError(t, tok)    == Release(t, tok, "error")
MarkTaskCanceled(t, tok) == Release(t, tok, "canceled")
RequeueTask(t, tok)      == Release(t, tok, "queued")

RateLimited(r) == [Released(r, "queued") EXCEPT !.limited = r.limited + 1]

RequeueTaskAfterRateLimit(t, tok) ==
  /\ ~locked
  /\ row' = IF Owns(t, tok) THEN [row EXCEPT ![t] = RateLimited(@)] ELSE row
  /\ UNCHANGED <<control, locked>>

BeginTaskExecution(t, tok) ==
  /\ ~locked
  /\ Owns(t, tok)
  /\ row' = [row EXCEPT ![t].execs = @ + 1]
  /\ UNCHANGED <<control, locked>>

(* Mutant: the grace is added to a window that has it already. *)
HeartbeatTwiceGrace(t, tok, lag) ==
  /\ ~locked
  /\ Owns(t, tok)
  /\ row' = [row EXCEPT ![t].left = LeaseWindow + 1 - lag]
  /\ UNCHANGED <<control, locked>>

(* The renewal revives a lease that has expired if nobody has taken it yet. *)
HeartbeatTaskLease(t, tok, lag) ==
  /\ ~locked
  /\ Owns(t, tok)
  /\ row' = [row EXCEPT ![t].left = LeaseWindow - lag]
  /\ UNCHANGED <<control, locked>>

------------------------------------------------------------------------------
(* The operator's commands, and time. *)

SetRunControlState(c) ==
  /\ ~locked
  /\ control' = c
  /\ UNCHANGED <<row, locked>>

(* One transaction: the run is closed to claims, and what no live lease     *)
(* protects is canceled.                                                    *)
CancelRunTasks(lag) ==
  /\ ~locked
  /\ control' = "cancel_requested"
  /\ row' = [t \in Task |->
               IF row[t].status = "queued" \/ Expired(t, lag)
               THEN Released(row[t], "canceled")
               ELSE row[t]]
  /\ UNCHANGED locked

(* attempts and rate_limit_count start again; execution_attempts does not.  *)
Retried(r) == [Released(r, "queued") EXCEPT !.limited = 0]

RequeueErrorTasks ==
  /\ ~locked
  /\ row' = [t \in Task |-> IF row[t].status = "error" THEN Retried(row[t]) ELSE row[t]]
  /\ UNCHANGED <<control, locked>>

(* run_status turns a cancel request into `canceled' once nothing is left.  *)
ConfirmCancel ==
  /\ ~locked
  /\ control = "cancel_requested"
  /\ Drained
  /\ control' = "canceled"
  /\ UNCHANGED <<row, locked>>

Tick ==
  /\ row' = [t \in Task |->
               IF row[t].left > Floor THEN [row[t] EXCEPT !.left = @ - 1] ELSE row[t]]
  /\ UNCHANGED <<control, locked>>
==============================================================================
