----------------------------- MODULE RunLifecycle -----------------------------
(***************************************************************************)
(* The life of a run: the status column derived from its tasks, the        *)
(* control_state column the operator writes, and run_status (db.py), which *)
(* waiting workers and commands call to read both and which writes both    *)
(* back.                                                                   *)
(*                                                                         *)
(* run_status reads the run, then counts the tasks, then updates the run:  *)
(* three statements and no transaction around them, so each is a step of   *)
(* its own here.  What the workers do to their rows is FarmWorkers; here   *)
(* the owner of a lease may end it in any of the ways it could there.      *)
(***************************************************************************)
EXTENDS TaskQueue

CONSTANTS Reader,    \* callers of run_status: waiting workers and commands
          Commands   \* operator commands given: pause resume cancel retry

VARIABLES status,    \* runs.status
          poll,      \* each reader's call of run_status
          intent,    \* what the operator commanded last
          retried    \* retry-errors has requeued the run's errors

vars == <<row, control, locked, status, poll, intent, retried>>

RunStatus == {"queued", "running", "paused", "done", "error", "canceled"}
Finished == {"done", "error", "canceled"}

(* at: idle, between the reads, before the write, about to requeue errors,  *)
(* or gone.  The rest is what the call has read or computed so far.         *)
Poll == [at        : {"idle", "counting", "writing", "retrying", "gone"},
         was       : RunStatus,
         control   : ControlState,
         effective : RunStatus,
         queued    : BOOLEAN,
         running   : BOOLEAN]

IdlePoll == [at |-> "idle", was |-> "queued", control |-> "active",
             effective |-> "queued", queued |-> FALSE, running |-> FALSE]

LifecycleTypeOK ==
  /\ QueueTypeOK
  /\ status \in RunStatus
  /\ poll \in [Reader -> Poll]
  /\ intent \in {"active", "paused", "canceled"}
  /\ retried \in BOOLEAN

Init ==
  /\ QueueInit
  /\ status = "queued"
  /\ poll = [r \in Reader |-> IdlePoll]
  /\ intent = "active"
  /\ retried = FALSE

------------------------------------------------------------------------------
InStatus(s) == {t \in Task : row[t].status = s}

(* Mutant: the control state of a run that is being canceled is its status. *)
DeriveControlStatus(c) ==
  IF c = "active" THEN (IF Drained THEN "done" ELSE "running") ELSE c

(* derive_effective_status, by the first rule that applies.                 *)
DeriveEffectiveStatus(c) ==
  IF Task = {} THEN "queued"
  ELSE IF c = "paused" /\ InStatus("queued") # {} /\ InStatus("running") = {} THEN "paused"
  ELSE IF c \in {"cancel_requested", "canceled"} /\ Drained THEN "canceled"
  ELSE IF InStatus("queued") = Task THEN "queued"
  ELSE IF ~Drained THEN "running"
  ELSE IF InStatus("error") # {} THEN "error" ELSE "done"

PollRun(r) ==
  /\ poll[r].at = "idle"
  /\ poll' = [poll EXCEPT ![r].at = "counting", ![r].was = status, ![r].control = control]
  /\ UNCHANGED <<row, control, locked, status, intent, retried>>

PollCounts(r) ==
  /\ poll[r].at = "counting"
  /\ poll' = [poll EXCEPT ![r].at = "writing",
                          ![r].effective = DeriveEffectiveStatus(poll[r].control),
                          ![r].queued = InStatus("queued") # {},
                          ![r].running = InStatus("running") # {}]
  /\ UNCHANGED <<row, control, locked, status, intent, retried>>

(* Mutant: a cancel request is confirmed although tasks are queued.         *)
PersistedWhileQueued(p) ==
  IF p.control = "cancel_requested" /\ ~p.running THEN "canceled" ELSE p.control

(* A cancel request is confirmed once nothing was queued and nothing ran.   *)
Persisted(p) ==
  IF p.control = "cancel_requested" /\ ~p.queued /\ ~p.running THEN "canceled" ELSE p.control

(* Mutant: a worker leaves a run in which nothing runs.                     *)
AnsweredUnlessRunning(r) ==
  poll' = [poll EXCEPT ![r] =
             [IdlePoll EXCEPT !.at = IF poll[r].running THEN "idle" ELSE "gone"]]

(* retry-errors goes on only if nothing runs and nobody cancels; a worker   *)
(* leaves when it is told the run has finished, and asks again otherwise.   *)
Answered(r) ==
  \/ /\ "retry" \in Commands
     /\ ~poll[r].running
     /\ Persisted(poll[r]) \notin {"cancel_requested", "canceled"}
     /\ poll' = [poll EXCEPT ![r] = [IdlePoll EXCEPT !.at = "retrying"]]
  \/ poll' = [poll EXCEPT ![r] =
                [IdlePoll EXCEPT !.at =
                   IF poll[r].effective \in Finished THEN "gone" ELSE "idle"]]

(* Both columns are written when one of them differs from what was read.    *)
PollWrite(r) ==
  /\ poll[r].at = "writing"
  /\ ~locked
  /\ IF poll[r].was # poll[r].effective \/ poll[r].control # Persisted(poll[r])
     THEN /\ status' = poll[r].effective
          /\ control' = Persisted(poll[r])
     ELSE UNCHANGED <<status, control>>
  /\ Answered(r)
  /\ UNCHANGED <<row, locked, intent, retried>>

StartReader(r) ==
  /\ poll[r].at = "gone"
  /\ poll' = [poll EXCEPT ![r] = IdlePoll]
  /\ UNCHANGED <<row, control, locked, status, intent, retried>>

------------------------------------------------------------------------------
(* lease_one_task also sets runs.status. *)
Lease(t) ==
  /\ \E tok \in Token, lag \in Lag : Claim(t, tok, lag)
  /\ status' = "running"
  /\ UNCHANGED <<poll, intent, retried>>

EndLease(t) ==
  /\ \E s \in TaskStatus \ {"running"} : Owns(t, row[t].token) /\ Release(t, row[t].token, s)
  /\ UNCHANGED <<status, poll, intent, retried>>

Renew(t) ==
  /\ \E lag \in Lag : HeartbeatTaskLease(t, row[t].token, lag)
  /\ UNCHANGED <<status, poll, intent, retried>>

(* pause, resume and cancel write first and call run_status afterwards.     *)
Pause ==
  /\ "pause" \in Commands
  /\ SetRunControlState("paused")
  /\ intent' = "paused"
  /\ UNCHANGED <<status, poll, retried>>

Resume ==
  /\ "resume" \in Commands
  /\ SetRunControlState("active")
  /\ intent' = "active"
  /\ UNCHANGED <<status, poll, retried>>

Cancel ==
  /\ "cancel" \in Commands
  /\ \E lag \in Lag : CancelRunTasks(lag)
  /\ intent' = "canceled"
  /\ UNCHANGED <<status, poll, retried>>

RetryErrors(r) ==
  /\ poll[r].at = "retrying"
  /\ RequeueErrorTasks
  /\ poll' = [poll EXCEPT ![r].at = "idle"]
  /\ retried' = TRUE
  /\ UNCHANGED <<status, intent>>

Time == Tick /\ UNCHANGED <<status, poll, intent, retried>>

Next ==
  \/ \E r \in Reader : \/ PollRun(r) \/ PollCounts(r) \/ PollWrite(r)
                       \/ StartReader(r) \/ RetryErrors(r)
  \/ \E t \in Task : Lease(t) \/ EndLease(t) \/ Renew(t)
  \/ Pause \/ Resume \/ Cancel
  \/ Time

Spec == Init /\ [][Next]_vars

------------------------------------------------------------------------------
(* A run whose cancellation is confirmed has nothing left to do, and says   *)
(* so: no call of run_status that began earlier can take that back half.    *)
(* Once retry-errors was used this no longer holds: its check and its       *)
(* update are two transactions, and a cancel may come between them.         *)
CanceledMeansDrained ==
  control = "canceled" /\ ~retried => Drained /\ status = "canceled"

(* When the last worker that waited for the run has left, runs.status is    *)
(* final: whoever writes a stale status asks again.  After retry-errors it  *)
(* may stay "running": a caller that read "error" before the lease of a     *)
(* requeued task and counts it as an error again finds nothing to write.    *)
LastStatusFinal ==
  (\A r \in Reader : poll[r].at = "gone") /\ ~retried => status \in Finished

(* cli.py, run pause: "Pause a run so workers stop leasing new tasks."  A   *)
(* task is leased only while the operator's last command lets it.           *)
LeasesFollowIntent ==
  [][(\E t \in Task : Lease(t)) => intent = "active"]_vars
==============================================================================
