------------------------------- MODULE Throttle -------------------------------
(***************************************************************************)
(* Recovery from provider rate limits: the run_throttle_state row, the     *)
(* policy of rate_limit_policy.py, the admission test of lease_one_task    *)
(* and the two places where worker_loop reads the row, computes its        *)
(* successor and writes it back in a later transaction.                    *)
(*                                                                         *)
(* A worker's name stands for its lease token here: two claims of one      *)
(* worker never overlap.  Cooldowns are kept, like leases, as the number   *)
(* of ticks that remain; 0 stands for an elapsed cooldown and for NULL.    *)
(***************************************************************************)
EXTENDS TaskQueue, FiniteSets

CONSTANTS NoTask,
          NoThrottle,         \* the run has no throttle row
          Desired,            \* --workers, as frozen in the run's config
          BaseCooldown,
          MaxCooldown,
          Hints,              \* retry-after hints a provider sends
          Threshold,          \* successes that raise the limit by one
          MaxConsecutive,     \* rate limits in a row after which a worker gives up
          MaxRateLimits,      \* bound: rate limits counted against one task
          MaxCrashes          \* bound: processes killed

ASSUME ThrottleAssumption ==
  /\ {Desired, BaseCooldown, MaxCooldown, Threshold, MaxConsecutive} \subseteq Nat \ {0}
  /\ BaseCooldown <= MaxCooldown
  /\ Hints \subseteq Nat \ {0}
  /\ {MaxRateLimits, MaxCrashes} \subseteq Nat

VARIABLES throttle,  \* the run's row of run_throttle_state
          worker,    \* what each worker holds
          promised,  \* what remains of the longest cooldown a rate limit announced
          heard,     \* the rate limits so far                 (for the properties only)
          crashes

Worker == Token
vars == <<row, control, locked, throttle, worker, promised, heard, crashes>>

ThrottleState == [limit  : 1..Desired,
                  cool   : 0..MaxCooldown,
                  last   : 1..MaxCooldown,
                  hits   : Nat,
                  streak : 0..(Threshold - 1)]

(* next is the throttle row a worker has computed and not yet written.      *)
WorkerState == [phase : {"top", "executing", "limited", "done", "recovered", "gaveup", "dead"},
                task  : Task \cup {NoTask},
                next  : ThrottleState \cup {NoThrottle}]

(* Rate limits in all, and since a success last ended a series: counted up  *)
(* to MaxConsecutive.                                                       *)
HeardState == [ever : 0..MaxConsecutive, series : 0..MaxConsecutive]

Holding(p) == [phase |-> p, task |-> NoTask, next |-> NoThrottle]

ThrottleTypeOK ==
  /\ QueueTypeOK
  /\ throttle \in ThrottleState \cup {NoThrottle}
  /\ worker \in [Worker -> WorkerState]
  /\ promised \in 0..MaxCooldown
  /\ heard \in HeardState
  /\ crashes \in 0..MaxCrashes

Init ==
  /\ QueueInit
  /\ throttle = NoThrottle
  /\ worker = [w \in Worker |-> Holding("top")]
  /\ promised = 0
  /\ heard = [ever |-> 0, series |-> 0]
  /\ crashes = 0

------------------------------------------------------------------------------
(* The policy. *)

AtMost(x, y) == IF x < y THEN x ELSE y
AtLeast(x, y) == IF x > y THEN x ELSE y
Clamp(x, low, high) == AtLeast(low, AtMost(x, high))

CooldownAfter(s, hint) ==
  IF hint > 0
  THEN Clamp(hint, 1, MaxCooldown)
  ELSE Clamp(IF s = NoThrottle THEN BaseCooldown ELSE 2 * s.last,
             BaseCooldown, MaxCooldown)

(* Mutant: half the limit, rounded down. *)
ApplyRateLimitDown(s, hint) ==
  LET seconds == CooldownAfter(s, hint)
  IN [limit  |-> (IF s = NoThrottle THEN Desired ELSE s.limit) \div 2,
      cool   |-> seconds,
      last   |-> seconds,
      hits   |-> IF s = NoThrottle THEN 1 ELSE s.hits + 1,
      streak |-> 0]

(* Half the limit, rounded up, and a longer cooldown.                       *)
ApplyRateLimit(s, hint) ==
  LET limit == IF s = NoThrottle THEN Desired ELSE s.limit
      seconds == CooldownAfter(s, hint)
  IN [limit  |-> (limit + 1) \div 2,
      cool   |-> seconds,
      last   |-> seconds,
      hits   |-> IF s = NoThrottle THEN 1 ELSE s.hits + 1,
      streak |-> 0]

(* While the cooldown lasts a success changes nothing; afterwards it ends   *)
(* the series, and every Threshold-th raises the limit by one.              *)
ApplySuccess(s) ==
  IF s.cool > 0
  THEN s
  ELSE [s EXCEPT !.hits = 0,
                 !.streak = (s.streak + 1) % Threshold,
                 !.limit = IF s.streak + 1 >= Threshold
                           THEN AtMost(Desired, s.limit + 1) ELSE s.limit]

ShouldGiveUp(s) == s.hits >= MaxConsecutive

------------------------------------------------------------------------------
(* The workers. *)

Live(lag) == {t \in Task : row[t].status = "running" /\ row[t].left >= -lag}

(* Mutant: leases that have expired are counted, too. *)
AdmitsRunning(lag) ==
  throttle # NoThrottle =>
     /\ throttle.cool = 0 /\ lag \in Lag
     /\ Cardinality({t \in Task : row[t].status = "running"}) < throttle.limit

(* What lease_one_task requires of a throttled run.  A cooldown that ended  *)
(* less than lag ticks ago may still be seen to last.                       *)
Admits(lag) ==
  throttle # NoThrottle =>
     /\ throttle.cool = 0
     /\ Cardinality(Live(lag)) < throttle.limit

LeaseOneTask(w) ==
  /\ worker[w].phase = "top"
  /\ \E t \in Task, lag \in Lag :
       /\ Admits(lag)
       /\ Claim(t, w, lag)
       /\ worker' = [worker EXCEPT ![w] = [Holding("executing") EXCEPT !.task = t]]
  /\ UNCHANGED <<throttle, promised, heard, crashes>>

(* A 429: the throttle row is read and its successor computed.              *)
ReadForRateLimit(w) ==
  /\ worker[w].phase = "executing"
  /\ row[worker[w].task].limited < MaxRateLimits
  /\ \E hint \in Hints \cup {0} :
       worker' = [worker EXCEPT ![w].phase = "limited",
                                ![w].next = ApplyRateLimit(throttle, hint)]
  /\ heard' = [ever   |-> AtMost(MaxConsecutive, heard.ever + 1),
               series |-> AtMost(MaxConsecutive, heard.series + 1)]
  /\ UNCHANGED <<row, control, locked, throttle, promised, crashes>>

(* Mutant: a worker that gives up does not requeue its task. *)
CommitRateLimitUnlessGivingUp(w) ==
  /\ worker[w].phase = "limited"
  /\ IF ShouldGiveUp(worker[w].next)
     THEN UNCHANGED <<row, control, locked>>
     ELSE RequeueTaskAfterRateLimit(worker[w].task, w)
  /\ throttle' = worker[w].next
  /\ promised' = AtLeast(promised, worker[w].next.cool)
  /\ worker' = [worker EXCEPT
                  ![w] = Holding(IF ShouldGiveUp(worker[w].next) THEN "gaveup" ELSE "top")]
  /\ UNCHANGED <<heard, crashes>>

(* Mutant: the rate limit is counted when it is read and again on writing.  *)
CommitRateLimitTwice(w) ==
  /\ worker[w].phase = "limited"
  /\ RequeueTaskAfterRateLimit(worker[w].task, w)
  /\ IF Owns(worker[w].task, w)
     THEN /\ throttle' = [worker[w].next EXCEPT !.hits = @ + 1]
          /\ promised' = AtLeast(promised, worker[w].next.cool)
     ELSE UNCHANGED <<throttle, promised>>
  /\ worker' = [worker EXCEPT
                  ![w] = Holding(IF ShouldGiveUp(worker[w].next) THEN "gaveup" ELSE "top")]
  /\ UNCHANGED <<heard, crashes>>

(* One transaction requeues the task and writes the throttle row, unless    *)
(* the task is somebody else's by now.                                      *)
CommitRateLimit(w) ==
  /\ worker[w].phase = "limited"
  /\ RequeueTaskAfterRateLimit(worker[w].task, w)
  /\ IF Owns(worker[w].task, w)
     THEN /\ throttle' = worker[w].next
          /\ promised' = AtLeast(promised, worker[w].next.cool)
     ELSE UNCHANGED <<throttle, promised>>
  /\ worker' = [worker EXCEPT
                  ![w] = Holding(IF ShouldGiveUp(worker[w].next) THEN "gaveup" ELSE "top")]
  /\ UNCHANGED <<heard, crashes>>

Succeed(w) ==
  /\ worker[w].phase = "executing"
  /\ MarkTaskDone(worker[w].task, w)
  /\ worker' = [worker EXCEPT ![w] = Holding(IF Owns(worker[w].task, w) THEN "done" ELSE "top")]
  /\ UNCHANGED <<throttle, promised, heard, crashes>>

ReadForSuccess(w) ==
  /\ worker[w].phase = "done"
  /\ worker' = [worker EXCEPT ![w] =
                  IF throttle = NoThrottle THEN Holding("top")
                  ELSE [Holding("recovered") EXCEPT !.next = ApplySuccess(throttle)]]
  /\ UNCHANGED <<row, control, locked, throttle, promised, heard, crashes>>

CommitSuccess(w) ==
  /\ worker[w].phase = "recovered"
  /\ ~locked
  /\ throttle' = worker[w].next
  /\ heard' = [heard EXCEPT !.series = IF throttle'.hits = 0 THEN 0 ELSE heard.series]
  /\ worker' = [worker EXCEPT ![w] = Holding("top")]
  /\ UNCHANGED <<row, control, locked, promised, crashes>>

(* Every other end of an execution leaves the throttle row alone; retries   *)
(* are FarmWorkers' subject.                                                *)
Fail(w) ==
  /\ worker[w].phase = "executing"
  /\ MarkTaskError(worker[w].task, w)
  /\ worker' = [worker EXCEPT ![w] = Holding("top")]
  /\ UNCHANGED <<throttle, promised, heard, crashes>>

Heartbeat(w) ==
  /\ worker[w].phase \in {"executing", "limited"}
  /\ \E lag \in Lag : HeartbeatTaskLease(worker[w].task, w, lag)
  /\ UNCHANGED <<throttle, worker, promised, heard, crashes>>

Crash(w) ==
  /\ worker[w].phase \notin {"gaveup", "dead"}
  /\ crashes < MaxCrashes
  /\ crashes' = crashes + 1
  /\ worker' = [worker EXCEPT ![w] = Holding("dead")]
  /\ UNCHANGED <<row, control, locked, throttle, promised, heard>>

------------------------------------------------------------------------------
Sooner(n) == AtLeast(0, n - 1)
Cooler(s) == IF s = NoThrottle THEN s ELSE [s EXCEPT !.cool = Sooner(s.cool)]

(* A computed cooldown ends at a fixed time, written or not.                *)
Time ==
  /\ Tick
  /\ throttle' = Cooler(throttle)
  /\ worker' = [w \in Worker |-> [worker[w] EXCEPT !.next = Cooler(worker[w].next)]]
  /\ promised' = Sooner(promised)
  /\ UNCHANGED <<heard, crashes>>

Work(w) ==
  \/ LeaseOneTask(w)
  \/ ReadForRateLimit(w) \/ CommitRateLimit(w)
  \/ Succeed(w) \/ ReadForSuccess(w) \/ CommitSuccess(w)
  \/ Fail(w)

Next ==
  \/ \E w \in Worker : Work(w) \/ Heartbeat(w) \/ Crash(w)
  \/ Time

Spec == Init /\ [][Next]_vars

(* Every execution ends, heartbeats go on, and time passes as long as they  *)
(* keep up with it.                                                         *)
TimelyTime ==
  /\ \A w \in Worker :
       worker[w].phase \in {"executing", "limited"} /\ Owns(worker[w].task, w)
       => row[worker[w].task].left > 0
  /\ Time

FairSpec ==
  /\ Spec
  /\ \A w \in Worker : WF_vars(Work(w)) /\ WF_vars(Heartbeat(w))
  /\ WF_vars(TimelyTime)

(* No heartbeat has come too late: no lease of a worker that lives has run  *)
(* out.                                                                     *)
OnTime ==
  \A w \in Worker :
    worker[w].phase \in {"executing", "limited"} /\ Owns(worker[w].task, w)
    => row[worker[w].task].left >= 0

------------------------------------------------------------------------------
(* A worker that gives up leaves its work resumable: no task is still       *)
(* leased to it, whoever else took the task over or rate limited the run.   *)
GiveUpLeavesNothing ==
  \A w \in Worker : worker[w].phase = "gaveup" =>
    \A t \in Task : ~Owns(t, w)

(* A worker gives up only when MaxConsecutive rate limits have come from    *)
(* the provider: the count that workers read, raise and write over each     *)
(* other's is never ahead of the rate limits there were.                    *)
GiveUpAfterLimits ==
  \A w \in Worker : worker[w].phase = "gaveup" => heard.ever = MaxConsecutive

(* docs/04-worker-execution-and-retries: "worker exits non-zero only after  *)
(* max consecutive rate-limit events".  When a worker counts enough to give *)
(* up, that many have come since a success last ended a series.             *)
GiveUpAfterSeries ==
  [][\A w \in Worker :
       worker[w].phase = "executing" /\ worker'[w].phase = "limited"
         /\ ShouldGiveUp(worker'[w].next)
       => heard'.series = MaxConsecutive]_vars

(* The run resumes by itself: cooldowns end, the reduced limit is never     *)
(* used up by leases of the dead, and while heartbeats are in time the      *)
(* tasks settle unless every worker gave up or died.                        *)
RunResumes ==
  []OnTime => <>(Drained \/ \A w \in Worker : worker[w].phase \in {"gaveup", "dead"})

(* docs/04-worker-execution-and-retries: "workers stop claiming while       *)
(* cooldown is active and resume automatically".  No claim is made before   *)
(* an announced cooldown has elapsed.                                       *)
CooldownKept ==
  [][\A t \in Task : row'[t].token # row[t].token /\ row'[t].token # NoToken
       => promised = 0]_vars
==============================================================================
