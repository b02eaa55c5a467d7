--------------------------- MODULE Throttle_proofs ---------------------------
(***************************************************************************)
(* The three invariants of Throttle, for any number of tasks and workers   *)
(* and any setting of the policy.                                          *)
(***************************************************************************)
EXTENDS Throttle, TaskQueue_proofs

(* What a worker holds goes with where it is.                               *)
Holds(p) ==
  /\ p.phase \in {"executing", "limited"} => p.task \in Task
  /\ p.phase \in {"limited", "recovered"} => p.next \in ThrottleState

TypeInv == ThrottleTypeOK /\ \A w \in Worker : Holds(worker[w])

(* A row leased to a worker that lives is the one the worker works on.      *)
LeasesHeld ==
  \A w \in Worker, t \in Task :
    Owns(t, w) => \/ worker[w].phase = "dead"
                  \/ worker[w].phase \in {"executing", "limited"} /\ worker[w].task = t

(* Every count, written or about to be, is of rate limits there were; it is *)
(* compared up to MaxConsecutive, where heard stops counting.               *)
Counted(n, ever) == AtMost(MaxConsecutive, n) <= ever

CountsHeard ==
  /\ throttle # NoThrottle => Counted(throttle.hits, heard.ever)
  /\ \A w \in Worker :
       /\ worker[w].phase \in {"limited", "recovered"} => Counted(worker[w].next.hits, heard.ever)
       /\ worker[w].phase = "gaveup" => heard.ever = MaxConsecutive

------------------------------------------------------------------------------
(* The policy: the row it computes is a row of the table, whatever it was   *)
(* given.                                                                   *)

LEMMA PolicyNumbers ==
  /\ Desired \in Nat \ {0} /\ BaseCooldown \in Nat \ {0} /\ MaxCooldown \in Nat \ {0}
  /\ Threshold \in Nat \ {0} /\ MaxConsecutive \in Nat \ {0}
  /\ BaseCooldown <= MaxCooldown
  /\ \A hint \in Hints \cup {0} : hint \in Nat
BY ThrottleAssumption

LEMMA CooldownBounds ==
  ASSUME NEW s \in ThrottleState \cup {NoThrottle}, NEW hint \in Nat
  PROVE  CooldownAfter(s, hint) \in 1..MaxCooldown
<1>1. CASE s = NoThrottle
  BY <1>1, PolicyNumbers DEF CooldownAfter, Clamp, AtMost, AtLeast
<1>2. CASE s # NoThrottle
  <2>1. s.last \in Nat
    BY <1>2, PolicyNumbers DEF ThrottleState
  <2> QED
    BY <1>2, <2>1, PolicyNumbers DEF CooldownAfter, Clamp, AtMost, AtLeast
<1> QED
  BY <1>1, <1>2

LEMMA HalfBounds ==
  ASSUME NEW n \in 1..Desired
  PROVE  (n + 1) \div 2 \in 1..Desired
BY PolicyNumbers

LEMMA RateLimitRow ==
  ASSUME NEW s \in ThrottleState \cup {NoThrottle}, NEW hint \in Nat
  PROVE  ApplyRateLimit(s, hint) \in ThrottleState
<1> DEFINE limit == IF s = NoThrottle THEN Desired ELSE s.limit
           hits == IF s = NoThrottle THEN 1 ELSE s.hits + 1
           seconds == CooldownAfter(s, hint)
<1>1. limit \in 1..Desired /\ hits \in Nat
  BY PolicyNumbers DEF ThrottleState
<1>2. (limit + 1) \div 2 \in 1..Desired
  BY <1>1, HalfBounds
<1>3. seconds \in 1..MaxCooldown /\ seconds \in 0..MaxCooldown
  BY CooldownBounds, PolicyNumbers
<1>4. 0 \in 0..(Threshold - 1)
  BY PolicyNumbers
<1>5. ApplyRateLimit(s, hint) = [limit |-> (limit + 1) \div 2, cool |-> seconds,
                                 last |-> seconds, hits |-> hits, streak |-> 0]
  BY DEF ApplyRateLimit
<1> HIDE DEF limit, hits, seconds
<1> QED
  BY <1>1, <1>2, <1>3, <1>4, <1>5 DEF ThrottleState

LEMMA StreakBounds ==
  ASSUME NEW n \in 0..(Threshold - 1)
  PROVE  (n + 1) % Threshold \in 0..(Threshold - 1)
BY PolicyNumbers

LEMMA SuccessRow ==
  ASSUME NEW s \in ThrottleState
  PROVE  ApplySuccess(s) \in ThrottleState
<1>1. (s.streak + 1) % Threshold \in 0..(Threshold - 1)
  BY StreakBounds DEF ThrottleState
<1>2. AtMost(Desired, s.limit + 1) \in 1..Desired
  BY PolicyNumbers DEF AtMost, ThrottleState
<1> QED
  BY <1>1, <1>2 DEF ApplySuccess, ThrottleState

LEMMA CoolerRow ==
  ASSUME NEW s \in ThrottleState
  PROVE  Cooler(s) \in ThrottleState
BY PolicyNumbers DEF Cooler, Sooner, AtLeast, ThrottleState

------------------------------------------------------------------------------
(* Types. *)

LEMMA HoldingType ==
  ASSUME NEW p \in {"top", "done", "gaveup", "dead"}
  PROVE  /\ Holding(p) \in WorkerState /\ Holds(Holding(p))
         /\ Holding(p).phase = p
BY DEF Holding, WorkerState, Holds

(* A step of one worker: what it holds afterwards decides everything.       *)
LEMMA OneWorker ==
  ASSUME TypeInv, NEW w \in Worker, NEW p \in WorkerState, Holds(p),
         worker' = [worker EXCEPT ![w] = p],
         QueueTypeOK', throttle' \in ThrottleState \cup {NoThrottle},
         promised' \in 0..MaxCooldown, heard' \in HeardState, crashes' \in 0..MaxCrashes
  PROVE  TypeInv'
<1>1. worker' \in [Worker -> WorkerState]
  BY DEF TypeInv, ThrottleTypeOK
<1>2. worker'[w] = p /\ \A v \in Worker : v # w => worker'[v] = worker[v]
  BY DEF TypeInv, ThrottleTypeOK
<1>3. ASSUME NEW v \in Worker
      PROVE  Holds(worker[v])'
  BY <1>2 DEF TypeInv, Holds
<1> QED
  BY <1>1, <1>3 DEF TypeInv, ThrottleTypeOK

LEMMA OneMore ==
  ASSUME NEW n \in 0..MaxConsecutive
  PROVE  AtMost(MaxConsecutive, n + 1) \in 0..MaxConsecutive
BY PolicyNumbers DEF AtMost

LEMMA HeardTyped ==
  ASSUME TypeInv, NEW w \in Worker, ReadForRateLimit(w) \/ CommitSuccess(w)
  PROVE  heard' \in HeardState
<1>1. heard \in HeardState /\ heard.ever \in 0..MaxConsecutive /\ heard.series \in 0..MaxConsecutive
  BY DEF TypeInv, ThrottleTypeOK, HeardState
<1>2. CASE ReadForRateLimit(w)
  BY <1>1, <1>2, OneMore DEF ReadForRateLimit, HeardState
<1>3. CASE CommitSuccess(w)
  <2>1. 0 \in 0..MaxConsecutive
    BY PolicyNumbers
  <2> QED
    BY <1>1, <1>3, <2>1 DEF CommitSuccess, HeardState
<1> QED
  BY <1>2, <1>3

LEMMA SameQueueType ==
  ASSUME TypeInv, UNCHANGED <<row, control, locked>>
  PROVE  QueueTypeOK'
BY DEF TypeInv, ThrottleTypeOK, QueueTypeOK

LEMMA LeaseTyped ==
  ASSUME TypeInv, NEW w \in Worker, LeaseOneTask(w)
  PROVE  TypeInv'
<1>1. PICK t \in Task, lag \in Lag :
        /\ Claim(t, w, lag)
        /\ worker' = [worker EXCEPT ![w] = [Holding("executing") EXCEPT !.task = t]]
  BY DEF LeaseOneTask
<1>2. QueueTypeOK'
  BY <1>1, ClaimType DEF TypeInv, ThrottleTypeOK, Worker
<1> DEFINE p == [Holding("executing") EXCEPT !.task = t]
<1>3. p \in WorkerState /\ Holds(p)
  BY DEF Holding, WorkerState, Holds
<1> HIDE DEF p
<1> QED
  BY <1>1, <1>2, <1>3, OneWorker DEF LeaseOneTask, TypeInv, ThrottleTypeOK, p

LEMMA ReadTyped ==
  ASSUME TypeInv, NEW w \in Worker, ReadForRateLimit(w) \/ ReadForSuccess(w)
  PROVE  TypeInv'
<1>1. CASE ReadForRateLimit(w)
  <2>1. PICK hint \in Hints \cup {0} :
          worker' = [worker EXCEPT ![w].phase = "limited",
                                   ![w].next = ApplyRateLimit(throttle, hint)]
    BY <1>1 DEF ReadForRateLimit
  <2>2. ApplyRateLimit(throttle, hint) \in ThrottleState
    BY RateLimitRow, PolicyNumbers DEF TypeInv, ThrottleTypeOK
  <2> DEFINE p == [worker[w] EXCEPT !.phase = "limited",
                                    !.next = ApplyRateLimit(throttle, hint)]
  <2>3. p \in WorkerState /\ Holds(p)
    BY <1>1, <2>2 DEF ReadForRateLimit, TypeInv, ThrottleTypeOK, WorkerState, Holds
  <2>4. worker' = [worker EXCEPT ![w] = p]
    BY <2>1
  <2> HIDE DEF p
  <2> QED
    BY <1>1, <2>3, <2>4, OneWorker, SameQueueType, HeardTyped DEF ReadForRateLimit, TypeInv, ThrottleTypeOK
<1>2. CASE ReadForSuccess(w)
  <2> DEFINE p == IF throttle = NoThrottle THEN Holding("top")
                  ELSE [Holding("recovered") EXCEPT !.next = ApplySuccess(throttle)]
  <2>1. throttle # NoThrottle => ApplySuccess(throttle) \in ThrottleState
    BY SuccessRow DEF TypeInv, ThrottleTypeOK
  <2>2. p \in WorkerState /\ Holds(p)
    BY <2>1 DEF Holding, WorkerState, Holds
  <2>3. worker' = [worker EXCEPT ![w] = p]
    BY <1>2 DEF ReadForSuccess
  <2> HIDE DEF p
  <2> QED
    BY <1>2, <2>2, <2>3, OneWorker, SameQueueType DEF ReadForSuccess, TypeInv, ThrottleTypeOK
<1> QED
  BY <1>1, <1>2

LEMMA RateLimitTyped ==
  ASSUME TypeInv, NEW w \in Worker, CommitRateLimit(w)
  PROVE  TypeInv'
<1>1. worker[w].task \in Task /\ worker[w].next \in ThrottleState
  BY DEF CommitRateLimit, TypeInv, Holds
<1>2. QueueTypeOK'
  BY <1>1, RateLimitType DEF CommitRateLimit, TypeInv, ThrottleTypeOK, Worker
<1>3. worker[w].next.cool \in 0..MaxCooldown
  BY <1>1 DEF ThrottleState
<1>4. throttle' \in ThrottleState \cup {NoThrottle}
  BY <1>1 DEF CommitRateLimit, TypeInv, ThrottleTypeOK
<1>5. AtLeast(promised, worker[w].next.cool) \in 0..MaxCooldown
  BY <1>3 DEF AtLeast, TypeInv, ThrottleTypeOK
<1>6. promised' \in 0..MaxCooldown
  BY <1>5 DEF CommitRateLimit, TypeInv, ThrottleTypeOK
<1>7. PICK p \in {"gaveup", "top"} : worker' = [worker EXCEPT ![w] = Holding(p)]
  BY DEF CommitRateLimit
<1> QED
  BY <1>2, <1>4, <1>6, <1>7, HoldingType, OneWorker DEF CommitRateLimit, TypeInv, ThrottleTypeOK

LEMMA EndTyped ==
  ASSUME TypeInv, NEW w \in Worker, Succeed(w) \/ Fail(w)
  PROVE  TypeInv'
<1>1. worker[w].task \in Task
  BY DEF Succeed, Fail, TypeInv, Holds
<1>2. QueueTypeOK'
  BY <1>1, ReleaseType
  DEF Succeed, Fail, MarkTaskDone, MarkTaskError, TypeInv, ThrottleTypeOK, Worker, TaskStatus
<1>3. PICK p \in {"done", "top"} : worker' = [worker EXCEPT ![w] = Holding(p)]
  BY DEF Succeed, Fail
<1> QED
  BY <1>2, <1>3, HoldingType, OneWorker DEF Succeed, Fail, TypeInv, ThrottleTypeOK

LEMMA CommitSuccessTyped ==
  ASSUME TypeInv, NEW w \in Worker, CommitSuccess(w)
  PROVE  TypeInv'
<1>1. worker[w].next \in ThrottleState
  BY DEF CommitSuccess, TypeInv, Holds
<1> QED
  BY <1>1, HoldingType, OneWorker, SameQueueType, HeardTyped DEF CommitSuccess, TypeInv, ThrottleTypeOK

LEMMA HeartbeatCrashTyped ==
  ASSUME TypeInv, NEW w \in Worker, Heartbeat(w) \/ Crash(w)
  PROVE  TypeInv'
<1>1. CASE Heartbeat(w)
  <2>1. worker[w].task \in Task
    BY <1>1 DEF Heartbeat, TypeInv, Holds
  <2>2. QueueTypeOK'
    BY <1>1, <2>1, HeartbeatType DEF Heartbeat, TypeInv, ThrottleTypeOK, Worker
  <2> QED
    BY <1>1, <2>2 DEF Heartbeat, TypeInv, ThrottleTypeOK, Holds
<1>2. CASE Crash(w)
  <2>1. crashes' \in 0..MaxCrashes
    BY <1>2, ThrottleAssumption DEF Crash, TypeInv, ThrottleTypeOK
  <2> QED
    BY <1>2, <2>1, HoldingType, OneWorker, SameQueueType DEF Crash, TypeInv, ThrottleTypeOK
<1> QED
  BY <1>1, <1>2

LEMMA TimeTyped ==
  ASSUME TypeInv, Time
  PROVE  TypeInv'
<1>1. QueueTypeOK'
  BY TickType DEF Time, TypeInv, ThrottleTypeOK
<1>2. \A s \in ThrottleState \cup {NoThrottle} :
        Cooler(s) \in ThrottleState \cup {NoThrottle}
  BY CoolerRow DEF Cooler
<1>3. throttle' \in ThrottleState \cup {NoThrottle}
  BY <1>2 DEF Time, TypeInv, ThrottleTypeOK
<1>4. promised' \in 0..MaxCooldown
  BY PolicyNumbers DEF Time, Sooner, AtLeast, TypeInv, ThrottleTypeOK
<1>5. ASSUME NEW w \in Worker
      PROVE  [worker[w] EXCEPT !.next = Cooler(worker[w].next)] \in WorkerState
  <2>1. worker[w] \in WorkerState /\ worker[w].next \in ThrottleState \cup {NoThrottle}
    BY DEF TypeInv, ThrottleTypeOK, WorkerState
  <2> QED
    BY <1>2, <2>1 DEF WorkerState
<1>6. worker' \in [Worker -> WorkerState]
  BY <1>5 DEF Time
<1>7. ASSUME NEW w \in Worker
      PROVE  Holds(worker[w])'
  <2>1. /\ worker'[w].phase = worker[w].phase /\ worker'[w].task = worker[w].task
        /\ worker'[w].next = Cooler(worker[w].next)
    BY DEF Time, TypeInv, ThrottleTypeOK, WorkerState
  <2> QED
    BY <2>1, CoolerRow DEF TypeInv, Holds
<1> QED
  BY <1>1, <1>3, <1>4, <1>6, <1>7 DEF Time, TypeInv, ThrottleTypeOK

LEMMA Typing == Spec => []TypeInv
<1>1. Init => TypeInv
  BY QueueInitType, HoldingType, ThrottleAssumption, PolicyNumbers
  DEF Init, TypeInv, ThrottleTypeOK, HeardState
<1>2. TypeInv /\ [Next]_vars => TypeInv'
  <2> SUFFICES ASSUME TypeInv, [Next]_vars
               PROVE  TypeInv'
    OBVIOUS
  <2>1. CASE UNCHANGED vars
    BY <2>1 DEF vars, TypeInv, ThrottleTypeOK, QueueTypeOK, Holds
  <2>2. ASSUME NEW w \in Worker, Work(w) \/ Heartbeat(w) \/ Crash(w)
        PROVE  TypeInv'
    BY <2>2, LeaseTyped, ReadTyped, RateLimitTyped, EndTyped, CommitSuccessTyped,
       HeartbeatCrashTyped DEF Work
  <2> QED
    BY <2>1, <2>2, TimeTyped DEF Next
<1> QED
  BY <1>1, <1>2, PTL DEF Spec

(* Type correctness, and with it the bounds of the policy: the limit is     *)
(* never 0 nor above --workers, no cooldown exceeds the longest one, and    *)
(* the success streak stays below the threshold, whichever rows the workers *)
(* write over each other.                                                   *)
THEOREM ThrottleTyped == Spec => []ThrottleTypeOK
<1>1. TypeInv => ThrottleTypeOK
  BY DEF TypeInv
<1> QED
  BY <1>1, Typing, PTL

------------------------------------------------------------------------------
(* Leases go with the workers that hold them. *)

LEMMA OneHolder ==
  ASSUME TypeInv, LeasesHeld, NEW w \in Worker, NEW p, worker' = [worker EXCEPT ![w] = p],
         \A v \in Worker \ {w}, t \in Task : Owns(t, v)' => Owns(t, v),
         \A t \in Task :
           Owns(t, w)' => (p.phase = "dead"
                           \/ (p.phase \in {"executing", "limited"} /\ p.task = t))
  PROVE  LeasesHeld'
<1>1. worker'[w] = p /\ \A v \in Worker \ {w} : worker'[v] = worker[v]
  BY DEF TypeInv, ThrottleTypeOK
<1>2. ASSUME NEW v \in Worker, NEW t \in Task, Owns(t, v)'
      PROVE  \/ worker'[v].phase = "dead"
             \/ worker'[v].phase \in {"executing", "limited"} /\ worker'[v].task = t
  BY <1>1, <1>2 DEF LeasesHeld
<1> QED
  BY <1>2 DEF LeasesHeld

LEMMA LeaseHeld ==
  ASSUME TypeInv, LeasesHeld, NEW w \in Worker, LeaseOneTask(w)
  PROVE  LeasesHeld'
<1>1. PICK t \in Task, lag \in Lag :
        /\ Claim(t, w, lag)
        /\ worker' = [worker EXCEPT ![w] = [Holding("executing") EXCEPT !.task = t]]
  BY DEF LeaseOneTask
<1> DEFINE p == [Holding("executing") EXCEPT !.task = t]
<1>2. p.phase = "executing" /\ p.task = t
  BY DEF Holding
<1>3. \A u \in Task : ~Owns(u, w)
  BY DEF LeasesHeld, LeaseOneTask
<1>4. \A u \in Task : u # t => row'[u] = row[u]
  BY <1>1 DEF Claim, TypeInv, ThrottleTypeOK, QueueTypeOK
<1>5. row'[t].token = w
  BY <1>1 DEF Claim, Claimed, TypeInv, ThrottleTypeOK, QueueTypeOK, Row
<1>6. \A v \in Worker \ {w}, u \in Task : Owns(u, v)' => Owns(u, v)
  BY <1>4, <1>5 DEF Owns
<1>7. \A u \in Task : Owns(u, w)' => u = t
  BY <1>3, <1>4 DEF Owns
<1> HIDE DEF p
<1> QED
  BY <1>1, <1>2, <1>6, <1>7, OneHolder DEF p

(* A claim that is ended leaves its holder with nothing.                    *)
LEMMA EndHeld ==
  ASSUME TypeInv, LeasesHeld, NEW w \in Worker, CommitRateLimit(w) \/ Succeed(w) \/ Fail(w)
  PROVE  LeasesHeld'
<1> DEFINE t == worker[w].task
<1>1. /\ worker[w].phase \in {"executing", "limited"} /\ t \in Task
      /\ \E p \in {"gaveup", "top", "done"} : worker' = [worker EXCEPT ![w] = Holding(p)]
  BY DEF CommitRateLimit, Succeed, Fail, TypeInv, Holds
<1>2. \E r : /\ r.status # "running"
             /\ row' = IF Owns(t, w) THEN [row EXCEPT ![t] = r] ELSE row
  <2>1. row[t] \in Row
    BY <1>1 DEF TypeInv, ThrottleTypeOK, QueueTypeOK
  <2>2. \A s \in {"queued", "done", "error"} : Released(row[t], s).status = s
    BY <2>1 DEF Released, Row
  <2>3. RateLimited(row[t]).status = "queued"
    BY <2>1, ReleasedType DEF RateLimited, Released, Row
  <2>4. CASE CommitRateLimit(w)
    BY <2>3, <2>4 DEF CommitRateLimit, RequeueTaskAfterRateLimit
  <2>5. CASE Succeed(w) \/ Fail(w)
    BY <2>2, <2>5 DEF Succeed, Fail, MarkTaskDone, MarkTaskError, Release
  <2> QED
    BY <2>4, <2>5
<1>3. PICK r : /\ r.status # "running"
               /\ row' = IF Owns(t, w) THEN [row EXCEPT ![t] = r] ELSE row
  BY <1>2
<1>4. \A v \in Worker, u \in Task : Owns(u, v)' => Owns(u, v) /\ ~(u = t /\ v = w)
  BY <1>1, <1>3 DEF Owns, TypeInv, ThrottleTypeOK, QueueTypeOK
<1>5. \A u \in Task : ~Owns(u, w)'
  BY <1>1, <1>4 DEF LeasesHeld
<1> QED
  BY <1>1, <1>4, <1>5, OneHolder

LEMMA SameRowsHeld ==
  ASSUME TypeInv, LeasesHeld, NEW w \in Worker, UNCHANGED row,
         ReadForRateLimit(w) \/ ReadForSuccess(w) \/ CommitSuccess(w) \/ Crash(w)
  PROVE  LeasesHeld'
<1>1. \A v \in Worker, t \in Task : Owns(t, v)' = Owns(t, v)
  BY DEF Owns
<1>2. \A v \in Worker \ {w} : worker'[v] = worker[v]
  BY DEF ReadForRateLimit, ReadForSuccess, CommitSuccess, Crash, TypeInv, ThrottleTypeOK
<1>3. \/ worker'[w].phase = "dead"
      \/ /\ worker[w].phase = "executing" /\ worker'[w].phase = "limited"
         /\ worker'[w].task = worker[w].task
      \/ worker[w].phase \in {"done", "recovered"}
  BY HoldingType
  DEF ReadForRateLimit, ReadForSuccess, CommitSuccess, Crash, TypeInv, ThrottleTypeOK, WorkerState
<1> QED
  BY <1>1, <1>2, <1>3 DEF LeasesHeld

LEMMA HeartbeatTimeHeld ==
  ASSUME TypeInv, LeasesHeld, Time \/ \E w \in Worker : Heartbeat(w)
  PROVE  LeasesHeld'
<1>1. \A v \in Worker : /\ worker'[v].phase = worker[v].phase
                        /\ worker'[v].task = worker[v].task
  BY DEF Time, Heartbeat, TypeInv, ThrottleTypeOK, WorkerState
<1>2. \A t \in Task : /\ row'[t].status = row[t].status
                      /\ row'[t].token = row[t].token
  <2>1. \A t \in Task : row[t] \in Row
    BY DEF TypeInv, ThrottleTypeOK, QueueTypeOK
  <2>2. CASE Time
    BY <2>1, <2>2 DEF Time, Tick, Row
  <2>3. ASSUME NEW w \in Worker, Heartbeat(w)
        PROVE  \A t \in Task : /\ row'[t].status = row[t].status
                               /\ row'[t].token = row[t].token
    <3>1. PICK lag \in Lag : HeartbeatTaskLease(worker[w].task, w, lag)
      BY <2>3 DEF Heartbeat
    <3>2. worker[w].task \in Task
      BY <2>3 DEF Heartbeat, TypeInv, Holds
    <3> QED
      BY <2>1, <3>1, <3>2 DEF HeartbeatTaskLease, TypeInv, ThrottleTypeOK, QueueTypeOK, Row
  <2> QED
    BY <2>2, <2>3
<1> QED
  BY <1>1, <1>2 DEF LeasesHeld, Owns

(* A worker that gives up after too many rate limits leaves none of its     *)
(* tasks leased, so that the run can be taken up again at once.             *)
THEOREM GiveUpAlways == Spec => []GiveUpLeavesNothing
<1>1. Init => LeasesHeld
  BY DEF Init, QueueInit, NewRow, LeasesHeld, Owns
<1>2. TypeInv /\ LeasesHeld /\ [Next]_vars => LeasesHeld'
  <2> SUFFICES ASSUME TypeInv, LeasesHeld, [Next]_vars
               PROVE  LeasesHeld'
    OBVIOUS
  <2>1. CASE UNCHANGED vars
    BY <2>1 DEF vars, LeasesHeld, Owns
  <2>2. ASSUME NEW w \in Worker, Work(w) \/ Crash(w)
        PROVE  LeasesHeld'
    BY <2>2, LeaseHeld, EndHeld, SameRowsHeld
    DEF Work, ReadForRateLimit, ReadForSuccess, CommitSuccess, Crash
  <2> QED
    BY <2>1, <2>2, HeartbeatTimeHeld DEF Next
<1>3. LeasesHeld => GiveUpLeavesNothing
  BY DEF LeasesHeld, GiveUpLeavesNothing
<1> QED
  BY <1>1, <1>2, <1>3, Typing, PTL DEF Spec

------------------------------------------------------------------------------
(* Series of rate limits. *)

LEMMA HeardNumbers ==
  ASSUME TypeInv
  PROVE  heard.ever \in 0..MaxConsecutive /\ heard.ever \in Nat /\ MaxConsecutive \in Nat
BY PolicyNumbers DEF TypeInv, ThrottleTypeOK, HeardState

(* What has been heard is never forgotten. *)
LEMMA HeardGrows ==
  ASSUME TypeInv, [Next]_vars
  PROVE  heard.ever <= heard'.ever
<1>1. heard \in HeardState
  BY DEF TypeInv, ThrottleTypeOK
<1>2. ASSUME NEW w \in Worker, ReadForRateLimit(w)
      PROVE  heard.ever <= heard'.ever
  BY <1>2, HeardNumbers DEF ReadForRateLimit, AtMost
<1>3. ASSUME NEW w \in Worker, CommitSuccess(w)
      PROVE  heard'.ever = heard.ever
  BY <1>1, <1>3 DEF CommitSuccess, HeardState
<1>4. ASSUME NEW w \in Worker, Work(w) \/ Heartbeat(w) \/ Crash(w),
             ~ReadForRateLimit(w), ~CommitSuccess(w)
      PROVE  heard' = heard
  BY <1>4
  DEF Work, LeaseOneTask, CommitRateLimit, Succeed, ReadForSuccess, Fail, Heartbeat, Crash
<1> QED
  BY <1>2, <1>3, <1>4, HeardNumbers DEF Next, Time, vars

LEMMA CountedStays ==
  ASSUME TypeInv, [Next]_vars, TypeInv', NEW n \in Nat, Counted(n, heard.ever)
  PROVE  Counted(n, heard'.ever)
BY HeardNumbers, HeardGrows DEF Counted, AtMost, TypeInv, ThrottleTypeOK, HeardState

(* The count a success writes is the one it read, or none.                  *)
LEMMA SuccessCount ==
  ASSUME NEW s \in ThrottleState
  PROVE  ApplySuccess(s).hits \in {0, s.hits}
BY DEF ApplySuccess, ThrottleState

LEMMA CoolerCount ==
  ASSUME NEW s \in ThrottleState
  PROVE  Cooler(s).hits = s.hits \/ s = NoThrottle
BY DEF Cooler, ThrottleState

LEMMA NothingCounted ==
  ASSUME TypeInv
  PROVE  Counted(0, heard.ever)
BY HeardNumbers DEF Counted, AtMost

LEMMA HitsNat ==
  ASSUME NEW s \in ThrottleState
  PROVE  s.hits \in Nat
BY DEF ThrottleState

(* The counts that are written. *)
LEMMA WrittenCounted ==
  ASSUME TypeInv, CountsHeard, [Next]_vars, TypeInv', throttle' # NoThrottle
  PROVE  Counted(throttle'.hits, heard'.ever)
<1>1. ASSUME throttle' = throttle
      PROVE  Counted(throttle'.hits, heard'.ever)
  BY <1>1, HitsNat, CountedStays DEF CountsHeard, TypeInv, ThrottleTypeOK
<1>2. ASSUME Time
      PROVE  Counted(throttle'.hits, heard'.ever)
  <2>1. /\ throttle \in ThrottleState /\ throttle # NoThrottle
        /\ throttle' = Cooler(throttle)
    BY <1>2 DEF Time, Cooler, TypeInv, ThrottleTypeOK
  <2>2. throttle'.hits = throttle.hits
    BY <2>1, CoolerCount
  <2> QED
    BY <2>1, <2>2, HitsNat, CountedStays DEF CountsHeard
<1>3. ASSUME NEW w \in Worker, CommitRateLimit(w) \/ CommitSuccess(w), throttle' # throttle
      PROVE  Counted(throttle'.hits, heard'.ever)
  <2>1. /\ worker[w].phase \in {"limited", "recovered"} /\ throttle' = worker[w].next
    BY <1>3 DEF CommitRateLimit, CommitSuccess
  <2>2. worker[w].next \in ThrottleState
    BY <2>1 DEF TypeInv, Holds
  <2> QED
    BY <2>1, <2>2, HitsNat, CountedStays DEF CountsHeard
<1>4. ASSUME NEW w \in Worker, Work(w) \/ Heartbeat(w) \/ Crash(w), throttle' # throttle
      PROVE  CommitRateLimit(w) \/ CommitSuccess(w)
  BY <1>4
  DEF Work, LeaseOneTask, ReadForRateLimit, Succeed, ReadForSuccess, Fail, Heartbeat, Crash
<1> QED
  BY <1>1, <1>2, <1>3, <1>4 DEF Next, vars

(* A rate limit is heard when it is counted: one more of both. *)
LEMMA ReadCounted ==
  ASSUME TypeInv, CountsHeard, NEW w \in Worker, ReadForRateLimit(w)
  PROVE  Counted(worker'[w].next.hits, heard'.ever)
<1>1. PICK hint \in Hints \cup {0} :
        worker' = [worker EXCEPT ![w].phase = "limited",
                                 ![w].next = ApplyRateLimit(throttle, hint)]
  BY DEF ReadForRateLimit
<1>2. worker'[w].next.hits = IF throttle = NoThrottle THEN 1 ELSE throttle.hits + 1
  BY <1>1 DEF ApplyRateLimit, TypeInv, ThrottleTypeOK, WorkerState
<1>3. heard'.ever = AtMost(MaxConsecutive, heard.ever + 1)
  BY DEF ReadForRateLimit
<1>4. throttle # NoThrottle => throttle.hits \in Nat
  BY HitsNat DEF TypeInv, ThrottleTypeOK
<1>5. throttle # NoThrottle => AtMost(MaxConsecutive, throttle.hits) <= heard.ever
  BY DEF CountsHeard, Counted
<1>6. AtMost(MaxConsecutive, worker'[w].next.hits) <= heard'.ever
  BY <1>2, <1>3, <1>4, <1>5, HeardNumbers, PolicyNumbers DEF AtMost
<1> QED
  BY <1>6 DEF Counted

LEMMA SuccessCounted ==
  ASSUME TypeInv, CountsHeard, NEW w \in Worker, ReadForSuccess(w),
         worker'[w].phase = "recovered"
  PROVE  Counted(worker'[w].next.hits, heard'.ever)
<1>1. /\ throttle # NoThrottle /\ throttle \in ThrottleState
      /\ worker'[w].next = ApplySuccess(throttle)
  BY DEF ReadForSuccess, Holding, TypeInv, ThrottleTypeOK
<1>2. Counted(0, heard.ever) /\ Counted(throttle.hits, heard.ever)
  BY <1>1, NothingCounted DEF CountsHeard
<1>3. heard' = heard
  BY DEF ReadForSuccess
<1> QED
  BY <1>1, <1>2, <1>3, SuccessCount DEF Counted

(* What a worker holds stays counted, and a worker that gives up counted    *)
(* MaxConsecutive.                                                          *)
LEMMA HeldCounted ==
  ASSUME TypeInv, CountsHeard, [Next]_vars, TypeInv', NEW w \in Worker
  PROVE  /\ worker'[w].phase \in {"limited", "recovered"} => Counted(worker'[w].next.hits, heard'.ever)
         /\ worker'[w].phase = "gaveup" => heard'.ever = MaxConsecutive
<1> DEFINE Goal == /\ worker'[w].phase \in {"limited", "recovered"}
                      => Counted(worker'[w].next.hits, heard'.ever)
                   /\ worker'[w].phase = "gaveup" => heard'.ever = MaxConsecutive
<1>1. worker[w].phase \in {"limited", "recovered"}
      => worker[w].next \in ThrottleState /\ worker[w].next.hits \in Nat
  BY HitsNat DEF TypeInv, Holds
<1>2. worker[w].phase = "gaveup" => heard'.ever = MaxConsecutive
  <2>1. heard'.ever \in 0..MaxConsecutive
    BY DEF TypeInv, ThrottleTypeOK, HeardState
  <2> QED
    BY <2>1, HeardGrows, HeardNumbers DEF CountsHeard
<1>3. ASSUME worker'[w] = worker[w]
      PROVE  Goal
  BY <1>1, <1>2, <1>3, CountedStays DEF CountsHeard
<1>4. ASSUME Time
      PROVE  Goal
  <2>1. /\ worker'[w].phase = worker[w].phase
        /\ worker'[w].next = Cooler(worker[w].next)
    BY <1>4 DEF Time, TypeInv, ThrottleTypeOK, WorkerState
  <2>2. worker[w].phase \in {"limited", "recovered"}
        => worker'[w].next.hits = worker[w].next.hits
    BY <1>1, <2>1 DEF Cooler, ThrottleState
  <2> QED
    BY <1>1, <1>2, <2>1, <2>2, CountedStays DEF CountsHeard
<1>5. ASSUME CommitRateLimit(w)
      PROVE  Goal
  <2>1. PICK p \in {"gaveup", "top"} :
          /\ worker'[w].phase = p
          /\ p = "gaveup" => ShouldGiveUp(worker[w].next)
    BY <1>5 DEF CommitRateLimit, Holding, TypeInv, ThrottleTypeOK
  <2>2. worker[w].phase = "limited" /\ Counted(worker[w].next.hits, heard.ever)
    BY <1>5 DEF CommitRateLimit, CountsHeard
  <2>3. heard' = heard
    BY <1>5 DEF CommitRateLimit
  <2>4. ShouldGiveUp(worker[w].next) => heard.ever = MaxConsecutive
    BY <1>1, <2>2, HeardNumbers DEF ShouldGiveUp, Counted, AtMost
  <2> QED
    BY <2>1, <2>3, <2>4
<1>6. ASSUME ReadForRateLimit(w)
      PROVE  Goal
  <2>1. worker'[w].phase = "limited"
    BY <1>6 DEF ReadForRateLimit, TypeInv, ThrottleTypeOK, WorkerState
  <2> QED
    BY <1>6, <2>1, ReadCounted
<1>7. ASSUME ReadForSuccess(w)
      PROVE  Goal
  <2>1. worker'[w].phase \in {"top", "recovered"}
    BY <1>7 DEF ReadForSuccess, Holding, TypeInv, ThrottleTypeOK
  <2> QED
    BY <1>7, <2>1, SuccessCounted
<1>8. ASSUME LeaseOneTask(w) \/ Succeed(w) \/ CommitSuccess(w) \/ Fail(w) \/ Crash(w)
      PROVE  Goal
  <2>1. worker'[w].phase \in {"executing", "done", "top", "dead"}
    BY <1>8 DEF LeaseOneTask, Succeed, CommitSuccess, Fail, Crash, Holding, TypeInv, ThrottleTypeOK
  <2> QED
    BY <2>1
<1>9. ASSUME NEW v \in Worker, v # w, Work(v) \/ Crash(v)
      PROVE  worker'[w] = worker[w]
  BY <1>9
  DEF Work, LeaseOneTask, ReadForRateLimit, CommitRateLimit, Succeed, ReadForSuccess,
      CommitSuccess, Fail, Crash, TypeInv, ThrottleTypeOK
<1>10. ASSUME NEW v \in Worker, Heartbeat(v)
       PROVE  worker'[w] = worker[w]
  BY <1>10 DEF Heartbeat
<1>11. ASSUME Work(w) \/ Crash(w)
       PROVE  Goal
  BY <1>5, <1>6, <1>7, <1>8, <1>11 DEF Work
<1> HIDE DEF Goal
<1>12. Goal
  BY <1>3, <1>4, <1>9, <1>10, <1>11 DEF Next, vars
<1> QED
  BY <1>12 DEF Goal

(* A worker gives up only when MaxConsecutive rate limits have come from    *)
(* the provider, however many workers read, raise and write the count over  *)
(* each other's.                                                            *)
THEOREM LimitsAlways == Spec => []GiveUpAfterLimits
<1>1. Init => CountsHeard
  BY DEF Init, Holding, CountsHeard
<1>2. TypeInv /\ TypeInv' /\ CountsHeard /\ [Next]_vars => CountsHeard'
  <2> SUFFICES ASSUME TypeInv, TypeInv', CountsHeard, [Next]_vars
               PROVE  CountsHeard'
    OBVIOUS
  <2> QED
    BY WrittenCounted, HeldCounted DEF CountsHeard
<1>3. CountsHeard => GiveUpAfterLimits
  BY DEF CountsHeard, GiveUpAfterLimits
<1> QED
  BY <1>1, <1>2, <1>3, Typing, PTL DEF Spec
==============================================================================
