# A TLA+ model of CodexFarm

CodexFarm runs a pipeline (a prompt template and an output schema) over a folder of input files.
Each input becomes a *task* of a *run*; worker processes lease tasks from one SQLite database, call
`codex exec` for each, validate what it wrote and move it to the run's output directory. All
coordination goes through the database and the file system: there is no server. This directory models
that coordination, checks it with TLC on small instances and proves its central facts with TLAPS for
all instances.

All paths below are relative to `src/src/codex_farm/` unless they name `docs/`.

## 1. Inventory

| component | code | state | operations | modules |
|---|---|---|---|---|
| task queue and leases | `db.py` | `tasks` rows, `runs.control_state` | claim, heartbeat, begin execution, done / error / canceled / requeue, bulk cancel, retry-errors | `TaskQueue`, abstract `TaskLedger` |
| worker loop | `worker.py`, `lease_heartbeat.py` | locals of `worker_loop`, staged and final files, heartbeat threads | preflight, execute, promote, artifacts, classify failures | `FarmWorkers` |
| session runtime | `session_runtime.py` | `worker_sessions` rows, session columns of tasks, codex threads | start, roll over, resume, close sessions; one turn per task | `SessionWorkers` |
| run lifecycle | `run_lifecycle.py`, `db.py`, `cli.py` | `runs.status`, `runs.control_state` | `run_status`, pause, resume, cancel, retry-errors | `RunLifecycle` |
| rate-limit recovery | `rate_limit_policy.py`, `db.py`, `worker.py` | `run_throttle_state` row | apply rate limit / success, admission of claims, give up | `Throttle` |
| run creation, frozen assets, incremental planning | `cli.py`, `run_assets.py`, `incremental.py` | run and task rows, frozen definitions, output directories | freeze, fingerprint, hash, choose a source, copy and validate outputs, insert | `RunCreation` |
| codex subprocess | `codex_exec.py`, `cli.py` (`one`) | temporary and output files, `codex_exec_activity.csv` | call, time out, take the payload, migrate and append the log | `CodexExec` |
| forensics | `forensics.py`, `worker.py` | bundle directories, `task_forensics` rows | capture, clean up | `AttemptRecords` |
| heads-up tips | `heads_up.py`, `db.py` | `heads_up_tips`, `heads_up_tip_usage` | select, credit, distil, insert, clear | `AttemptRecords` |
| execution context, `process`, autotune, benchmark evaluation, specs and schemas, telemetry, dashboards, lint, doctor, catalog | the other files | see section 7 | | not modelled |

**How they interact.** Workers and commands are separate processes that share the database. A function
of `db.py` is one transaction; what a process reads in one transaction and uses in another may be old by
then. Each worker has a daemon thread that renews its lease over a connection of its own. Waiting
workers call `run_status` over and over, and that call *writes* the run's row. Files are shared too: the
canonical output of a task is one path, whoever executes it; staged files are named by lease token;
bundles by run, task and attempt number; the activity log is one file for all processes of a data directory.

**What is hard.**
- Leases expire while their holder still works; the holder can be taken over, and may be back.
- Time is read before `BEGIN IMMEDIATE` waits for the write lock, so the time used is older than the state.
- Counters are read with the claim and used after codex ran for minutes.
- Promotion spans the file system and the database; a crash may come between. So do creation, forensic
  captures and the end of a session turn.
- Control state, counts and throttle rows are read and written back in different transactions.
- A failed task is requeued by a worker that looked at the control state one statement earlier.
- Workers leave only when nothing is queued and nothing runs, so one stuck task holds them all.
- Reuse relies on rows of the source run and on files that have been lying about since.
- Killing codex at its timeout does not kill what codex started; it may write its output later.

**What makes each component correct.**
- *Queue*: one owner per task; a live lease is ended only by its holder; lease columns agree with status;
  the attempt budget bounds executions; only the owner completes a task, and a completed task and its
  output do not change any more.
- *Workers*: heartbeats keep ownership while they are in time; what is promoted belongs to the owner;
  every task settles as long as somebody works.
- *Sessions*: a conversation serves one worker at a time and none after a failed turn; turns are numbered
  without gaps; the turn a done task names wrote its output; the loop keeps the promises of the queue.
- *Lifecycle*: a confirmed cancel is final and everything drained; the last status written is a finished one.
- *Throttle*: the concurrency limit stays between 1 and the desired one; a worker gives up only after the
  limit of rate limits, and strands no task; a throttled run goes on by itself.
- *Creation*: tasks are never visible without their assets, nothing frozen is lost track of, a half
  created run never counts as done, and what is reused is what the run would have computed.
- *Codex calls*: only a call that ended in time publishes; temporary files are accounted for; no writer of
  the log loses the rows of another, and its header describes them; `one` never takes an old file for its result.
- *Records*: a task's outcome counts once for a tip; forensics rows and bundles tell the same; rejected
  output is deleted only after its copy, or after the failure to copy it was logged.

## 2. Modules

```
TaskQueue ──┬── TaskQueue_proofs   (extended by the proof modules below)
            ├── FarmWorkers ───── MCFarmWorkers        FarmWorkers_proofs
            ├── SessionWorkers ── MCSessionWorkers     SessionWorkers_proofs
            ├── RunLifecycle ──── MCRunLifecycle       RunLifecycle_proofs
            ├── Throttle ──────── MCThrottle           Throttle_proofs
            └── AttemptRecords ── MCAttemptRecords     AttemptRecords_proofs
TaskLedger     implemented by FarmWorkers and SessionWorkers
RunCreation ── MCRunCreation                           RunCreation_proofs
CodexExec ──── MCCodexExec                             CodexExec_proofs
```

**TaskQueue** has one operator per function of `db.py` that changes task rows. A row keeps `status`,
`lease_token`, `execution_attempts`, `rate_limit_count` and the lease. Abstractions:
- `left` is `lease_until - now` in ticks, so that the clock needs no bound. It stops at
  `Floor = -(MaxLag+1)`, where every reading agrees that the lease is over. `LeaseWindow` is
  `lease_seconds + LEASE_EXPIRY_GRACE_SECONDS`.
- `lag \in 0..MaxLag` is the age of the clock reading a transaction uses.
- `attempts` (claims) is kept only where it is used, in AttemptRecords: it names bundles and is never
  compared with a budget. The text columns and `updated_at` are left out. The order of equally claimable
  tasks is left open, except that queued ones go before expired ones.
- `locked` is true while a transaction with file operations inside holds SQLite's write lock.

**TaskLedger** is the abstract specification: a task is queued, held by one claim or finished; only the
holding claim completes it; the output of a done task is that claim's and never changes. No clocks,
heartbeats, locks or files. Both worker loops implement it.

**FarmWorkers** adds the worker loops. Every step is one transaction, one file operation or one read whose
value is used later; the phases are listed at the top of the module. The `Operator` action gives every
command at any time: the checks that `retry-errors` makes first are in RunLifecycle (here the command is
unguarded, which is what their race amounts to), and so are the three statements of `run_status`; here
its only effect on the queue, turning a drained `cancel_requested` into `canceled`, is one step, and pause
and resume at any time include a control state that is written back late. `final[t]` is the claim whose
output file is at the canonical path. `Escape` is an exception that leaves `worker_loop`: in the code
these come from `render_prompt_template` (outside the `try`) and from SQLite errors raised inside
exception handlers. `Fresh` says when uuid4 may return a token again: when nothing in the state carries it.

**SessionWorkers** is the other loop. `held` is what a worker has in memory of its session, `session` the
rows, `link` the columns of a task that name a session and a turn. A link is committed before the turn and
the counts of the session after the promotion, so a lease that is lost, an exception or a kill comes in
between. `config` is what the run was frozen with: reset on error, the task budget of a session, and the
tasks whose `--cd` directory differs. A session whose worker died stays `running` in the table for good
(`abandoned`); nothing in the code ever closes or resumes it. Status `stopped` cannot be reached: nothing
sets `stop_event`.

**RunLifecycle** splits `run_status` into its read of the run, its counts and its write, for several
concurrent callers; the workers are reduced to the ways a lease can begin and end. `Answered` is what the
caller does with the answer: `retry-errors` goes on, a waiting worker leaves, or asks again.

**Throttle** has the throttle row, the policy's two functions and the read-compute-write of workers.
Cooldown is kept as the time that is left of it. Each lease token is also the name of its worker. `heard` counts,
for the properties only, the rate limits that have come from the provider; the counts in the rows are what the
workers make of them, and two workers that read one row count two of them as one.

**RunCreation** takes `process` and `run create` apart into freezing, fingerprint, hashing, choice of the
source, per-input copy and validation, and the two commits (run, then tasks). A definition stands for all
that the fingerprint covers, a text for an input's bytes. `RelOutput` gives the output file of an input, which is
its path with another suffix (`incremental.py:149`): inputs that differ in their suffix only share one, which a custom
glob makes possible. `Lapses` names what people may do that the program cannot see: edit the definition between
freezing and fingerprint, edit an input between its hash and its execution, touch an output during a creation,
give two runs one output directory. Each such act is possible at any time; `Lapse` marks as `tainted` the runs it may
spoil, and a run that takes from a tainted one is tainted as well. A lapse that is not in `Lapses` happens only where it
spoils nobody. `crashed` are the runs
whose creator was killed, or could not open the database after the freezing, which comes before the block
that cleans up. A worker executes with frozen assets and errs without them; runs from before assets were
frozen, which resolve the live pipeline (`worker.py:766`), are not created any more and left out.

**CodexExec** has the callers of codex, the codex processes (`orphan`: what a killed codex had started),
the temporary file of every call and the log with its advisory lock. The log may start missing, current,
or with an old header and a row too long for `csv`. The shared lock is `flock` where the platform has it. A log row
carries the whole prompt, so it leaves the buffer of the file in parts: `FlushPart` gives every content that may
be in the file before the last flush, and a kill or an OS error may be next. What was cut may be the header (readers then see an
old one), a line, or a quoted cell, which takes in the lines that follow; the next row is glued to it. `base` is what the
holder of the lock has read and will write back; a migration's backup may fail, or take the name of one made in the same second.
`written`, `unsaved`, `missed` and `stopped` are records for the properties. Two details are left out: after an error
in a write, `close()` may flush the rest when the lock is free already, and a cut may fall inside a character, which a later
reader of the file reports as a decoding error.

**AttemptRecords** drives the same queue with claims whose end is a choice, and keeps what is written next
to it: bundle files by attempt number, forensics rows, tips with their scores, and usage rows. `history` is
a record for the properties only. Bundle files are written in place, so a capture that stops may leave a `Torn` one. In
benchmark mode the output is moved first (`Publish`), done is committed when the artifacts are written, and when
they cannot be, the moved output is deleted before the capture (`ArtifactsFail`, `worker.py:1386`), which then finds nothing to
copy. That this mode also rewrites the staged file with a canonical payload before it is validated (`worker.py:1094-1140`)
is left out: a staged output is its attempt's token here. Refused are the two inserts that SQLite refuses: a tip that another
learner inserted meanwhile (unique index; the learner loses its list), and the usage of a tip that
`heads-up clear` removed (foreign key; the worker's exception handler takes over). `NormalizeDistilledTips` says
which proposals of a list stay; `NormalizedAsLoop` in `MCAttemptRecords` compares it with the code's loop, written as
a fold, on every list of up to 4 proposals with 2 texts. TLC evaluates it as an assumption of the run `records`.

## 3. Runs

Bounds are the CONSTANTS of each cfg; the guards that are not the code's are those on `MaxRateLimits`,
`MaxCrashes`, `MaxEscapes`, `MaxEvents`, `MaxFaults`, `MaxEdits` (what the environment may do) and on
`MaxSessions`, `MaxExecutions`, `MaxRuns`, `MaxCalls`, `MaxClaims`, `MaxTips`, `MaxRaw` (what may be created).

| run | instance | shows |
|---|---|---|
| `lease` | 1 task, 2 workers, lease window 1, lag 1, every command, 1 crash, 1 escape, no fairness | types, OneOwner, RowsConsistent, CountersCurrent, LiveLeaseRespected, BudgetRespected, ImplementsLedger |
| `settle` | FairSpec, 2 tasks, benchmark mode, 1 crash, 1 rate limit, no commands | HeartbeatKeepsOwnership, EveryTaskSettles |
| `sessions` | 2 tasks, 2 workers, 2 sessions, 2 configurations, 1 event of every kind | SessionTypeOK, SessionsHeldOnce, TurnsNumbered, LinkTellsOutput, ClosedCountsDone, FailedTurnsEndSessions, SessionsImplementLedger |
| `lifecycle` | 2 tasks, 2 callers of `run_status`, every command | LifecycleTypeOK, CanceledMeansDrained, LastStatusFinal |
| `throttle` | FairSpec, 2 tasks, 2 workers, 3 rate limits per task, a retry-after hint, 1 crash | ThrottleTypeOK, GiveUpLeavesNothing, GiveUpAfterLimits, RunResumes |
| `creation` | 2 commands, 2 runs, 3 inputs of which 2 share an output file, 2 definitions, 1 edit, 1 fault, lapses "edit definition" and "touch output" | CreationTypeOK, AssetsAccounted, DoneIsFinal, ReuseSound |
| `exec` | a worker and `one`, 3 calls, 1 fault, an old log and an earlier output of `one` | ExecTypeOK, OnlyEndedCallsPublish, TempsAccounted, LogKeepsRows, HeaderTellsRows, OneToldTruth |
| `records` | 1 task, 2 workers, 2 claims, benchmark mode or not, 2 learners, 2 tip rows, 3 events | RecordsTypeOK, ScoresTellUsage, UsageTellsOutcome, RowsHaveBundles, BundlesTellRows, EvidenceOrWarning |

Why these bounds are enough:
- Ownership is a matter between the holder of a claim and whoever takes it over, so two workers and one task
  have every case; `settle` has a second task to move to, and section 5 proves ownership for any number. Four
  tokens leave one that nothing carries in every state. A window of one tick has a live, a last and an
  expired instant, and a lag of one makes two readings disagree. Two attempts have a first, a last and an
  exhausted one. `settle` has no commands: retry-errors given for ever keeps any task from settling.
- In `sessions` the configurations make both tasks fit one session, or force a roll-over by budget or by
  directory; two rows suffice for a session and its successor, two executions for a task that is linked twice.
- In `throttle` two workers suffice for a row that is written over another; a threshold of three rate limits has a first
  one, one below it, and the last, and three per task reach it in every order. The desired limit of 3 is halved twice, to 2 and to 1.
- In `creation` two runs are a source and a run that reuses it, and two commands give a race for the choice of a source. Of the
  three inputs two share an output file, and the third one has its own. A third run, for a chain of reuse, multiplies the states beyond
  reach, and so do more lapses; section 5 proves all four properties for any number of runs, inputs and lapses.
- In `exec` three calls are one whose process outlives it or that stops in the middle of a line, and two after it. `MCInit` starts
  with an old log, from which an empty and a current one come about by a kill or a migration, and with an
  earlier output at the path of `one`.
- In `records` the constants of the code (8 uses and a score of 1/4 to retire a tip, 4 tips per
  signature and 24 in all) are small numbers, so that every limit is reached. Two claims are a lost one and its successor, or
  one before and one after retry-errors; three events make a lost claim, a retry and a failure of its capture possible together.
- `creation`, `exec` and `records` may stop (CHECK_DEADLOCK FALSE) because runs, calls and claims are bounded.

**Findings.** Four more runs check what the repository says of itself and end in a counterexample; they
are listed under "findings" of `PROJECT.json` with the lines on both sides.
- `cancel_race`: a task requeued after `run cancel` is never canceled, and the run never drains.
- `stale_unlink`: in benchmark mode a worker whose heartbeats are late and that lost its lease deletes the output of the
  one that completed the task (`DoneHasOutput`); the README of the package promises that stale owners cannot.
- `session_budget`: the session loop has no budget guard; a task whose executions are lost to expired
  leases is executed without limit.
- `shared_directory`: with two runs writing to one `--out`, a later run reuses an output of a definition that is not its own
  (`ReuseRight`).

**Other known violations.** These are defined in the modules and not among the runs; each is found within about
a minute by checking the property in a copy of the named cfg.
- `EveryTaskSettles` in `Settle.cfg` with `MaxEscapes = 1`: an exception from `render_prompt_template` ends the
  loop but not the heartbeat; the task stays running for as long as the process lives.
- `RetryRestoresBudget` in `Lease.cfg`: retry-errors does not restore the budget of a task that used it up.
- `OneToldTruth` in `Exec.cfg` with two callers in `One`: the second command overwrites the path of the first.
- `LeasesFollowIntent` in `Lifecycle.cfg`: `run_status` writes an older control state over a pause.
- `CooldownKept` in `Throttle.cfg`: an older reading of the throttle row overwrites a newer cooldown.
- `GiveUpAfterSeries` in `Throttle.cfg`: a worker gives up though a success has ended the series, because another worker
  wrote an older count over the reset (`docs/04-worker-execution-and-retries/04-worker-execution-and-retries_readme.md:144`). The other
  way round, workers whose readings overlap count several rate limits as one, and a series of the threshold's length need not stop anybody.
- `ReuseRight` in `Creation.cfg`: with `Lapses = {}`, because one of two inputs that differ in their suffix only gets the
  output of the other (`incremental.py:149`); and for inputs with an output file of their own with any one of the lapses. After
  "edit input" an input is executed as it is now, and its output reused for the text that was hashed.
- `OneRowPerCall` in `Exec.cfg`: an OS error, a kill or a row too long for `csv` keeps a row out
  (`docs/07-analytics`: "One row is appended per `run_codex_exec(...)` call"), and what was glued to a torn line is lost.
- `EvidenceBeforeCleanup` in `Records.cfg`: in benchmark mode the moved output is deleted before the capture, and in the other one the
  staged output is deleted after a capture that failed with a warning
  (`docs/04-worker-execution-and-retries/04-worker-execution-and-retries_readme.md:320`).
- Bundles do not outlive retry-errors: attempt numbers start again, and a later capture overwrites an earlier
  one, or tears it when it is killed. `BundlesTellRows` and `EvidenceOrWarning` therefore leave out tasks that were retried.

**Seen while modelling.** No doc speaks of these, so they are not findings.
- A log row of more than 131072 characters makes `csv` raise `csv.Error`, which is no `OSError`: the call raises after
  its output has been moved (compare the comment at `codex_exec.py:1096`).
- A failed or timed-out `one` puts an older file at `--out` into its forensics bundle as raw output, and the
  capture of a `--cd` failure takes the final output of an earlier execution for the raw one.
- A codex that cannot be started leaves its empty temporary file behind (`TempsAccounted` lists the strays).
- After `heads-up clear`, crediting a tip breaks a foreign key. After a done task this leaves a forensics row for
  it, and the session loop closes a healthy session as failed; after an error it ends the worker.
- A tip's usage keeps the first outcome, also when a retry makes the task done (compare
  `docs/04-worker-execution-and-retries/04-worker-execution-and-retries_readme.md:212`).
- A session row of a dead worker stays `running`.

## 4. Fairness and time

`TimelySpec` lets time pass only while every lease that a running heartbeat thread owns has a tick left. The thread
renews every `max(0.2, min(10, lease/3))` seconds (`worker.py:137`), so several renewals fit into a lease;
the specification without this, `Spec`, is the one `lease` and `sessions` are checked under. `FairSpec` adds weak fairness of
every worker (its steps are finite: codex runs under a timeout, the database has a busy timeout), of
its heartbeats, of time, and of the confirmation of a cancel, which waiting workers trigger by polling.
It has none for commands, crashes, escapes, restarts or for any particular outcome of an execution. In
Throttle, fairness is per worker, of its heartbeats and of time while heartbeats keep up with it; other ticks may
happen, too, and RunResumes is claimed for the behaviours in which no lease of a live worker runs out (`OnTime`). The other modules claim no liveness: their processes
are commands that may be killed at any time and are not started again.

## 5. Proofs

The theorems hold for every value of the constants; the assumptions are those of the modules
(`QueueAssumption`, `WorkerAssumption`, `SessionAssumption`, `ThrottleAssumption`, `CreationAssumption`,
`ExecAssumption`, `RecordsAssumption`) and what the table names. One more is built into FarmWorkers and SessionWorkers: uuid4
returns no token that a row, a worker or a file of the task still carries. Every invariant and action property that a passing
run checks is a theorem here.

| theorem | module | property | hypotheses |
|---|---|---|---|
| TypeCorrect | FarmWorkers_proofs | TypeOK (and ClaimsHeld) | |
| OneOwnerAlways | FarmWorkers_proofs | OneOwner | |
| PromotionSafe | FarmWorkers_proofs | PromotionHeld | |
| RowsAlways | FarmWorkers_proofs | RowsConsistent | |
| CountersAlways | FarmWorkers_proofs | CountersCurrent | |
| BudgetAlways | FarmWorkers_proofs | BudgetRespected | |
| LiveLeaseAlways | FarmWorkers_proofs | LiveLeaseRespected | |
| LedgerImplemented | FarmWorkers_proofs | ImplementsLedger | not in benchmark mode |
| OwnershipAlways | FarmWorkers_proofs | HeartbeatKeepsOwnership | TimelySpec, `MaxLag <= LeaseWindow` |
| SessionsTyped | SessionWorkers_proofs | SessionTypeOK | |
| HeldOnceAlways | SessionWorkers_proofs | SessionsHeldOnce | |
| FailedTurnsAlways | SessionWorkers_proofs | FailedTurnsEndSessions | |
| LinkAlways | SessionWorkers_proofs | LinkTellsOutput | |
| SessionLedger | SessionWorkers_proofs | SessionsImplementLedger | |
| TurnsAlways | SessionWorkers_proofs | TurnsNumbered | |
| CountsAlways | SessionWorkers_proofs | ClosedCountsDone | |
| LifecycleTyped | RunLifecycle_proofs | LifecycleTypeOK | |
| CanceledAlways | RunLifecycle_proofs | CanceledMeansDrained | the run has a task, somebody reads it |
| LastStatusAlways | RunLifecycle_proofs | LastStatusFinal | the run has a task, somebody reads it |
| ThrottleTyped | Throttle_proofs | ThrottleTypeOK | |
| GiveUpAlways | Throttle_proofs | GiveUpLeavesNothing | |
| LimitsAlways | Throttle_proofs | GiveUpAfterLimits | |
| CreationTyped | RunCreation_proofs | CreationTypeOK | WorldAssumption |
| AssetsAccountedAlways | RunCreation_proofs | AssetsAccounted | WorldAssumption |
| DoneIsFinalAlways | RunCreation_proofs | DoneIsFinal | WorldAssumption |
| ReuseSoundAlways | RunCreation_proofs | ReuseSound | WorldAssumption |
| ExecTyped | CodexExec_proofs | ExecTypeOK | |
| LateWritesStayOut | CodexExec_proofs | OnlyEndedCallsPublish | |
| NoTempForgotten | CodexExec_proofs | TempsAccounted | |
| RowsKept | CodexExec_proofs | LogKeepsRows | |
| ColumnsFit | CodexExec_proofs | HeaderTellsRows | |
| ToldIsThere | CodexExec_proofs | OneToldTruth | `OneAtATime` |
| RecordsTyped | AttemptRecords_proofs | RecordsTypeOK | |
| OutcomesAccepted | AttemptRecords_proofs | UsageTellsOutcome | |
| ScoresTrue | AttemptRecords_proofs | ScoresTellUsage | |
| BundlesFirst | AttemptRecords_proofs | RowsHaveBundles | |
| BundlesTrue | AttemptRecords_proofs | BundlesTellRows | |
| EvidenceKept | AttemptRecords_proofs | EvidenceOrWarning | |
| DistilledWithinCaps | AttemptRecords_proofs | limits of `NormalizeDistilledTips` | |

`WorldAssumption` says that there is an input, a text and a definition at all. A run without tasks cannot be created (`cli.py:408`).

**The queue.** The inductive invariant `SafeInv` is built in layers, each of which needs those before it.
1. **TypeInv** is TypeOK and ClaimsHeld. TypeOK alone is not inductive: what a worker's step does to a row is typed
   only if the worker holds a task and a token. `TaskQueue_proofs` has one lemma per operation of the queue.
2. **ClaimsDistinct**: two claims on one task have different tokens *whether or not* they still own it. OneOwner
   is not inductive because it says nothing about claims that lost their task. The lemma `Moves` says
   that only a claim gives a worker a token, and `FreshToken` that it is a new one; OneOwner follows since a row has one token.
3. **PromotionHeld**: the worker between `os.replace` and the commit holds the write lock alone and owns its task.
   `LockedStep` says that nothing but the end of that promotion disturbs this while the lock is held.
4. `RowStep` reduces every step to one of six effects on rows (`RowKept`, `RowClaimed`, `RowBegun`, `RowEnded`,
   `RowCanceled`, `RowRetried`); everything after it is argued by these, not by the actions.
5. **CountersInv**: RowsConsistent, CountersCurrent and ExecutionUncounted (an execution in progress is not counted as
   rate limited yet). Rate limits stay below executions only because of the last, which stays true only
   because the owner is unique.

The action properties and the refinement follow from SafeInv and `RowStep`. In the refinement every row effect is a
step of the ledger; `FinalStep` says that an output file changes only while its task runs and no row changes.

**Timely heartbeats.** HeartbeatKeepsOwnership is not an invariant of `Spec`: a late heartbeat loses the lease. Under
TimelySpec the invariant is `LeaseKept`: a worker between its claim and the end of the claim has a running heartbeat, owns its
task, and its lease has not expired. A renewal with a reading that is `lag` old leaves `LeaseWindow - lag` ticks, which
is none at all if readings may be older than a lease is long; hence `MaxLag <= LeaseWindow`. In the code a reading waits
for the write lock for at most the 5 seconds of `busy_timeout` (`db.py:62`), and the default lease is 300 seconds.

**Creation.** `TypeInv` adds to the types that run ids in use were handed out; a source of reuse must have been
started for its directory to exist. `CreationInv` adds who holds what: commands at work have different runs
(`Distinct`) whose tasks nobody has seen (`Untouched`), with the assets they froze (`Held`). AssetsAccounted and
DoneIsFinal follow. `ReuseInv` follows an output from the worker that writes it to the run that copies it:
directories are distinct, a chosen source is nobody's work in progress and keeps its fingerprint, open tasks and
commands have hashes of the inputs as they are (`InputsKept`), and every plan fits the files (`PlanFits`,
`OutputsRight`). `NewTasks` says that only the insertion makes tasks, and there the promise of the plan is what ReuseSound asks for.
All of it is said of runs that are not tainted (`Clean`) and of inputs that are `Alone` with their output file, so the theorem needs no
hypothesis about lapses: whatever people do, it speaks of the runs and inputs that this left alone. Both restrictions
are needed, since `ReuseRight`, which has neither, is violated (section 3).

**Sessions.** `TypeInv` adds the shape of a worker: idle without a claim, busy with one, and with a session from the turn on.
HeldOnce and FailedTurns are argued over what a step does to one session (`SessionStep`). For LinkAlways the invariant
is ClaimsDistinct, LinkTellsOutput and `TurnLinked`: the owner of a task in its turn has linked it to that turn. The
link is guarded by the lease token, so another worker can rewrite it only with the same token, which ClaimsDistinct
excludes; `TurnKept` and `OwnerBefore` say that neither the turn nor the ownership appears from nowhere. The refinement
goes by row effects again (`RowStep`); there the promotion is one step, so its output is the last holder's at once.
The counts rest on `CountInv`: the done tasks of every session are numbered 1 to their count (`Numbered`), a worker's count
in memory is that count, and a worker that has begun a task has room for one more turn (`RoomForTurn`). A promotion adds
one task to the set under the next number; nothing takes a done task out again.

**Lifecycle.** A drained run stays drained until retry-errors, so counts taken from a drained run cannot be
outdated by anything else. `AnswerRight` says this of what a caller has read and counted, `ColumnsRight` of the two columns. LastStatus
needs more: while a finished status is missing, some caller that has not left will still write one or ask again (`WillWrite`). A
run without tasks would derive an unfinished status for ever, hence the hypotheses.

**Throttle.** The policy's bounds are part of the type and hold for every row that any worker has read, so a stale row
written back is as good as a fresh one. `LeasesHeld` says that a task leased to a live worker is the one that worker works on; giving
up comes after the requeue and leaves none. For
LimitsAlways, `CountsHeard` says that every count, in the table or about to be written back, is at most the number of rate limits
there were: a worker that reads an older row and writes over a newer one can only lose counts, since the rate limit it
adds has come after the row it read.

**Codex calls.** `TypeInv` adds that calls under way have different ids. `PublishInv` relates callers, codex processes
and temporary files: codex runs exactly for the callers that wait for it (`FateInv`), and a caller past the payload
has dealt with its temporary file (`TempInv`). `LogInv`
has two formulas about a content of the log, `Kept` (every row written on a line of its own is in it or saved, and none is there
twice) and `Shaped` (rows of another shape, and an open line, come from calls that stopped). They hold of the file while nobody is in
it, and `HolderInv` says them of what the holder of the lock has read (`base`), which is what it may write back; the
lock, which is part of the type, makes that holder the only one. A file in the middle of a write begins like
`base` (`BeginsKept`) or is empty after a backup. `LogOpened`, `LogMigrated`, `LogFlushed`, `LogAppended` and `LogUntouched`
take the steps one by one, `OthersStay` the callers that do not take them.
OneToldTruth needs `OneAtATime`: with two `one` commands for one path the second may overwrite
what the first has told its user, and TLC shows it in two calls.

**Records.** `TypeInv` adds the shape of an attempt, that tip ids were handed out in order, and that a learner's list has
no key twice; the last two make `tip_id` and the key unique among concurrent learners, since a learner whose first tip
appeared meanwhile is refused. The other invariants rest on it alone.
1. **OutcomeInv**: a worker about to credit has its accepted end in the history with the tips of its prompt.
2. **ScoreInv**: per tip the usage rows are a finite set that gains at most the row being credited (`OneMoreRow`); a new tip
   has an id that no usage row carries.
3. **CaptureInv**: files are never removed, and a worker that has described its bundle finds it there.
4. **AttemptInv** is what BundlesTellRows needs to be inductive: among tasks that were not retried, two attempts
   never have one number, nothing is filed under a number that was not handed out, and whatever is filed under
   a live attempt's number is its own (`Numbered`); an output it deleted outside benchmark mode is in its bundle unless a warning was logged.
   EvidenceOrWarning follows with BundlesTellRows. Takeovers keep it because the claim counter never goes back; retry-errors
   resets the counter, and the task leaves the statement.

Only model-checked are EveryTaskSettles and RunResumes: liveness under fairness is beyond the prover. So is what
recursive definitions and folds compute, hence `NormalizedAsLoop` is checked on bounded lists, while the limits of the
declarative form are proved for every list (DistilledWithinCaps).

## 6. Plan

Done in the order of the first plan: queue and workers, lifecycle, throttle, then sessions, creation, codex calls,
forensics and tips; and the theorems for all of them. What would come next: the safety part of RunResumes (which state of the
throttle row admits the next claim), and autotune as operators against a reference definition.

## 7. Not modelled

- *Reports, dashboards, lint, doctor, catalog*: they read and never feed back into a run.
- *Specs, schemas, prompts, wording*: a definition, a text or a verdict here.
- *Benchmark evaluation and autotune*: pure computations without state.
- *Execution context*: one scratch directory per lease token, shared by nobody.
- *The command `process`*: it creates a run (RunCreation), runs workers as threads (FarmWorkers, SessionWorkers),
  polls `run_status` (RunLifecycle) and learns once at the end (AttemptRecords), and keeps no state of its own. A kill of that process is a
  Crash of each of its workers.
- *The upgrade of an old database* (`db.py:306`): one ALTER at a time, each committed by itself. A kill in between leaves
  columns that are not filled in; every module starts from a current schema. It is listed as a hazard.
- *The write lock that a refused usage insert leaves open* (`db.py:1918`): AttemptRecords has the refusal and the dead worker, but not the lock.
- *The trace file of codex calls*: its errors are swallowed, and nothing reads it back.
- *`stop_event`* of the worker loops: nothing sets it.
- SQLite itself is assumed to make a transaction atomic, to serialize writers and to keep its constraints.
