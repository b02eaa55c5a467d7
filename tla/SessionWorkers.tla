---------------------------- MODULE SessionWorkers ----------------------------
(***************************************************************************)
(* The second worker loop, session_runtime.py: a worker keeps one codex    *)
(* conversation and gives it task after task, and worker_sessions has a    *)
(* row for every conversation.  Tasks are leased from the same queue.      *)
(*                                                                         *)
(* Phases of a worker:                                                     *)
(*   top       at the top of the loop; it may hold a session               *)
(*   claimed   a task is leased; preflight, roll-over of the session       *)
(*   begun     begin_task_execution succeeded                              *)
(*   turn      the task is linked to the session; codex runs the turn      *)
(*   promoted  output and row are committed; the session row is not        *)
(*   failed, doomed, unexpected   a retryable, a terminal or an unforeseen *)
(*             failure is being handled                                    *)
(*   limited   a rate limit is committed; the session is not closed        *)
(*   requeueing, canceling        the run's control state has been read    *)
(*   gone, dead                   as in FarmWorkers                        *)
(*                                                                         *)
(* max_turns_per_task is 1, so turn_count and task_count are written       *)
(* together and are one number here.  The two steps of a promotion, which  *)
(* FarmWorkers takes apart, are one: the write lock is held in between.    *)
(***************************************************************************)
EXTENDS TaskQueue, Sequences, FiniteSets

CONSTANTS Worker,
          NoTask,
          MaxAttempts,    \* --max-attempts
          Configs,        \* configurations a run may have been frozen with
          Commands,       \* operator commands given: pause resume cancel retry
          MaxSessions,    \* bound: rows of worker_sessions
          MaxExecutions,  \* bound: executions of one task
          MaxEvents       \* bound: commands, rate limits, commits and updates that
                          \* raise, processes killed, exceptions that leave the loop

ASSUME SessionAssumption ==
  /\ NoTask \notin Task
  /\ MaxAttempts \in Nat \ {0}
  /\ Configs \subseteq [reset : BOOLEAN, budget : Nat \ {0}, other : SUBSET Task]
  /\ {MaxSessions, MaxExecutions, MaxEvents} \subseteq Nat

VARIABLES worker,     \* the claim each worker holds
          held,       \* the WorkerSessionState of each worker
          session,    \* the rows of worker_sessions, by session_row_id
          link,       \* the session columns of each task
          final,      \* the canonical output of a task: the turn that wrote it
          config,     \* the run's configuration, see below
          throttled,  \* the run has a throttle row, so a claim may be refused
          abandoned,  \* the sessions whose worker died (for the properties only)
          events

queueVars == <<row, control, locked>>
vars == <<row, control, locked, worker, held, session, link, final,
          config, throttled, abandoned, events>>

(* session_reset_on_error, session_task_budget, and the tasks that run in a *)
(* --cd directory of their own.                                             *)
Reset == config.reset
TaskBudget == config.budget
OtherDir == config.other

Phase == {"top", "claimed", "begun", "turn", "promoted", "failed", "doomed",
          "unexpected", "limited", "requeueing", "canceling", "gone", "dead"}

WorkerState == [phase   : Phase,
                task    : Task \cup {NoTask},
                token   : Token \cup {NoToken},
                execs   : Nat,
                limited : Nat]

Holding(p) == [phase |-> p, task |-> NoTask, token |-> NoToken,
               execs |-> 0, limited |-> 0]

(* thread is the conversation that resume_key names: none yet, clean, or    *)
(* one in which a turn went wrong.                                          *)
SessionState == [id     : 0..MaxSessions,
                 count  : Nat,
                 thread : {"none", "clean", "spoiled"},
                 other  : BOOLEAN]

NoSession == [id |-> 0, count |-> 0, thread |-> "none", other |-> FALSE]

SessionRow == [status : {"running", "finished", "failed", "rate_limited"}, count : Nat]

Turn == [session : 0..MaxSessions, index : Nat]
NoTurn == [session |-> 0, index |-> 0]

SessionTypeOK ==
  /\ QueueTypeOK
  /\ worker \in [Worker -> WorkerState]
  /\ held \in [Worker -> SessionState]
  /\ session \in Seq(SessionRow)
  /\ Len(session) <= MaxSessions
  /\ link \in [Task -> Turn]
  /\ final \in [Task -> [token : Token \cup {NoToken}, turn : Turn]]
  /\ config \in Configs
  /\ throttled \in BOOLEAN
  /\ abandoned \subseteq 1..Len(session)
  /\ events \in 0..MaxEvents
  /\ \A w \in Worker : held[w].id <= Len(session)

Init ==
  /\ QueueInit
  /\ worker = [w \in Worker |-> Holding("top")]
  /\ held = [w \in Worker |-> NoSession]
  /\ session = <<>>
  /\ link = [t \in Task |-> NoTurn]
  /\ final = [t \in Task |-> [token |-> NoToken, turn |-> NoTurn]]
  /\ config \in Configs
  /\ throttled = FALSE
  /\ abandoned = {}
  /\ events = 0

------------------------------------------------------------------------------
At(w, p) == worker[w].phase = p
Goto(w, p) == worker' = [worker EXCEPT ![w].phase = p]
LoopTop(w) == worker' = [worker EXCEPT ![w] = Holding("top")]
NoEvent == UNCHANGED <<config, abandoned, events>>

Event ==
  /\ events < MaxEvents
  /\ events' = events + 1
  /\ UNCHANGED config

Spent(w) == worker[w].execs - worker[w].limited
OwnsClaim(w) == worker[w].task # NoTask /\ Owns(worker[w].task, worker[w].token)

Fresh(t) ==
  {tok \in Token : /\ row[t].token # tok /\ final[t].token # tok
                   /\ \A w \in Worker : ~(worker[w].task = t /\ worker[w].token = tok)}

(* The turn the worker is about to take, or takes. *)
NextTurn(w) == [session |-> held[w].id, index |-> held[w].count + 1]

HasSession(w) == held[w].id # 0

(* Mutant: the row keeps the count it was last updated with. *)
CloseKeepingCount(w, status) ==
  /\ session' = [session EXCEPT ![held[w].id].status = status]
  /\ held' = [held EXCEPT ![w] = NoSession]

(* _close_session: the row gets its last status and the counts in memory.   *)
Close(w, status) ==
  /\ session' = [session EXCEPT ![held[w].id] = [status |-> status, count |-> held[w].count]]
  /\ held' = [held EXCEPT ![w] = NoSession]

LeaseOneTask(w) ==
  /\ At(w, "top")
  /\ \E t \in Task, lag \in Lag :
       /\ Fresh(t) # {}
       /\ LET tok == CHOOSE k \in Fresh(t) : TRUE
          IN /\ Claim(t, tok, lag)
             /\ worker' = [worker EXCEPT ![w] =
                             [phase |-> "claimed", task |-> t, token |-> tok,
                              execs |-> row[t].execs, limited |-> row[t].limited]]
  /\ UNCHANGED <<held, session, link, final, throttled>>
  /\ NoEvent

(* lease_one_task returned nothing: the session is finished, although work  *)
(* may come back later.                                                     *)
NothingToLease(w) ==
  /\ At(w, "top")
  /\ HasSession(w)
  /\ \/ control # "active" \/ throttled
     \/ \E lag \in Lag : \A t \in Task : ~Claimable(t, lag)
  /\ Close(w, "finished")
  /\ UNCHANGED <<queueVars, worker, link, final, throttled>>
  /\ NoEvent

Leave(w) ==
  /\ At(w, "top")
  /\ ~HasSession(w)
  /\ Drained
  /\ Goto(w, "gone")
  /\ UNCHANGED <<queueVars, held, session, link, final, throttled>>
  /\ NoEvent

(* The run's configuration, its frozen assets or its runtime mode do not    *)
(* fit.  There is no check of the attempt budget here.                      *)
PreflightError(w) ==
  /\ At(w, "claimed")
  /\ MarkTaskError(worker[w].task, worker[w].token)
  /\ LoopTop(w)
  /\ UNCHANGED <<held, session, link, final, throttled>>
  /\ NoEvent

Fits(w) == /\ held[w].count < TaskBudget
           /\ held[w].other = (worker[w].task \in OtherDir)

RollOver(w) ==
  /\ At(w, "claimed")
  /\ HasSession(w) /\ ~Fits(w)
  /\ Close(w, "finished")
  /\ UNCHANGED <<queueVars, worker, link, final, throttled>>
  /\ NoEvent

StartExecution(w) ==
  /\ At(w, "claimed")
  /\ HasSession(w) => Fits(w)
  /\ \/ /\ row[worker[w].task].execs < MaxExecutions
        /\ BeginTaskExecution(worker[w].task, worker[w].token)
        /\ worker' = [worker EXCEPT ![w].phase = "begun",
                                    ![w].execs = row[worker[w].task].execs + 1]
     \/ /\ ~OwnsClaim(w)
        /\ LoopTop(w)
        /\ UNCHANGED queueVars
  /\ UNCHANGED <<held, session, link, final, throttled>>
  /\ NoEvent

OpenSession(w) ==
  /\ At(w, "begun")
  /\ ~HasSession(w)
  /\ Len(session) < MaxSessions
  /\ session' = Append(session, [status |-> "running", count |-> 0])
  /\ held' = [held EXCEPT ![w] = [NoSession EXCEPT !.id = Len(session) + 1,
                                                   !.other = worker[w].task \in OtherDir]]
  /\ UNCHANGED <<queueVars, worker, link, final, throttled>>
  /\ NoEvent

(* Mutant: the link is written without the guard of the lease token. *)
LinkUnguarded(w) ==
  /\ At(w, "begun")
  /\ HasSession(w)
  /\ link' = [link EXCEPT ![worker[w].task] = NextTurn(w)]
  /\ Goto(w, "turn")
  /\ UNCHANGED <<queueVars, held, session, final, throttled>>
  /\ NoEvent

(* link_task_to_worker_session, for the owner of the claim only.            *)
LinkTask(w) ==
  /\ At(w, "begun")
  /\ HasSession(w)
  /\ IF OwnsClaim(w)
     THEN /\ link' = [link EXCEPT ![worker[w].task] = NextTurn(w)]
          /\ Goto(w, "turn")
     ELSE /\ LoopTop(w)
          /\ UNCHANGED link
  /\ UNCHANGED <<queueVars, held, session, final, throttled>>
  /\ NoEvent

------------------------------------------------------------------------------
(* The turn and what becomes of it. *)

(* A failed turn spoils the conversation it was added to; the one that a    *)
(* failed first turn may have begun is not known to anybody.                *)
Spoiled(s) == IF s.thread = "none" THEN s ELSE [s EXCEPT !.thread = "spoiled"]

(* Timeout, nonzero exit, no payload, no resume key, a payload the schema   *)
(* rejects, or an exception nobody foresaw.                                 *)
TurnFails(w) ==
  /\ At(w, "turn")
  /\ \E p \in {"failed", "doomed", "unexpected"} : Goto(w, p)
  /\ held' = [held EXCEPT ![w] = Spoiled(@)]
  /\ UNCHANGED <<queueVars, session, link, final, throttled>>
  /\ NoEvent

(* HTTP 429: requeue and throttle row are one transaction, and only if the  *)
(* task is still this worker's.                                             *)
TurnRateLimited(w) ==
  /\ At(w, "turn")
  /\ RequeueTaskAfterRateLimit(worker[w].task, worker[w].token)
  /\ throttled' = (throttled \/ OwnsClaim(w))
  /\ held' = [held EXCEPT ![w] = Spoiled(@)]
  /\ Goto(w, "limited")
  /\ UNCHANGED <<session, link, final, abandoned>>
  /\ Event

(* Mutant: the session's row is closed, the worker goes on using it. *)
CloseRowOnly(w) ==
  /\ At(w, "limited")
  /\ session' = [session EXCEPT ![held[w].id] =
                   [status |-> "rate_limited", count |-> held[w].count]]
  /\ LoopTop(w)
  /\ UNCHANGED <<queueVars, held, link, final, throttled>>
  /\ NoEvent

(* The session ends, whoever owns the task.  After too many rate limits in  *)
(* a row the loop returns; the heartbeat it leaves has lost its claim.      *)
CloseRateLimited(w) ==
  /\ At(w, "limited")
  /\ Close(w, "rate_limited")
  /\ \E p \in {"top", "gone"} : worker' = [worker EXCEPT ![w] = Holding(p)]
  /\ UNCHANGED <<queueVars, link, final, throttled>>
  /\ NoEvent

Published(w) == [token |-> worker[w].token, turn |-> NextTurn(w)]

(* Mutant: the first turn of a conversation is not counted. *)
AdvancedIfResumed(s) == [s EXCEPT !.count = IF s.thread = "none" THEN s.count ELSE s.count + 1,
                                  !.thread = IF s.thread = "none" THEN "clean" ELSE s.thread]

(* The conversation as it is after a turn whose output was taken.           *)
Advanced(s) == [s EXCEPT !.count = s.count + 1,
                         !.thread = IF s.thread = "none" THEN "clean" ELSE s.thread]

(* The turn has a payload that passed the schema: the output is moved and   *)
(* the task is done, or neither.  A turn whose task was taken over is       *)
(* dropped and the session goes on: its next turn gets the same index.      *)
Promote(w) ==
  /\ At(w, "turn")
  /\ IF OwnsClaim(w)
     THEN /\ final' = [final EXCEPT ![worker[w].task] = Published(w)]
          /\ MarkTaskDone(worker[w].task, worker[w].token)
          /\ held' = [held EXCEPT ![w] = Advanced(@)]
          /\ Goto(w, "promoted")
     ELSE /\ LoopTop(w)
          /\ UNCHANGED <<queueVars, held, final>>
  /\ UNCHANGED <<session, link, throttled>>
  /\ NoEvent

(* The commit after os.replace raises: the file is there, the row is not.   *)
PromoteRaises(w) ==
  /\ At(w, "turn")
  /\ OwnsClaim(w)
  /\ final' = [final EXCEPT ![worker[w].task] = Published(w)]
  /\ Goto(w, "unexpected")
  /\ UNCHANGED <<queueVars, held, session, link, throttled, abandoned>>
  /\ Event

(* update_worker_session and the session artifact.                          *)
UpdateSession(w) ==
  /\ At(w, "promoted")
  /\ session' = [session EXCEPT ![held[w].id].count = held[w].count]
  /\ LoopTop(w)
  /\ UNCHANGED <<queueVars, held, link, final, throttled>>
  /\ NoEvent

(* Either of them raises, before or after the row is written.               *)
UpdateRaises(w) ==
  /\ At(w, "promoted")
  /\ session' \in {session, [session EXCEPT ![held[w].id].count = held[w].count]}
  /\ Goto(w, "unexpected")
  /\ UNCHANGED <<queueVars, held, link, final, throttled, abandoned>>
  /\ Event

------------------------------------------------------------------------------
(* The end of a failure.  The session is closed before the task is touched. *)

Handling(w) == worker[w].phase \in {"failed", "doomed", "unexpected"}

(* Mutant: an unforeseen failure leaves the session open. *)
ClosingForeseen(w) == Reset /\ HasSession(w) /\ ~At(w, "unexpected")

Closing(w) == Reset /\ HasSession(w)

CloseFailed(w) ==
  /\ Handling(w)
  /\ Closing(w)
  /\ Close(w, "failed")
  /\ UNCHANGED <<queueVars, worker, link, final, throttled>>
  /\ NoEvent

GiveUpTask(w) ==
  /\ Handling(w)
  /\ ~Closing(w)
  /\ At(w, "doomed") \/ Spent(w) >= MaxAttempts
  /\ MarkTaskError(worker[w].task, worker[w].token)
  /\ LoopTop(w)
  /\ UNCHANGED <<held, session, link, final, throttled>>
  /\ NoEvent

ReadControlState(w) ==
  /\ At(w, "failed")
  /\ ~Closing(w)
  /\ Spent(w) < MaxAttempts
  /\ Goto(w, IF Canceling THEN "canceling" ELSE "requeueing")
  /\ UNCHANGED <<queueVars, held, session, link, final, throttled>>
  /\ NoEvent

CancelAfterFailure(w) ==
  /\ At(w, "canceling")
  /\ MarkTaskCanceled(worker[w].task, worker[w].token)
  /\ LoopTop(w)
  /\ UNCHANGED <<held, session, link, final, throttled>>
  /\ NoEvent

(* Mutant: an unforeseen failure requeues the task whoever owns it. *)
RequeueUnguarded(w) ==
  /\ \/ At(w, "requeueing")
     \/ At(w, "unexpected") /\ ~Closing(w) /\ Spent(w) < MaxAttempts
  /\ row' = [row EXCEPT ![worker[w].task] = Released(@, "queued")]
  /\ LoopTop(w)
  /\ UNCHANGED <<control, locked, held, session, link, final, throttled>>
  /\ NoEvent

(* After an unforeseen failure the control state is not looked at.          *)
Requeue(w) ==
  /\ \/ At(w, "requeueing")
     \/ At(w, "unexpected") /\ ~Closing(w) /\ Spent(w) < MaxAttempts
  /\ RequeueTask(worker[w].task, worker[w].token)
  /\ LoopTop(w)
  /\ UNCHANGED <<held, session, link, final, throttled>>
  /\ NoEvent

------------------------------------------------------------------------------
(* Heartbeats, failures and restarts, as in FarmWorkers; a heartbeat thread *)
(* that has lost its claim only stops.  The conversation is known to the    *)
(* loop alone: when the loop dies the session's row stays running.          *)

Heartbeat(w) ==
  /\ worker[w].task # NoTask
  /\ \E lag \in Lag : HeartbeatTaskLease(worker[w].task, worker[w].token, lag)
  /\ UNCHANGED <<worker, held, session, link, final, throttled>>
  /\ NoEvent

Abandon(w) ==
  /\ held' = [held EXCEPT ![w] = NoSession]
  /\ abandoned' = abandoned \cup ({held[w].id} \ {0})

(* An input, a template or a --cd directory that cannot be read, or a       *)
(* session artifact that cannot be written while a failure is handled.      *)
Escape(w) ==
  /\ worker[w].phase \in {"claimed", "begun", "failed", "doomed", "unexpected",
                          "limited", "requeueing", "canceling"}
  /\ Goto(w, "dead")
  /\ Abandon(w)
  /\ UNCHANGED <<queueVars, session, link, final, throttled>>
  /\ Event

(* A kill during the promotion may come after os.replace.                   *)
Crash(w) ==
  /\ worker[w].phase # "gone"
  /\ worker' = [worker EXCEPT ![w] = Holding("gone")]
  /\ Abandon(w)
  /\ \/ UNCHANGED final
     \/ /\ At(w, "turn") /\ OwnsClaim(w)
        /\ final' = [final EXCEPT ![worker[w].task] = Published(w)]
  /\ UNCHANGED <<queueVars, session, link, throttled>>
  /\ Event

Start(w) ==
  /\ At(w, "gone")
  /\ LoopTop(w)
  /\ UNCHANGED <<queueVars, held, session, link, final, throttled>>
  /\ NoEvent

Operator ==
  /\ \/ "pause" \in Commands /\ SetRunControlState("paused")
     \/ "resume" \in Commands /\ SetRunControlState("active")
     \/ "cancel" \in Commands /\ \E lag \in Lag : CancelRunTasks(lag)
     \/ "retry" \in Commands /\ RequeueErrorTasks
  /\ UNCHANGED <<worker, held, session, link, final, throttled, abandoned>>
  /\ Event

Polled ==
  /\ ConfirmCancel
  /\ UNCHANGED <<worker, held, session, link, final, throttled>>
  /\ NoEvent

Time ==
  /\ Tick
  /\ UNCHANGED <<worker, held, session, link, final, throttled>>
  /\ NoEvent

Work(w) ==
  \/ LeaseOneTask(w) \/ NothingToLease(w) \/ Leave(w)
  \/ PreflightError(w) \/ RollOver(w) \/ StartExecution(w)
  \/ OpenSession(w) \/ LinkTask(w)
  \/ TurnFails(w) \/ TurnRateLimited(w) \/ CloseRateLimited(w)
  \/ Promote(w) \/ PromoteRaises(w) \/ UpdateSession(w) \/ UpdateRaises(w)
  \/ CloseFailed(w) \/ GiveUpTask(w) \/ ReadControlState(w)
  \/ CancelAfterFailure(w) \/ Requeue(w)

Next ==
  \/ \E w \in Worker : Work(w) \/ Heartbeat(w) \/ Escape(w) \/ Crash(w) \/ Start(w)
  \/ Operator \/ Polled
  \/ Time

Spec == Init /\ [][Next]_vars
------------------------------------------------------------------------------
SessionIds == 1..Len(session)
DoneBy(s) == {t \in Task : row[t].status = "done" /\ link[t].session = s}

(* The row of a session is running exactly as long as one worker, and only  *)
(* one, uses the conversation, or if that worker died with it.              *)
SessionsHeldOnce ==
  /\ {s \in SessionIds : session[s].status = "running"}
       = abandoned \cup {held[w].id : w \in {v \in Worker : HasSession(v)}}
  /\ \A v, w \in Worker : HasSession(w) /\ held[v].id = held[w].id => v = w

(* The done tasks of a session are its turns 1, 2, 3, ... without a gap and *)
(* without a number given twice, and never more than its task budget, though *)
(* failed and lost turns use the same numbers.                              *)
TurnsNumbered ==
  \A s \in SessionIds :
    /\ {link[t].index : t \in DoneBy(s)} = 1..Cardinality(DoneBy(s))
    /\ Cardinality(DoneBy(s)) <= TaskBudget

(* A done task names the session and the turn that wrote its output: a      *)
(* worker that lost the lease can change neither alone.                     *)
LinkTellsOutput ==
  \A t \in Task : row[t].status = "done" => link[t] = final[t].turn

(* A closed session's row counts the tasks that were done in it, whichever  *)
(* step failed before it was closed.                                        *)
ClosedCountsDone ==
  \A s \in SessionIds :
    session[s].status # "running" => session[s].count = Cardinality(DoneBy(s))

(* docs/04-worker-execution-and-retries: "Reset the session conservatively  *)
(* on ambiguous failures, rate limits, task-budget rollover, or cd_dir      *)
(* changes."  With session_reset_on_error no turn goes to a conversation in *)
(* which an earlier one failed, and never to one of another directory.      *)
FailedTurnsEndSessions ==
  \A w \in Worker :
    At(w, "turn") => /\ Reset => held[w].thread # "spoiled"
                     /\ held[w].other = (worker[w].task \in OtherDir)

(* The queue and the outputs under this loop implement the ledger, too.     *)
Ledger == INSTANCE TaskLedger WITH
            ClaimId <- Token,
            NoClaim <- NoToken,
            state   <- [t \in Task |-> row[t].status],
            holder  <- [t \in Task |-> row[t].token],
            output  <- [t \in Task |-> IF row[t].status = "done"
                                       THEN final[t].token ELSE NoToken]

SessionsImplementLedger == Ledger!LedgerSpec

(* docs/04-worker-execution-and-retries: "`max_attempts=3` allows up to 3   *)
(* effective execution attempts; 429 retries still do not consume budget."  *)
SessionBudgetRespected ==
  [][\A t \in Task :
       row'[t].execs # row[t].execs => row[t].execs - row[t].limited < MaxAttempts]_vars
==============================================================================
