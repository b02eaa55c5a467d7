---------------------------- MODULE AttemptRecords ----------------------------
(***************************************************************************)
(* What workers leave behind beside the tasks table: the forensics bundle  *)
(* and its row for every failed attempt (forensics.py), and the score of   *)
(* every Heads Up tip whose prompt carried it (heads_up.py).  Neither is   *)
(* written in the transaction that moves the task.                         *)
(*                                                                         *)
(* Lease tokens are 1..MaxClaims, in the order of the claims, and so name  *)
(* the attempts; an attempt captures at most once, so its token also       *)
(* stands for the forensics_id and for the content of its staged output.   *)
(*                                                                         *)
(* Phases of a worker:                                                     *)
(*   top        between two tasks                                          *)
(*   claimed    a task is leased                                           *)
(*   begun      codex runs with the selected tips in its prompt            *)
(*   published  benchmark mode: the output is in place, and the benchmark  *)
(*              artifacts are written before done is committed             *)
(*   promoted   done is committed; the tips are not credited               *)
(*   failed, copied, described, captured, cleaned                          *)
(*              a failure is handled: the output is copied to the bundle,  *)
(*              metadata.json is written, the row is inserted, the staged  *)
(*              output is deleted                                          *)
(*   uncaptured the capture failed with a warning, and the handling goes on *)
(*   erred      error is committed; the tips are not credited              *)
(*   dead       killed, or stopped by an exception                         *)
(*                                                                         *)
(* How an attempt ends and how many a task may have is the business of     *)
(* FarmWorkers: here a failure is terminal or not by choice.  Rate limits  *)
(* and plain retries differ only in columns that these records ignore.     *)
(***************************************************************************)
EXTENDS TaskQueue, Sequences, FiniteSets, SequencesExt

CONSTANTS Worker, NoTask,
          Learner,           \* processes that distil tips from the run
          Text,              \* tip texts
          Signature,         \* input signatures known to the run
          SignatureOf,       \* the signature of each task's input
          TipLimit,          \* heads_up_max_tips
          RetireUses, RetireScore,   \* 8 and 1/4: such a tip is not shown
          SignatureCap, TipCap,      \* 4 and 24: tips taken from one distillation
          MaxRaw,            \* bound: tips the distiller proposes
          MaxClaims,         \* bound: claims, over all tasks
          MaxTips,           \* bound: tip rows ever inserted
          MaxEvents          \* bound: retries, clears, learnings, kills, failed captures

Wildcard == "*"
Unknown == "unknown"

ASSUME RecordsAssumption ==
  /\ NoTask \notin Task
  /\ Token = 1..MaxClaims /\ NoToken = 0
  /\ {Wildcard, Unknown} \cap Signature = {}
  /\ SignatureOf \in [Task -> Signature]
  /\ {TipLimit, RetireUses, SignatureCap, TipCap} \subseteq Nat \ {0}
  /\ RetireScore \in Nat \X (Nat \ {0})
  /\ {MaxRaw, MaxClaims, MaxEvents} \subseteq Nat /\ MaxTips \in Nat \ {0}

VARIABLES benchmark, \* the run is in recipeimport benchmark mode
          worker,   \* the attempt each worker is in
          claims,   \* tasks.attempts: claims since the last retry-errors
          issued,   \* lease tokens handed out
          bundle,   \* forensics/runs/<run>/<task>/attempt-<index>
          forensics, \* the rows of task_forensics
          tips,     \* the rows of heads_up_tips
          inserted, \* tip rows ever inserted; the next has tip_id inserted + 1
          usage,    \* the rows of heads_up_tip_usage
          learner,
          history,  \* for the properties: what ended, was deleted, was retried,
                    \* and whose capture failed with a warning
          events

queueVars == <<row, control, locked>>
attemptVars == <<worker, claims, issued, benchmark>>
evidenceVars == <<bundle, forensics>>
tipVars == <<tips, inserted, usage>>
vars == <<queueVars, attemptVars, evidenceVars, tipVars, learner, history, events>>

Phase == {"top", "claimed", "begun", "published", "promoted", "failed", "copied", "described",
          "captured", "uncaptured", "cleaned", "erred", "dead"}

Attempt == [phase    : Phase,
            task     : Task \cup {NoTask},
            token    : 0..MaxClaims,
            index    : 0..MaxClaims,      \* lease_claim_index
            tips     : SUBSET (1..MaxTips), \* applied_tip_ids
            staged   : BOOLEAN,           \* the staged output exists
            raw      : BOOLEAN,           \* raw_output_path is set
            terminal : BOOLEAN]

NoAttempt(p) == [phase |-> p, task |-> NoTask, token |-> 0, index |-> 0, tips |-> {},
                 staged |-> FALSE, raw |-> FALSE, terminal |-> FALSE]

(* metadata.json names the capture that wrote it, output.raw.json its       *)
(* content; 0 is a file that does not exist, and Torn one whose writer      *)
(* stopped in the middle: both are rewritten in place.                      *)
Torn == MaxClaims + 1
Bundle == [meta : 0..Torn, raw : 0..Torn]

Score == (Nat \ {0}) \X (Nat \ {0})
Key == [signature : Signature \cup {Wildcard}, text : Text]
Proposal == [signature : Signature \cup {Wildcard, Unknown}, text : Text]
Tip == [id : 1..MaxTips, key : Key, uses : Nat, wins : Nat, score : Score]
Usage == [task : Task, tip : 1..MaxTips, outcome : {"done", "error"}]

NewTip(i, k) == [id |-> i, key |-> k, uses |-> 0, wins |-> 0, score |-> <<1, 2>>]

LearnerState == [phase : {"idle", "reading", "upserting"},
                 todo  : UNION {[K -> Key] : K \in SUBSET (1..MaxRaw)},
                 found : 0..MaxTips]
Idle == [phase |-> "idle", todo |-> <<>>, found |-> 0]

(* The last conjunct is what tip_id and the unique index promise:           *)
(* concurrent learners never split the score of a tip over two rows.        *)
RecordsTypeOK ==
  /\ QueueTypeOK
  /\ benchmark \in BOOLEAN
  /\ worker \in [Worker -> Attempt]
  /\ claims \in [Task -> 0..MaxClaims]
  /\ issued \in 0..MaxClaims
  /\ bundle \in [Task -> [0..MaxClaims -> Bundle]]
  /\ forensics \subseteq [id : 1..MaxClaims, task : Task, index : 0..MaxClaims, raw : BOOLEAN]
  /\ tips \subseteq Tip
  /\ inserted \in 0..MaxTips
  /\ usage \subseteq Usage
  /\ learner \in [Learner -> LearnerState]
  /\ events \in 0..MaxEvents
  /\ \A p, q \in tips : p.id = q.id \/ p.key = q.key => p = q

(* Tips of earlier runs that no task has ended with may be there.           *)
Init ==
  /\ QueueInit
  /\ benchmark \in BOOLEAN
  /\ worker = [w \in Worker |-> NoAttempt("top")]
  /\ claims = [t \in Task |-> 0]
  /\ issued = 0
  /\ bundle = [t \in Task |-> [i \in 0..MaxClaims |-> [meta |-> 0, raw |-> 0]]]
  /\ forensics = {}
  /\ \E old \in BoundedSeq(Key, MaxTips - 1) :
       /\ IsInjective(old)
       /\ tips = {NewTip(i, old[i]) : i \in DOMAIN old}
       /\ inserted = Len(old)
  /\ usage = {}
  /\ learner = [l \in Learner |-> Idle]
  /\ history = [ended |-> {}, cleaned |-> {}, retried |-> {}, warned |-> {}]
  /\ events = 0

------------------------------------------------------------------------------
At(w, p) == worker[w].phase = p
Goto(w, p) == worker' = [worker EXCEPT ![w].phase = p]
Event == events < MaxEvents /\ events' = events + 1

(* lease_next_task: attempts counts the claim and names its bundle.         *)
LeaseNextTask(w) ==
  /\ At(w, "top")
  /\ issued < MaxClaims
  /\ \E t \in Task, lag \in Lag :
       /\ Claim(t, issued + 1, lag)
       /\ claims' = [claims EXCEPT ![t] = @ + 1]
       /\ worker' = [worker EXCEPT ![w] =
                       [NoAttempt("claimed") EXCEPT !.task = t, !.token = issued + 1,
                                                    !.index = claims[t] + 1]]
  /\ issued' = issued + 1
  /\ UNCHANGED <<benchmark, evidenceVars, tipVars, learner, history, events>>

Above(p, q) == p[1] * q[2] > q[1] * p[2]      \* of two scores

(* select_heads_up_tips: the best of the tips that are not retired, those   *)
(* of the input's own signature first.  Ties are broken by updated_at.      *)
Retired(tip) == tip.uses >= RetireUses /\ Above(RetireScore, tip.score)

Before(p, q) ==
  \/ p.key.signature # Wildcard /\ q.key.signature = Wildcard
  \/ /\ (p.key.signature = Wildcard) = (q.key.signature = Wildcard)
     /\ Above(p.score, q.score)

SelectHeadsUpTips(signature) ==
  LET shown == {tip \in tips : /\ tip.key.signature \in {signature, Wildcard}
                               /\ ~Retired(tip)}
  IN {{tip.id : tip \in chosen} :
        chosen \in {c \in SUBSET shown :
                      /\ Cardinality(c) = IF Cardinality(shown) < TipLimit
                                          THEN Cardinality(shown) ELSE TipLimit
                      /\ \A p \in c, q \in shown \ c : ~Before(q, p)}}

(* The prompt is made with the tips of this moment, then the execution is   *)
(* counted; a worker that lost its claim goes back to the queue.            *)
BeginExecution(w) ==
  /\ At(w, "claimed")
  /\ \/ /\ BeginTaskExecution(worker[w].task, worker[w].token)
        /\ \E chosen \in SelectHeadsUpTips(SignatureOf[worker[w].task]) :
             worker' = [worker EXCEPT ![w].phase = "begun", ![w].tips = chosen]
     \/ /\ ~Owns(worker[w].task, worker[w].token)
        /\ worker' = [worker EXCEPT ![w] = NoAttempt("top")]
        /\ UNCHANGED queueVars
  /\ UNCHANGED <<claims, issued, benchmark, evidenceVars, tipVars, learner, history, events>>

(* A failure before codex ran is terminal and leaves no output.             *)
PreflightFails(w) ==
  /\ At(w, "claimed")
  /\ worker' = [worker EXCEPT ![w].phase = "failed", ![w].terminal = TRUE]
  /\ UNCHANGED <<queueVars, claims, issued, benchmark, evidenceVars, tipVars, learner, history, events>>

CodexFails(w) ==
  /\ At(w, "begun")
  /\ \E wrote, terminal \in BOOLEAN :
       worker' = [worker EXCEPT ![w].phase = "failed", ![w].staged = wrote,
                                ![w].terminal = terminal]
  /\ UNCHANGED <<queueVars, claims, issued, benchmark, evidenceVars, tipVars, learner, history, events>>

Ended(w, outcome) ==
  IF Owns(worker[w].task, worker[w].token)
  THEN history' = [history EXCEPT !.ended =
         @ \cup {[task |-> worker[w].task, outcome |-> outcome, tips |-> worker[w].tips]}]
  ELSE UNCHANGED history

(* Mutant: the tips are credited whether or not the claim was still held.   *)
FinishAndCredit(w) ==
  /\ MarkTaskDone(worker[w].task, worker[w].token)
  /\ Ended(w, "done")
  /\ Goto(w, "promoted")

(* A lost claim leaves nothing to credit.                                   *)
Finish(w) ==
  /\ MarkTaskDone(worker[w].task, worker[w].token)
  /\ Ended(w, "done")
  /\ IF Owns(worker[w].task, worker[w].token) /\ worker[w].tips # {}
     THEN Goto(w, "promoted")
     ELSE worker' = [worker EXCEPT ![w] = NoAttempt("top")]

(* _promote_staged_output_if_owner moves the output and marks the task in   *)
(* one transaction ...                                                      *)
Promote(w) ==
  /\ At(w, "begun")
  /\ ~benchmark
  /\ Finish(w)
  /\ UNCHANGED <<claims, issued, benchmark, evidenceVars, tipVars, learner, events>>

(* ... but in benchmark mode it only moves the output.  The task is marked  *)
(* when the benchmark artifacts are written.                                *)
Publish(w) ==
  /\ At(w, "begun")
  /\ benchmark
  /\ ~locked
  /\ IF Owns(worker[w].task, worker[w].token)
     THEN Goto(w, "published")
     ELSE worker' = [worker EXCEPT ![w] = NoAttempt("top")]
  /\ UNCHANGED <<queueVars, claims, issued, benchmark, evidenceVars, tipVars, learner, history, events>>

ArtifactsWritten(w) ==
  /\ At(w, "published")
  /\ Finish(w)
  /\ UNCHANGED <<claims, issued, benchmark, evidenceVars, tipVars, learner, events>>

Evidence(w) == [task |-> worker[w].task, index |-> worker[w].index,
                token |-> worker[w].token]

Deleted(w) == history' = [history EXCEPT !.cleaned = @ \cup {Evidence(w)}]

(* benchmark_artifact_write_error: the output is deleted where it was       *)
(* moved to, whoever's it is by now, and the capture comes after that.      *)
ArtifactsFail(w) ==
  /\ At(w, "published")
  /\ Deleted(w)
  /\ \E terminal \in BOOLEAN :
       worker' = [worker EXCEPT ![w].phase = "failed", ![w].terminal = terminal]
  /\ UNCHANGED <<queueVars, claims, issued, benchmark, evidenceVars, tipVars, learner, events>>

------------------------------------------------------------------------------
(* record_heads_up_tip_usage: one transaction.  A task counts once for a    *)
(* tip, whatever becomes of it later.                                       *)
Known(w) == worker[w].tips \subseteq {tip.id : tip \in tips}

NewlyUsed(t, ids) == {i \in ids : ~\E u \in usage : u.task = t /\ u.tip = i}

Credited(tip, delta) ==
  [tip EXCEPT !.uses = @ + 1, !.wins = @ + delta,
              !.score = <<tip.wins + delta + 1, tip.uses + 3>>]

(* Mutant: every outcome is added to the score, the ignored ones too.       *)
CreditEvery(t, ids, outcome) ==
  LET new == NewlyUsed(t, ids)
      delta == IF outcome = "done" THEN 1 ELSE 0
  IN /\ usage' = usage \cup {[task |-> t, tip |-> i, outcome |-> outcome] : i \in new}
     /\ tips' = {IF tip.id \in ids THEN Credited(tip, delta) ELSE tip : tip \in tips}
     /\ UNCHANGED inserted

RecordUsage(t, ids, outcome) ==
  LET new == NewlyUsed(t, ids)
      delta == IF outcome = "done" THEN 1 ELSE 0
  IN /\ usage' = usage \cup {[task |-> t, tip |-> i, outcome |-> outcome] : i \in new}
     /\ tips' = {IF tip.id \in new THEN Credited(tip, delta) ELSE tip : tip \in tips}
     /\ UNCHANGED inserted

(* A tip that was cleared meanwhile breaks the foreign key.  After a        *)
(* success that is one more failure of an attempt that has ended ...        *)
CreditDone(w) ==
  /\ At(w, "promoted")
  /\ ~locked
  /\ \/ /\ Known(w)
        /\ RecordUsage(worker[w].task, worker[w].tips, "done")
        /\ worker' = [worker EXCEPT ![w] = NoAttempt("top")]
     \/ /\ ~Known(w)
        /\ \E terminal \in BOOLEAN :
             worker' = [worker EXCEPT ![w].phase = "failed", ![w].terminal = terminal]
        /\ UNCHANGED tipVars
  /\ UNCHANGED <<queueVars, claims, issued, benchmark, evidenceVars, learner, history, events>>

(* ... after an error it leaves the handler, and the worker.  The write lock *)
(* that the refused insert leaves with the dead worker's connection is left *)
(* out: with it the others could only do less.                              *)
CreditError(w) ==
  /\ At(w, "erred")
  /\ ~locked
  /\ \/ /\ Known(w)
        /\ RecordUsage(worker[w].task, worker[w].tips, "error")
        /\ worker' = [worker EXCEPT ![w] = NoAttempt("top")]
     \/ /\ ~Known(w)
        /\ worker' = [worker EXCEPT ![w] = NoAttempt("dead")]
        /\ UNCHANGED tipVars
  /\ UNCHANGED <<queueVars, claims, issued, benchmark, evidenceVars, learner, history, events>>

------------------------------------------------------------------------------
(* capture_failure_forensics, whose parts may each fail without a word.     *)

(* Mutant: the bundle is named by the executions begun, not by the claims.  *)
PartByExecution(w) == IF row[worker[w].task].execs < MaxClaims
                      THEN row[worker[w].task].execs ELSE MaxClaims

AttemptPart(w) == worker[w].index

(* Mutant: the staged output is deleted before the capture.                 *)
DeleteThenCopy(w) ==
  /\ At(w, "failed")
  /\ IF worker[w].staged THEN Deleted(w) ELSE UNCHANGED history
  /\ worker' = [worker EXCEPT ![w].phase = "copied", ![w].staged = FALSE]
  /\ UNCHANGED <<queueVars, claims, issued, benchmark, evidenceVars, tipVars, learner, events>>

CopyOutput(w) ==
  /\ At(w, "failed")
  /\ bundle' = IF worker[w].staged
               THEN [bundle EXCEPT ![worker[w].task][AttemptPart(w)].raw = worker[w].token]
               ELSE bundle
  /\ worker' = [worker EXCEPT ![w].phase = "copied", ![w].raw = worker[w].staged]
  /\ UNCHANGED <<queueVars, claims, issued, benchmark, forensics, tipVars, learner, history, events>>

WriteMetadata(w) ==
  /\ At(w, "copied")
  /\ bundle' = [bundle EXCEPT ![worker[w].task][AttemptPart(w)].meta = worker[w].token]
  /\ Goto(w, "described")
  /\ UNCHANGED <<queueVars, claims, issued, benchmark, forensics, tipVars, learner, history, events>>

ForensicsRow(w) == [id |-> worker[w].token, task |-> worker[w].task,
                    index |-> AttemptPart(w), raw |-> worker[w].raw]

(* Mutant: the row is inserted before metadata.json is written.             *)
IndexFirst(w) ==
  /\ At(w, "copied")
  /\ ~locked
  /\ forensics' = forensics \cup {ForensicsRow(w)}
  /\ Goto(w, "captured")
  /\ UNCHANGED <<queueVars, claims, issued, benchmark, bundle, tipVars, learner, history, events>>

InsertFailureForensics(w) ==
  /\ At(w, "described")
  /\ ~locked
  /\ forensics' = forensics \cup {ForensicsRow(w)}
  /\ Goto(w, "captured")
  /\ UNCHANGED <<queueVars, claims, issued, benchmark, bundle, tipVars, learner, history, events>>

(* The bundles that are left when the capture stops where it is: the file   *)
(* it was writing may be torn.                                              *)
Cut(w) ==
  {bundle} \cup
  (IF At(w, "failed") /\ worker[w].staged
   THEN {[bundle EXCEPT ![worker[w].task][AttemptPart(w)].raw = Torn]} ELSE {}) \cup
  (IF At(w, "copied")
   THEN {[bundle EXCEPT ![worker[w].task][AttemptPart(w)].meta = Torn]} ELSE {})

(* A copy, the metadata or the insert raises: a warning is logged.          *)
CaptureFails(w) ==
  /\ \E p \in {"failed", "copied", "described"} : At(w, p)
  /\ Event
  /\ bundle' \in Cut(w)
  /\ history' = [history EXCEPT !.warned = @ \cup {worker[w].token}]
  /\ Goto(w, "uncaptured")
  /\ UNCHANGED <<queueVars, claims, issued, benchmark, forensics, tipVars, learner>>

DeleteStaged(w) ==
  /\ At(w, "captured") \/ At(w, "uncaptured")
  /\ IF worker[w].staged THEN Deleted(w) ELSE UNCHANGED history
  /\ worker' = [worker EXCEPT ![w].phase = "cleaned", ![w].staged = FALSE]
  /\ UNCHANGED <<queueVars, claims, issued, benchmark, evidenceVars, tipVars, learner, events>>

(* The task is marked or requeued; tips are credited for an error this      *)
(* worker recorded, with a prompt that carried them.                        *)
EndAttempt(w) ==
  /\ At(w, "cleaned")
  /\ LET t == worker[w].task
         tok == worker[w].token
     IN IF worker[w].terminal
        THEN /\ MarkTaskError(t, tok)
             /\ Ended(w, "error")
             /\ IF Owns(t, tok) /\ worker[w].tips # {}
                THEN Goto(w, "erred")
                ELSE worker' = [worker EXCEPT ![w] = NoAttempt("top")]
        ELSE /\ RequeueTask(t, tok)
             /\ worker' = [worker EXCEPT ![w] = NoAttempt("top")]
             /\ UNCHANGED history
  /\ UNCHANGED <<claims, issued, benchmark, evidenceVars, tipVars, learner, events>>

Crash(w) ==
  /\ Event
  /\ worker[w].phase \notin {"top", "dead"}
  /\ bundle' \in Cut(w)
  /\ worker' = [worker EXCEPT ![w] = NoAttempt("dead")]
  /\ UNCHANGED <<queueVars, claims, issued, benchmark, forensics, tipVars, learner, history>>

Start(w) ==
  /\ At(w, "dead")
  /\ worker' = [worker EXCEPT ![w] = NoAttempt("top")]
  /\ UNCHANGED <<queueVars, claims, issued, benchmark, evidenceVars, tipVars, learner, history, events>>

------------------------------------------------------------------------------
(* learn_heads_up_from_run: the run must have ended when it is looked at;   *)
(* the distillation takes a while, and the run may be retried meanwhile.    *)
StartLearning(l) ==
  /\ learner[l].phase = "idle"
  /\ Drained
  /\ Event
  /\ learner' = [learner EXCEPT ![l].phase = "reading"]
  /\ UNCHANGED <<queueVars, attemptVars, evidenceVars, tipVars, history>>

(* _normalize_distilled_tips: the signature of no observed input becomes    *)
(* the wildcard.  Of the proposals those stay that are the first of their   *)
(* text and signature, up to SignatureCap for a signature and TipCap in all. *)
NormalizeDistilledTips(raw) ==
  LET Normal(i) == IF raw[i].signature = Unknown
                   THEN [raw[i] EXCEPT !.signature = Wildcard] ELSE raw[i]
      First == {i \in DOMAIN raw : \A j \in DOMAIN raw : Normal(j) = Normal(i) => j >= i}
      Room == {i \in First :
                 Cardinality({j \in First : /\ j < i
                                            /\ Normal(j).signature = Normal(i).signature})
                   < SignatureCap}
      Kept == {i \in Room : Cardinality({j \in Room : j < i}) < TipCap}
  IN [i \in Kept |-> Normal(i)]

FoundAs(k) ==
  LET same == {tip.id : tip \in {x \in tips : x.key = k}}
  IN IF same = {} THEN 0 ELSE CHOOSE i \in same : TRUE

(* The call ends, and upsert_heads_up_tips looks for its first tip; or the  *)
(* call fails, or its output is rejected.                                   *)
Distil(l) ==
  /\ learner[l].phase = "reading"
  /\ \/ \E raw \in BoundedSeq(Proposal, MaxRaw) \ {<<>>} :
          learner' = [learner EXCEPT ![l] =
                        [phase |-> "upserting", todo |-> NormalizeDistilledTips(raw),
                         found |-> FoundAs(NormalizeDistilledTips(raw)[1])]]
     \/ learner' = [learner EXCEPT ![l] = Idle]
  /\ UNCHANGED <<queueVars, attemptVars, evidenceVars, tipVars, history, events>>

(* The first write takes the write lock, so the rest of the list is one     *)
(* step with it.  What was found for the first tip may be out of date: the  *)
(* row it found may be gone, and one it did not find may be there, which    *)
(* the unique index refuses, and nothing is written.                        *)
Missing(l) ==
  {i \in DOMAIN learner[l].todo : IF i = 1 THEN learner[l].found = 0
                                  ELSE FoundAs(learner[l].todo[i]) = 0}

(* Mutant: heads_up_tips has no unique index.                               *)
NeverRefused(l) == FALSE

Refused(l) == learner[l].found = 0 /\ FoundAs(learner[l].todo[1]) # 0

UpsertHeadsUpTips(l) ==
  /\ learner[l].phase = "upserting"
  /\ ~locked
  /\ LET new == IF Refused(l) THEN {} ELSE Missing(l)
         Id(i) == inserted + Cardinality({j \in new : j <= i})
     IN /\ inserted + Cardinality(new) <= MaxTips
        /\ tips' = tips \cup {NewTip(Id(i), learner[l].todo[i]) : i \in new}
        /\ inserted' = inserted + Cardinality(new)
  /\ learner' = [learner EXCEPT ![l] = Idle]
  /\ UNCHANGED <<queueVars, attemptVars, evidenceVars, usage, history, events>>

(* heads-up clear; usage rows go with their tips.                           *)
ClearHeadsUpTips ==
  /\ ~locked
  /\ tips # {}
  /\ Event
  /\ tips' = {}
  /\ usage' = {}
  /\ UNCHANGED <<queueVars, attemptVars, evidenceVars, inserted, learner, history>>

RetryErrors ==
  /\ \E t \in Task : row[t].status = "error"
  /\ Event
  /\ RequeueErrorTasks
  /\ claims' = [t \in Task |-> IF row[t].status = "error" THEN 0 ELSE claims[t]]
  /\ history' = [history EXCEPT !.retried = @ \cup {t \in Task : row[t].status = "error"}]
  /\ UNCHANGED <<worker, issued, benchmark, evidenceVars, tipVars, learner>>

Time ==
  /\ \E t \in Task : row[t].left > Floor
  /\ Tick
  /\ UNCHANGED <<attemptVars, evidenceVars, tipVars, learner, history, events>>

Next ==
  \/ \E w \in Worker :
       \/ LeaseNextTask(w) \/ BeginExecution(w) \/ PreflightFails(w) \/ CodexFails(w)
       \/ Promote(w) \/ Publish(w) \/ ArtifactsWritten(w) \/ ArtifactsFail(w)
       \/ CreditDone(w) \/ CreditError(w)
       \/ CopyOutput(w) \/ WriteMetadata(w) \/ InsertFailureForensics(w)
       \/ CaptureFails(w) \/ DeleteStaged(w) \/ EndAttempt(w) \/ Crash(w) \/ Start(w)
  \/ \E l \in Learner : StartLearning(l) \/ Distil(l) \/ UpsertHeadsUpTips(l)
  \/ ClearHeadsUpTips \/ RetryErrors \/ Time

Spec == Init /\ [][Next]_vars

------------------------------------------------------------------------------
(* The counters and the score of a tip are those of its usage rows,         *)
(* whatever was retried, reclaimed or cleared in between, and no usage row  *)
(* outlives its tip (record_heads_up_tip_usage, clear_heads_up_tips).       *)
ScoresTellUsage ==
  /\ \A u \in usage : \E tip \in tips : tip.id = u.tip
  /\ \A tip \in tips :
       LET of == {u \in usage : u.tip = tip.id}
       IN /\ tip.uses = Cardinality(of)
          /\ tip.wins = Cardinality({u \in of : u.outcome = "done"})
          /\ tip.score = <<tip.wins + 1, tip.uses + 2>>

(* An outcome is held against a tip only if the queue accepted it from an   *)
(* attempt whose prompt carried that tip: a worker that lost its claim      *)
(* credits nothing (worker.py, `if transitioned and applied_tip_ids').      *)
UsageTellsOutcome ==
  \A u \in usage : \E e \in history.ended :
    e.task = u.task /\ e.outcome = u.outcome /\ u.tip \in e.tips

(* The forensics index never names a bundle without metadata, nor a raw     *)
(* output that is not there, wherever the capture broke off.                *)
RowsHaveBundles ==
  \A r \in forensics :
    /\ bundle[r.task][r.index].meta # 0
    /\ r.raw => bundle[r.task][r.index].raw # 0

(* Until retry-errors resets the attempt numbers, the bundle of a row holds *)
(* that row's own capture, though an attempt that lost its claim captures   *)
(* while its successor does.                                                *)
BundlesTellRows ==
  \A r \in forensics : r.task \notin history.retried =>
    /\ bundle[r.task][r.index].meta = r.id
    /\ r.raw => bundle[r.task][r.index].raw = r.id

(* docs/04: "Forensics capture must happen before staged/canonical cleanup  *)
(* on schema/runtime failures": an output that was deleted in the handling  *)
(* of a failure is in the bundle of its attempt, again until retry-errors.  *)
(* A capture that fails with a warning and the benchmark mode break this.   *)
EvidenceBeforeCleanup ==
  \A c \in history.cleaned : c.task \notin history.retried =>
    bundle[c.task][c.index].raw = c.token

(* What the code keeps of it: outside benchmark mode, no output is deleted  *)
(* that is not whole in the bundle of its attempt, unless the log says that *)
(* its capture failed; neither a kill between two of the files nor a        *)
(* successor or a late owner of the same task takes it from there.          *)
EvidenceOrWarning ==
  ~benchmark =>
    \A c \in history.cleaned : c.task \notin history.retried =>
      bundle[c.task][c.index].raw = c.token \/ c.token \in history.warned
==============================================================================
