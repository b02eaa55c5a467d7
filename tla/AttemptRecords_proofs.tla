------------------------ MODULE AttemptRecords_proofs ------------------------
(***************************************************************************)
(* Theorems about AttemptRecords for any number of tasks, workers and      *)
(* learners, for every number of claims and tips, and every limit of the   *)
(* distillation.                                                           *)
(*                                                                         *)
(* The first invariant is type correctness with the shape of an attempt;   *)
(* the others (outcomes, scores, captures, attempt numbers) rest on it     *)
(* and not on one another.                                                 *)
(***************************************************************************)
EXTENDS AttemptRecords, TaskQueue_proofs, FiniteSetTheorems

Resting == {"top", "dead"}

EndedTask == [task : Task, outcome : {"done", "error"}, tips : SUBSET (1..MaxTips)]
CleanedOutput == [task : Task, index : 0..MaxClaims, token : 1..MaxClaims]

History == [ended : SUBSET EndedTask, cleaned : SUBSET CleanedOutput,
            retried : SUBSET Task, warned : SUBSET (1..MaxClaims)]

Shape(a) == IF a.phase \in Resting THEN a = NoAttempt(a.phase)
                                   ELSE a.task \in Task /\ a.token \in 1..issued

TypeInv ==
  /\ RecordsTypeOK
  /\ history \in History
  /\ \A w \in Worker : Shape(worker[w])
  /\ \A t \in Task : claims[t] <= issued
  /\ \A tip \in tips : tip.id <= inserted
  /\ \A l \in Learner : \A i, j \in DOMAIN learner[l].todo :
       learner[l].todo[i] = learner[l].todo[j] => i = j

(* Whose tips are about to be credited has ended its task with them.        *)
OutcomeInv ==
  /\ UsageTellsOutcome
  /\ \A w \in Worker :
       /\ At(w, "promoted") => [task |-> worker[w].task, outcome |-> "done",
                                tips |-> worker[w].tips] \in history.ended
       /\ At(w, "erred") => [task |-> worker[w].task, outcome |-> "error",
                             tips |-> worker[w].tips] \in history.ended

Of(i) == {u \in usage : u.tip = i}

ScoreInv == ScoresTellUsage /\ \A tip \in tips : IsFiniteSet(Of(tip.id))

(* The files a capture has written before its row is inserted.              *)
Captured(w) ==
  LET files == bundle[worker[w].task][worker[w].index]
  IN /\ At(w, "described") => files.meta # 0
     /\ worker[w].phase \in {"copied", "described"} /\ worker[w].raw => files.raw # 0

CaptureInv == RowsHaveBundles /\ \A w \in Worker : Captured(w)

(* Until retry-errors names the attempts of a task anew, its claims have    *)
(* different numbers, and what is found under a number is that claim's: a   *)
(* row once it is captured, a deleted output once it is cleaned up, but for *)
(* benchmark mode.                                                          *)
Numbered(w) ==
  LET a == worker[w]
      files == bundle[a.task][a.index]
  IN /\ a.index \in 1..claims[a.task]
     /\ a.phase \in {"described", "captured"} => files.meta = a.token
     /\ a.phase \in {"copied", "described", "captured"} /\ a.raw => files.raw = a.token
     /\ \A r \in forensics : r.task = a.task /\ r.index = a.index
          => r.id = a.token /\ a.phase \in {"captured", "cleaned", "erred"}
     /\ \A c \in history.cleaned : c.task = a.task /\ c.index = a.index
          => benchmark \/ (c.token = a.token /\ a.phase \in {"cleaned", "erred"})

Current(w) == worker[w].phase \notin Resting /\ worker[w].task \notin history.retried

AttemptInv ==
  /\ \A w \in Worker : Current(w) => Numbered(w)
  /\ \A v, w \in Worker : /\ Current(v) /\ Current(w)
                          /\ worker[v].task = worker[w].task
                          /\ worker[v].index = worker[w].index
                          => v = w
  /\ \A t \in Task \ history.retried :
       /\ \A r \in forensics : r.task = t => r.index <= claims[t]
       /\ \A c \in history.cleaned : c.task = t => c.index <= claims[t]
  /\ \A w \in Worker : worker[w].phase \in {"copied", "described", "captured"}
                       => (worker[w].raw <=> worker[w].staged)
  /\ \A w \in Worker : /\ At(w, "uncaptured") => worker[w].token \in history.warned
                       /\ At(w, "published") => benchmark
  /\ BundlesTellRows
  /\ EvidenceOrWarning

------------------------------------------------------------------------------
(* What a step does to the attempt of the worker that takes it. *)

LEMMA TokenRange == Token = 1..MaxClaims /\ NoToken = 0
BY RecordsAssumption

LEMMA NoAttemptType ==
  ASSUME NEW p \in Phase
  PROVE  /\ NoAttempt(p) \in Attempt
         /\ NoAttempt(p).phase = p /\ NoAttempt(p).task = NoTask
BY RecordsAssumption DEF NoAttempt, Attempt

LEMMA SetAttempt ==
  ASSUME TypeInv, NEW w \in Worker, NEW a \in Attempt, worker' = [worker EXCEPT ![w] = a]
  PROVE  /\ worker' \in [Worker -> Attempt]
         /\ worker'[w] = a
         /\ \A v \in Worker \ {w} : worker'[v] = worker[v]
BY DEF TypeInv, RecordsTypeOK

(* The attempt keeps its claim and all else but the named fields.           *)
SameClaim(v) ==
  /\ worker'[v].task = worker[v].task
  /\ worker'[v].token = worker[v].token
  /\ worker'[v].index = worker[v].index

LEMMA GotoFields ==
  ASSUME TypeInv, NEW w \in Worker, NEW p \in Phase, Goto(w, p)
  PROVE  /\ worker' \in [Worker -> Attempt]
         /\ worker'[w].phase = p
         /\ SameClaim(w)
         /\ worker'[w].tips = worker[w].tips
         /\ worker'[w].staged = worker[w].staged
         /\ worker'[w].raw = worker[w].raw
         /\ worker'[w].terminal = worker[w].terminal
         /\ \A v \in Worker \ {w} : worker'[v] = worker[v]
<1> DEFINE a == [worker[w] EXCEPT !.phase = p]
<1>1. worker[w] \in Attempt
  BY DEF TypeInv, RecordsTypeOK
<1>2. /\ a \in Attempt /\ a.phase = p
      /\ a.task = worker[w].task /\ a.token = worker[w].token /\ a.index = worker[w].index
      /\ a.tips = worker[w].tips /\ a.staged = worker[w].staged
      /\ a.raw = worker[w].raw /\ a.terminal = worker[w].terminal
  BY <1>1 DEF Attempt
<1>3. worker' = [worker EXCEPT ![w] = a]
  BY DEF Goto
<1> HIDE DEF a
<1> QED
  BY <1>2, <1>3, SetAttempt DEF SameClaim

LEMMA RestFields ==
  ASSUME TypeInv, NEW w \in Worker, NEW p \in Resting,
         worker' = [worker EXCEPT ![w] = NoAttempt(p)]
  PROVE  /\ worker' \in [Worker -> Attempt]
         /\ worker'[w] = NoAttempt(p)
         /\ \A v \in Worker \ {w} : worker'[v] = worker[v]
<1>1. p \in Phase
  BY DEF Resting, Phase
<1> QED
  BY <1>1, NoAttemptType, SetAttempt

LEMMA LeaseFields ==
  ASSUME TypeInv, NEW w \in Worker, LeaseNextTask(w)
  PROVE  \E t \in Task, lag \in Lag :
           /\ Claim(t, issued + 1, lag)
           /\ claims' = [claims EXCEPT ![t] = @ + 1]
           /\ issued' = issued + 1 /\ issued' \in 1..MaxClaims
           /\ claims[t] + 1 \in 1..MaxClaims
           /\ worker' \in [Worker -> Attempt]
           /\ worker'[w].phase = "claimed" /\ worker'[w].task = t
           /\ worker'[w].token = issued + 1 /\ worker'[w].index = claims[t] + 1
           /\ \A v \in Worker \ {w} : worker'[v] = worker[v]
<1>1. PICK t \in Task, lag \in Lag :
        /\ Claim(t, issued + 1, lag)
        /\ claims' = [claims EXCEPT ![t] = @ + 1]
        /\ worker' = [worker EXCEPT ![w] =
                        [NoAttempt("claimed") EXCEPT !.task = t, !.token = issued + 1,
                                                     !.index = claims[t] + 1]]
  BY DEF LeaseNextTask
<1>2. /\ issued \in Nat /\ MaxClaims \in Nat /\ issued + 1 <= MaxClaims
      /\ claims[t] \in Nat /\ claims[t] <= issued
      /\ issued' = issued + 1
  <2>1. MaxClaims \in Nat /\ issued \in 0..MaxClaims
    BY RecordsAssumption DEF TypeInv, RecordsTypeOK
  <2>2. claims[t] \in Nat /\ claims[t] <= issued
    BY <2>1 DEF TypeInv, RecordsTypeOK
  <2>3. issued < MaxClaims /\ issued' = issued + 1
    BY DEF LeaseNextTask
  <2> QED
    BY <2>1, <2>2, <2>3
<1>3. PICK n \in Attempt : n = NoAttempt("claimed") /\ n.phase = "claimed"
  BY NoAttemptType DEF Phase
<1> DEFINE a == [n EXCEPT !.task = t, !.token = issued + 1, !.index = claims[t] + 1]
<1>4. /\ a \in Attempt /\ a.phase = "claimed" /\ a.task = t
      /\ a.token = issued + 1 /\ a.index = claims[t] + 1
  <2>1. /\ issued + 1 \in 0..MaxClaims /\ claims[t] + 1 \in 0..MaxClaims
        /\ t \in Task \cup {NoTask}
    BY <1>2
  <2> QED
    BY <1>3, <2>1 DEF Attempt
<1>5. worker' = [worker EXCEPT ![w] = a]
  BY <1>1, <1>3
<1> HIDE DEF a
<1>6. /\ worker' \in [Worker -> Attempt]
      /\ worker'[w].phase = "claimed" /\ worker'[w].task = t
      /\ worker'[w].token = issued + 1 /\ worker'[w].index = claims[t] + 1
      /\ \A v \in Worker \ {w} : worker'[v] = worker[v]
  BY <1>4, <1>5, SetAttempt
<1>7. issued' \in 1..MaxClaims /\ claims[t] + 1 \in 1..MaxClaims
  BY <1>2
<1> WITNESS t \in Task, lag \in Lag
<1> QED
  BY <1>1, <1>2, <1>6, <1>7

LEMMA BeginFields ==
  ASSUME TypeInv, NEW w \in Worker, NEW chosen \in SUBSET (1..MaxTips),
         worker' = [worker EXCEPT ![w].phase = "begun", ![w].tips = chosen]
  PROVE  /\ worker' \in [Worker -> Attempt]
         /\ worker'[w].phase = "begun" /\ SameClaim(w)
         /\ \A v \in Worker \ {w} : worker'[v] = worker[v]
<1> DEFINE a == [worker[w] EXCEPT !.phase = "begun", !.tips = chosen]
<1>1. worker[w] \in Attempt /\ worker \in [Worker -> Attempt]
  BY DEF TypeInv, RecordsTypeOK
<1>2. /\ a \in Attempt /\ a.phase = "begun"
      /\ a.task = worker[w].task /\ a.token = worker[w].token /\ a.index = worker[w].index
  BY <1>1 DEF Attempt, Phase
<1>3. worker' = [worker EXCEPT ![w] = a]
  BY <1>1
<1> HIDE DEF a
<1> QED
  BY <1>2, <1>3, SetAttempt DEF SameClaim

LEMMA FailFields ==
  ASSUME TypeInv, NEW w \in Worker, NEW terminal \in BOOLEAN,
         \/ worker' = [worker EXCEPT ![w].phase = "failed", ![w].terminal = terminal]
         \/ \E wrote \in BOOLEAN :
              worker' = [worker EXCEPT ![w].phase = "failed", ![w].staged = wrote,
                                       ![w].terminal = terminal]
  PROVE  /\ worker' \in [Worker -> Attempt]
         /\ worker'[w].phase = "failed" /\ SameClaim(w)
         /\ \A v \in Worker \ {w} : worker'[v] = worker[v]
<1>1. worker[w] \in Attempt /\ worker \in [Worker -> Attempt]
  BY DEF TypeInv, RecordsTypeOK
<1>2. CASE worker' = [worker EXCEPT ![w].phase = "failed", ![w].terminal = terminal]
  <2> DEFINE a == [worker[w] EXCEPT !.phase = "failed", !.terminal = terminal]
  <2>1. /\ a \in Attempt /\ a.phase = "failed"
        /\ a.task = worker[w].task /\ a.token = worker[w].token /\ a.index = worker[w].index
    BY <1>1 DEF Attempt, Phase
  <2>2. worker' = [worker EXCEPT ![w] = a]
    BY <1>1, <1>2
  <2> HIDE DEF a
  <2> QED
    BY <2>1, <2>2, SetAttempt DEF SameClaim
<1>3. ASSUME NEW wrote \in BOOLEAN,
             worker' = [worker EXCEPT ![w].phase = "failed", ![w].staged = wrote,
                                      ![w].terminal = terminal]
      PROVE  /\ worker' \in [Worker -> Attempt]
             /\ worker'[w].phase = "failed" /\ SameClaim(w)
             /\ \A v \in Worker \ {w} : worker'[v] = worker[v]
  <2> DEFINE a == [worker[w] EXCEPT !.phase = "failed", !.staged = wrote, !.terminal = terminal]
  <2>1. /\ a \in Attempt /\ a.phase = "failed"
        /\ a.task = worker[w].task /\ a.token = worker[w].token /\ a.index = worker[w].index
    BY <1>1 DEF Attempt, Phase
  <2>2. worker' = [worker EXCEPT ![w] = a]
    BY <1>1, <1>3
  <2> HIDE DEF a
  <2> QED
    BY <2>1, <2>2, SetAttempt DEF SameClaim
<1> QED
  BY <1>2, <1>3

LEMMA CopyFields ==
  ASSUME TypeInv, NEW w \in Worker, CopyOutput(w)
  PROVE  /\ worker' \in [Worker -> Attempt]
         /\ worker'[w].phase = "copied" /\ SameClaim(w)
         /\ worker'[w].raw = worker[w].staged /\ worker'[w].staged = worker[w].staged
         /\ \A v \in Worker \ {w} : worker'[v] = worker[v]
<1> DEFINE a == [worker[w] EXCEPT !.phase = "copied", !.raw = worker[w].staged]
<1>1. worker[w] \in Attempt /\ worker \in [Worker -> Attempt]
  BY DEF TypeInv, RecordsTypeOK
<1>2. PICK o \in BOOLEAN : o = worker[w].staged
  BY <1>1 DEF Attempt
<1>3. /\ a \in Attempt /\ a.phase = "copied"
      /\ a.task = worker[w].task /\ a.token = worker[w].token /\ a.index = worker[w].index
  BY <1>1, <1>2 DEF Attempt, Phase
<1>4. a.raw = o /\ a.staged = o
  BY <1>1, <1>2 DEF Attempt
<1>5. worker' = [worker EXCEPT ![w] = a]
  BY <1>1 DEF CopyOutput
<1> HIDE DEF a
<1> QED
  BY <1>2, <1>3, <1>4, <1>5, SetAttempt DEF SameClaim

LEMMA DeleteFields ==
  ASSUME TypeInv, NEW w \in Worker, DeleteStaged(w)
  PROVE  /\ worker' \in [Worker -> Attempt]
         /\ worker'[w].phase = "cleaned" /\ SameClaim(w)
         /\ worker'[w].tips = worker[w].tips
         /\ \A v \in Worker \ {w} : worker'[v] = worker[v]
<1> DEFINE a == [worker[w] EXCEPT !.phase = "cleaned", !.staged = FALSE]
<1>1. worker[w] \in Attempt /\ worker \in [Worker -> Attempt]
  BY DEF TypeInv, RecordsTypeOK
<1>2. /\ a \in Attempt /\ a.phase = "cleaned" /\ a.tips = worker[w].tips
      /\ a.task = worker[w].task /\ a.token = worker[w].token /\ a.index = worker[w].index
  BY <1>1 DEF Attempt, Phase
<1>3. worker' = [worker EXCEPT ![w] = a]
  BY <1>1 DEF DeleteStaged
<1> HIDE DEF a
<1> QED
  BY <1>2, <1>3, SetAttempt DEF SameClaim

------------------------------------------------------------------------------
(* One step of one attempt. *)

Leased(v) ==
  /\ LeaseNextTask(v)
  /\ worker'[v].phase = "claimed"

Rested(v) == \E p \in Resting : worker'[v] = NoAttempt(p)

(* The attempt goes on: what its new phase says of the step.                *)
Advanced(v) ==
  /\ worker[v].phase \notin Resting
  /\ worker'[v].phase \notin Resting
  /\ SameClaim(v)
  /\ worker'[v].phase # "claimed"
  /\ worker'[v].phase = "copied" => CopyOutput(v) /\ worker'[v].raw = worker[v].staged
                                    /\ worker'[v].staged = worker[v].staged
  /\ worker'[v].phase \in {"described", "captured"}
       => /\ worker'[v].raw = worker[v].raw
          /\ worker'[v].staged = worker[v].staged
  /\ worker'[v].phase = "described" => WriteMetadata(v)
  /\ worker'[v].phase = "captured" => InsertFailureForensics(v)
  /\ worker'[v].phase = "uncaptured" => CaptureFails(v)
  /\ worker'[v].phase = "published" => Publish(v)
  /\ worker[v].phase = "captured" => worker'[v].phase = "cleaned"
  /\ worker[v].phase \in {"cleaned", "erred"} => worker'[v].phase = "erred"
  /\ worker'[v].phase = "promoted" => /\ Promote(v) \/ ArtifactsWritten(v)
                                      /\ Owns(worker[v].task, worker[v].token)
                                      /\ worker'[v].tips = worker[v].tips
  /\ worker'[v].phase = "erred" => /\ EndAttempt(v) /\ worker[v].terminal
                                   /\ Owns(worker[v].task, worker[v].token)
                                   /\ worker'[v].tips = worker[v].tips

Act(w) ==
  \/ LeaseNextTask(w) \/ BeginExecution(w) \/ PreflightFails(w) \/ CodexFails(w)
  \/ Promote(w) \/ Publish(w) \/ ArtifactsWritten(w) \/ ArtifactsFail(w)
  \/ CreditDone(w) \/ CreditError(w)
  \/ CopyOutput(w) \/ WriteMetadata(w) \/ InsertFailureForensics(w)
  \/ CaptureFails(w) \/ DeleteStaged(w) \/ EndAttempt(w) \/ Crash(w) \/ Start(w)

LEMMA ChosenTips ==
  ASSUME TypeInv, NEW s, NEW chosen \in SelectHeadsUpTips(s)
  PROVE  chosen \in SUBSET (1..MaxTips)
<1>1. \A tip \in tips : tip.id \in 1..MaxTips
  BY DEF TypeInv, RecordsTypeOK, Tip
<1>2. PICK c \in SUBSET tips : chosen = {tip.id : tip \in c}
  <2>1. SUBSET {tip \in tips : /\ tip.key.signature \in {s, Wildcard}
                               /\ ~Retired(tip)} \subseteq SUBSET tips
    OBVIOUS
  <2> QED
    BY <2>1 DEF SelectHeadsUpTips
<1> QED
  BY <1>1, <1>2

LEMMA ActStep ==
  ASSUME TypeInv, NEW w \in Worker, Act(w)
  PROVE  /\ worker' \in [Worker -> Attempt]
         /\ Leased(w) \/ Rested(w) \/ Advanced(w)
         /\ \A v \in Worker \ {w} : worker'[v] = worker[v]
<1> DEFINE Goal == /\ worker' \in [Worker -> Attempt]
                   /\ Leased(w) \/ Rested(w) \/ Advanced(w)
                   /\ \A v \in Worker \ {w} : worker'[v] = worker[v]
<1> SUFFICES Goal
  OBVIOUS
<1>r. ASSUME NEW p \in Resting, worker' = [worker EXCEPT ![w] = NoAttempt(p)]
      PROVE  Goal
  BY <1>r, RestFields DEF Rested
<1> HIDE DEF Goal
<1>1. CASE LeaseNextTask(w)
  BY <1>1, LeaseFields DEF Goal, Leased
<1>2. CASE BeginExecution(w)
  <2>1. CASE worker' = [worker EXCEPT ![w] = NoAttempt("top")]
    BY <1>r, <2>1 DEF Resting
  <2>2. ASSUME NEW chosen \in SelectHeadsUpTips(SignatureOf[worker[w].task]),
               worker' = [worker EXCEPT ![w].phase = "begun", ![w].tips = chosen]
        PROVE  Goal
    <3>1. chosen \in SUBSET (1..MaxTips)
      BY ChosenTips
    <3>2. /\ worker' \in [Worker -> Attempt] /\ worker'[w].phase = "begun" /\ SameClaim(w)
          /\ \A v \in Worker \ {w} : worker'[v] = worker[v]
      BY <2>2, <3>1, BeginFields
    <3>3. worker[w].phase = "claimed"
      BY <1>2 DEF BeginExecution, At
    <3>4. Advanced(w)
      BY <3>2, <3>3 DEF Advanced, Resting
    <3> QED
      BY <3>2, <3>4 DEF Goal
  <2> QED
    BY <1>2, <2>1, <2>2 DEF BeginExecution
<1>3. ASSUME worker[w].phase \in {"claimed", "begun", "published", "promoted"},
             worker'[w].phase = "failed", SameClaim(w),
             worker' \in [Worker -> Attempt], \A v \in Worker \ {w} : worker'[v] = worker[v]
      PROVE  Goal
  <2>1. Advanced(w)
    BY <1>3 DEF Advanced, Resting
  <2> QED
    BY <1>3, <2>1 DEF Goal
<1>4. CASE PreflightFails(w) \/ CodexFails(w) \/ ArtifactsFail(w)
  <2>1. worker[w].phase \in {"claimed", "begun", "published"}
    BY <1>4 DEF PreflightFails, CodexFails, ArtifactsFail, At
  <2>2. PICK terminal \in BOOLEAN :
          \/ worker' = [worker EXCEPT ![w].phase = "failed", ![w].terminal = terminal]
          \/ \E wrote \in BOOLEAN :
               worker' = [worker EXCEPT ![w].phase = "failed", ![w].staged = wrote,
                                        ![w].terminal = terminal]
    BY <1>4 DEF PreflightFails, CodexFails, ArtifactsFail
  <2> QED
    BY <1>3, <2>1, <2>2, FailFields
<1>5. CASE CreditDone(w)
  <2>1. CASE worker' = [worker EXCEPT ![w] = NoAttempt("top")]
    BY <1>r, <2>1 DEF Resting
  <2>2. ASSUME NEW terminal \in BOOLEAN,
               worker' = [worker EXCEPT ![w].phase = "failed", ![w].terminal = terminal]
        PROVE  Goal
    <3>1. worker[w].phase = "promoted"
      BY <1>5 DEF CreditDone, At
    <3> QED
      BY <1>3, <2>2, <3>1, FailFields
  <2> QED
    BY <1>5, <2>1, <2>2 DEF CreditDone
<1>6. CASE CreditError(w) \/ Crash(w) \/ Start(w)
  <2>1. PICK p \in Resting : worker' = [worker EXCEPT ![w] = NoAttempt(p)]
    BY <1>6 DEF CreditError, Crash, Start, Resting
  <2> QED
    BY <1>r, <2>1
<1>7. CASE Promote(w) \/ ArtifactsWritten(w)
  <2>1. CASE worker' = [worker EXCEPT ![w] = NoAttempt("top")]
    BY <1>r, <2>1 DEF Resting
  <2>2. CASE Owns(worker[w].task, worker[w].token) /\ Goto(w, "promoted")
    <3>1. /\ worker' \in [Worker -> Attempt] /\ worker'[w].phase = "promoted" /\ SameClaim(w)
          /\ worker'[w].tips = worker[w].tips
          /\ \A v \in Worker \ {w} : worker'[v] = worker[v]
      BY <2>2, GotoFields DEF Phase
    <3>2. worker[w].phase \in {"begun", "published"}
      BY <1>7 DEF Promote, ArtifactsWritten, At
    <3>3. Advanced(w)
      BY <1>7, <2>2, <3>1, <3>2 DEF Advanced, Resting
    <3> QED
      BY <3>1, <3>3 DEF Goal
  <2> QED
    BY <1>7, <2>1, <2>2 DEF Promote, ArtifactsWritten, Finish
<1>8. CASE EndAttempt(w)
  <2>1. CASE worker' = [worker EXCEPT ![w] = NoAttempt("top")]
    BY <1>r, <2>1 DEF Resting
  <2>2. CASE Owns(worker[w].task, worker[w].token) /\ worker[w].terminal /\ Goto(w, "erred")
    <3>1. /\ worker' \in [Worker -> Attempt] /\ worker'[w].phase = "erred" /\ SameClaim(w)
          /\ worker'[w].tips = worker[w].tips
          /\ \A v \in Worker \ {w} : worker'[v] = worker[v]
      BY <2>2, GotoFields DEF Phase
    <3>2. worker[w].phase = "cleaned"
      BY <1>8 DEF EndAttempt, At
    <3>3. Advanced(w)
      BY <1>8, <2>2, <3>1, <3>2 DEF Advanced, Resting
    <3> QED
      BY <3>1, <3>3 DEF Goal
  <2> QED
    BY <1>8, <2>1, <2>2 DEF EndAttempt
<1>9. CASE CopyOutput(w)
  <2>1. /\ worker' \in [Worker -> Attempt] /\ worker'[w].phase = "copied" /\ SameClaim(w)
        /\ worker'[w].raw = worker[w].staged /\ worker'[w].staged = worker[w].staged
        /\ \A v \in Worker \ {w} : worker'[v] = worker[v]
    BY <1>9, CopyFields
  <2>2. Advanced(w)
    BY <1>9, <2>1 DEF Advanced, Resting, CopyOutput, At
  <2> QED
    BY <2>1, <2>2 DEF Goal
<1>10. CASE WriteMetadata(w) \/ InsertFailureForensics(w) \/ CaptureFails(w)
  <2>1. PICK p \in {"described", "captured", "uncaptured"} :
          /\ Goto(w, p)
          /\ p = "described" => WriteMetadata(w)
          /\ p = "captured" => InsertFailureForensics(w)
          /\ p = "uncaptured" => CaptureFails(w)
    BY <1>10 DEF WriteMetadata, InsertFailureForensics, CaptureFails
  <2>2. /\ worker' \in [Worker -> Attempt] /\ worker'[w].phase = p /\ SameClaim(w)
        /\ worker'[w].raw = worker[w].raw /\ worker'[w].staged = worker[w].staged
        /\ \A v \in Worker \ {w} : worker'[v] = worker[v]
    BY <2>1, GotoFields DEF Phase
  <2>3. worker[w].phase \in {"failed", "copied", "described"}
    BY <1>10 DEF WriteMetadata, InsertFailureForensics, CaptureFails, At
  <2>4. Advanced(w)
    BY <2>1, <2>2, <2>3 DEF Advanced, Resting
  <2> QED
    BY <2>2, <2>4 DEF Goal
<1>11. CASE DeleteStaged(w)
  <2>1. /\ worker' \in [Worker -> Attempt] /\ worker'[w].phase = "cleaned" /\ SameClaim(w)
        /\ \A v \in Worker \ {w} : worker'[v] = worker[v]
    BY <1>11, DeleteFields
  <2>2. Advanced(w)
    BY <1>11, <2>1 DEF Advanced, Resting, DeleteStaged, At
  <2> QED
    BY <2>1, <2>2 DEF Goal
<1>12. CASE Publish(w)
  <2>1. CASE worker' = [worker EXCEPT ![w] = NoAttempt("top")]
    BY <1>r, <2>1 DEF Resting
  <2>2. CASE Goto(w, "published")
    <3>1. /\ worker' \in [Worker -> Attempt] /\ worker'[w].phase = "published" /\ SameClaim(w)
          /\ \A v \in Worker \ {w} : worker'[v] = worker[v]
      BY <2>2, GotoFields DEF Phase
    <3>2. worker[w].phase = "begun"
      BY <1>12 DEF Publish, At
    <3>3. Advanced(w)
      BY <1>12, <3>1, <3>2 DEF Advanced, Resting
    <3> QED
      BY <3>1, <3>3 DEF Goal
  <2> QED
    BY <1>12, <2>1, <2>2 DEF Publish
<1> QED
  BY <1>1, <1>2, <1>4, <1>5, <1>6, <1>7, <1>8, <1>9, <1>10, <1>11, <1>12 DEF Act

(* Any step, seen from one worker.                                          *)
LEMMA WorkerStep ==
  ASSUME TypeInv, [Next]_vars
  PROVE  /\ worker' \in [Worker -> Attempt]
         /\ \A v \in Worker : \/ worker'[v] = worker[v]
                              \/ Leased(v) \/ Rested(v) \/ Advanced(v)
<1>1. CASE \E w \in Worker : Act(w)
  BY <1>1, ActStep
<1>2. CASE worker' = worker
  BY <1>2 DEF TypeInv, RecordsTypeOK
<1>3. ASSUME NEW l \in Learner, StartLearning(l) \/ Distil(l) \/ UpsertHeadsUpTips(l)
      PROVE  worker' = worker
  BY <1>3 DEF StartLearning, Distil, UpsertHeadsUpTips, attemptVars
<1>4. ASSUME ClearHeadsUpTips \/ RetryErrors \/ Time \/ UNCHANGED vars
      PROVE  worker' = worker
  BY <1>4 DEF ClearHeadsUpTips, RetryErrors, Time, attemptVars, vars
<1> QED
  BY <1>1, <1>2, <1>3, <1>4 DEF Next, Act

------------------------------------------------------------------------------
(* Types: the part of the state that each action changes. *)

LEMMA BusyClaim ==
  ASSUME TypeInv, NEW w \in Worker, worker[w].phase \notin Resting
  PROVE  worker[w].task \in Task /\ worker[w].token \in Token /\ worker[w].token \in 1..issued
<1>1. worker[w].task \in Task /\ worker[w].token \in 1..issued
  BY DEF TypeInv, Shape
<1>2. issued \in 0..MaxClaims /\ MaxClaims \in Nat
  BY RecordsAssumption DEF TypeInv, RecordsTypeOK
<1> QED
  BY <1>1, <1>2, TokenRange

LEMMA QueueStep ==
  ASSUME TypeInv, [Next]_vars
  PROVE  QueueTypeOK'
<1>0. QueueTypeOK
  BY DEF TypeInv, RecordsTypeOK
<1>1. CASE UNCHANGED queueVars
  BY <1>0, <1>1 DEF queueVars, QueueTypeOK
<1>2. ASSUME NEW w \in Worker, LeaseNextTask(w)
      PROVE  QueueTypeOK'
  <2>1. PICK t \in Task, lag \in Lag : Claim(t, issued + 1, lag) /\ issued + 1 \in 1..MaxClaims
    BY <1>2, LeaseFields
  <2> QED
    BY <1>0, <2>1, TokenRange, ClaimType
<1>3. ASSUME NEW w \in Worker, BeginExecution(w)
      PROVE  QueueTypeOK'
  <2>1. worker[w].task \in Task /\ worker[w].token \in Token
    BY <1>3, BusyClaim DEF BeginExecution, At, Resting
  <2> QED
    BY <1>0, <1>1, <1>3, <2>1, BeginType DEF BeginExecution
<1>4. ASSUME NEW w \in Worker, Promote(w) \/ ArtifactsWritten(w) \/ EndAttempt(w)
      PROVE  QueueTypeOK'
  <2>1. worker[w].task \in Task /\ worker[w].token \in Token
    BY <1>4, BusyClaim DEF Promote, ArtifactsWritten, EndAttempt, At, Resting
  <2>2. PICK s \in TaskStatus : Release(worker[w].task, worker[w].token, s)
    BY <1>4 DEF Promote, ArtifactsWritten, Finish, EndAttempt, MarkTaskDone, MarkTaskError, RequeueTask, TaskStatus
  <2> QED
    BY <1>0, <2>1, <2>2, ReleaseType
<1>5. ASSUME NEW w \in Worker, Act(w), ~LeaseNextTask(w), ~BeginExecution(w), ~Promote(w),
             ~ArtifactsWritten(w), ~EndAttempt(w)
      PROVE  UNCHANGED queueVars
  BY <1>5 DEF Act, PreflightFails, CodexFails, CreditDone, CreditError, CopyOutput, WriteMetadata,
       InsertFailureForensics, CaptureFails, DeleteStaged, Crash, Start, Publish, ArtifactsFail
<1>6. ASSUME NEW l \in Learner, StartLearning(l) \/ Distil(l) \/ UpsertHeadsUpTips(l)
      PROVE  UNCHANGED queueVars
  BY <1>6 DEF StartLearning, Distil, UpsertHeadsUpTips
<1>7. CASE RetryErrors
  BY <1>0, <1>7, OperatorType DEF RetryErrors
<1>8. CASE Time
  BY <1>0, <1>8, TickType DEF Time
<1>9. ASSUME ClearHeadsUpTips \/ UNCHANGED vars
      PROVE  UNCHANGED queueVars
  BY <1>9 DEF ClearHeadsUpTips, vars
<1> QED
  BY <1>1, <1>2, <1>3, <1>4, <1>5, <1>6, <1>7, <1>8, <1>9 DEF Next, Act

(* The run stays in the mode it was created with.                           *)
LEMMA ModeStep ==
  ASSUME [Next]_vars
  PROVE  benchmark' = benchmark
<1>1. ASSUME NEW w \in Worker, Act(w)
      PROVE  benchmark' = benchmark
  BY <1>1 DEF Act, LeaseNextTask, BeginExecution, PreflightFails, CodexFails, Promote, Publish,
       ArtifactsWritten, ArtifactsFail, CreditDone, CreditError, CopyOutput, WriteMetadata,
       InsertFailureForensics, CaptureFails, DeleteStaged, EndAttempt, Crash, Start
<1>2. ASSUME NEW l \in Learner, StartLearning(l) \/ Distil(l) \/ UpsertHeadsUpTips(l)
      PROVE  benchmark' = benchmark
  BY <1>2 DEF StartLearning, Distil, UpsertHeadsUpTips, attemptVars
<1>3. ASSUME ClearHeadsUpTips \/ RetryErrors \/ Time \/ UNCHANGED vars
      PROVE  benchmark' = benchmark
  BY <1>3 DEF ClearHeadsUpTips, RetryErrors, Time, attemptVars, vars
<1> QED
  BY <1>1, <1>2, <1>3 DEF Next, Act

(* The steps of a worker that are written into the history.                 *)
Noted(w) ==
  \/ Promote(w) \/ ArtifactsWritten(w) \/ EndAttempt(w)
  \/ DeleteStaged(w) \/ ArtifactsFail(w)
  \/ CaptureFails(w)

(* Attempt numbers are counted per task, lease tokens over all of them.     *)
LEMMA ClaimsStep ==
  ASSUME TypeInv, [Next]_vars
  PROVE  \/ UNCHANGED <<claims, issued, history>>
         \/ \E w \in Worker : LeaseNextTask(w)
         \/ RetryErrors
         \/ UNCHANGED <<claims, issued>> /\ \E w \in Worker : Noted(w)
<1>1. ASSUME NEW w \in Worker, Act(w)
      PROVE  \/ UNCHANGED <<claims, issued, history>>
             \/ LeaseNextTask(w)
             \/ UNCHANGED <<claims, issued>> /\ Noted(w)
  BY <1>1 DEF Act, BeginExecution, PreflightFails, CodexFails, CreditDone, CreditError, CopyOutput,
       WriteMetadata, InsertFailureForensics, Crash, Start, Publish, Noted,
       Promote, ArtifactsWritten, ArtifactsFail, CaptureFails, DeleteStaged, EndAttempt
<1>2. ASSUME NEW l \in Learner, StartLearning(l) \/ Distil(l) \/ UpsertHeadsUpTips(l)
      PROVE  UNCHANGED <<claims, issued, history>>
  BY <1>2 DEF StartLearning, Distil, UpsertHeadsUpTips, attemptVars
<1>3. ASSUME ClearHeadsUpTips \/ Time \/ UNCHANGED vars
      PROVE  UNCHANGED <<claims, issued, history>>
  BY <1>3 DEF ClearHeadsUpTips, Time, attemptVars, vars
<1> QED
  BY <1>1, <1>2, <1>3 DEF Next, Act

LEMMA ClaimsType ==
  ASSUME TypeInv, [Next]_vars
  PROVE  /\ issued' \in 0..MaxClaims /\ issued <= issued' /\ issued \in Nat
         /\ claims' \in [Task -> 0..MaxClaims]
         /\ \A t \in Task : claims'[t] <= issued'
<1>0. /\ MaxClaims \in Nat /\ issued \in 0..MaxClaims
      /\ claims \in [Task -> 0..MaxClaims] /\ \A t \in Task : claims[t] <= issued
  BY RecordsAssumption DEF TypeInv, RecordsTypeOK
<1>1. ASSUME NEW w \in Worker, LeaseNextTask(w)
      PROVE  /\ issued' \in 0..MaxClaims /\ issued <= issued'
             /\ claims' \in [Task -> 0..MaxClaims]
             /\ \A t \in Task : claims'[t] <= issued'
  <2>1. PICK t \in Task : /\ claims' = [claims EXCEPT ![t] = claims[t] + 1]
                          /\ issued' = issued + 1 /\ issued' \in 1..MaxClaims
                          /\ claims[t] + 1 \in 1..MaxClaims
    BY <1>1, LeaseFields
  <2>2. \A u \in Task : claims'[u] = IF u = t THEN claims[u] + 1 ELSE claims[u]
    BY <1>0, <2>1
  <2> QED
    BY <1>0, <2>1, <2>2
<1>2. CASE RetryErrors
  <2>1. claims' = [t \in Task |-> IF row[t].status = "error" THEN 0 ELSE claims[t]]
        /\ issued' = issued
    BY <1>2 DEF RetryErrors
  <2> QED
    BY <1>0, <2>1
<1>3. CASE UNCHANGED <<claims, issued>>
  BY <1>0, <1>3
<1> QED
  BY <1>0, <1>1, <1>2, <1>3, ClaimsStep

LEMMA ShapeStep ==
  ASSUME TypeInv, [Next]_vars
  PROVE  \A w \in Worker : Shape(worker[w])'
<1> SUFFICES ASSUME NEW v \in Worker
             PROVE  Shape(worker[v])'
  OBVIOUS
<1>0. issued' \in Nat /\ issued <= issued' /\ issued \in Nat
  BY ClaimsType, RecordsAssumption
<1>1. CASE worker'[v] = worker[v]
  <2>1. Shape(worker[v])
    BY DEF TypeInv
  <2> QED
    BY <1>0, <1>1, <2>1 DEF Shape
<1>2. CASE Leased(v)
  <2>1. worker'[v].phase = "claimed" /\ worker'[v].task \in Task
        /\ worker'[v].token = issued' /\ issued' = issued + 1
    BY <1>2, LeaseFields DEF Leased
  <2> QED
    BY <1>0, <2>1 DEF Shape, Resting
<1>3. CASE Rested(v)
  <2>1. PICK p \in Resting : worker'[v] = NoAttempt(p)
    BY <1>3 DEF Rested
  <2>2. NoAttempt(p).phase = p
    BY NoAttemptType DEF Resting, Phase
  <2> QED
    BY <2>1, <2>2 DEF Shape
<1>4. CASE Advanced(v)
  <2>1. worker[v].task \in Task /\ worker[v].token \in 1..issued
    BY <1>4, BusyClaim DEF Advanced
  <2> QED
    BY <1>0, <1>4, <2>1 DEF Advanced, SameClaim, Shape
<1> QED
  BY <1>1, <1>2, <1>3, <1>4, WorkerStep

(* What an attempt ended, a cleanup deleted or retry-errors requeued is     *)
(* never forgotten.                                                         *)
LEMMA HistoryStep ==
  ASSUME TypeInv, [Next]_vars
  PROVE  /\ history.ended \subseteq history'.ended
         /\ history.cleaned \subseteq history'.cleaned
         /\ history.retried \subseteq history'.retried
         /\ history.warned \subseteq history'.warned
         /\ history'.cleaned \in SUBSET CleanedOutput
         /\ history' \in History
         /\ \/ history'.retried = history.retried
            \/ /\ history'.retried = history.retried \cup {t \in Task : row[t].status = "error"}
               /\ RetryErrors
         /\ \/ history'.cleaned = history.cleaned
            \/ \E w \in Worker : /\ (DeleteStaged(w) /\ worker[w].staged) \/ ArtifactsFail(w)
                                 /\ history'.cleaned = history.cleaned \cup {Evidence(w)}
<1>0. history \in History
  BY DEF TypeInv
<1>1. ASSUME NEW w \in Worker, Promote(w) \/ ArtifactsWritten(w) \/ EndAttempt(w),
             history' # history
      PROVE  /\ history' \in History
             /\ history.ended \subseteq history'.ended
             /\ history'.cleaned = history.cleaned /\ history'.retried = history.retried
             /\ history'.warned = history.warned
  <2>1. PICK o \in {"done", "error"} : Ended(w, o)
    BY <1>1 DEF Promote, ArtifactsWritten, Finish, EndAttempt
  <2> DEFINE e == [task |-> worker[w].task, outcome |-> o, tips |-> worker[w].tips]
  <2>2. e \in EndedTask
    <3>1. worker[w].task \in Task
      BY <1>1, BusyClaim DEF Promote, ArtifactsWritten, EndAttempt, At, Resting
    <3>2. worker[w].tips \in SUBSET (1..MaxTips)
      BY DEF TypeInv, RecordsTypeOK, Attempt
    <3> QED
      BY <3>1, <3>2 DEF EndedTask
  <2>3. history' = [history EXCEPT !.ended = history.ended \cup {e}]
    BY <1>1, <2>1 DEF Ended
  <2> HIDE DEF e
  <2> QED
    BY <1>0, <2>2, <2>3 DEF History
<1>2. ASSUME NEW w \in Worker, DeleteStaged(w) \/ ArtifactsFail(w), history' # history
      PROVE  /\ history' \in History
             /\ (DeleteStaged(w) /\ worker[w].staged) \/ ArtifactsFail(w)
             /\ history'.cleaned = history.cleaned \cup {Evidence(w)}
             /\ history'.ended = history.ended /\ history'.retried = history.retried
             /\ history'.warned = history.warned
  <2>1. PICK e : e = Evidence(w)
    OBVIOUS
  <2>2. e \in CleanedOutput
    <3>1. worker[w].task \in Task /\ worker[w].token \in Token
      BY <1>2, BusyClaim DEF DeleteStaged, ArtifactsFail, At, Resting
    <3>2. worker[w].index \in 0..MaxClaims
      BY DEF TypeInv, RecordsTypeOK, Attempt
    <3> QED
      BY <2>1, <3>1, <3>2, TokenRange DEF Evidence, CleanedOutput
  <2>3. /\ (DeleteStaged(w) /\ worker[w].staged) \/ ArtifactsFail(w)
        /\ history' = [history EXCEPT !.cleaned = history.cleaned \cup {e}]
    BY <1>2, <2>1 DEF DeleteStaged, ArtifactsFail, Deleted
  <2> QED
    BY <1>0, <2>1, <2>2, <2>3 DEF History
<1>3. ASSUME NEW w \in Worker, CaptureFails(w)
      PROVE  /\ history' \in History
             /\ history.warned \subseteq history'.warned
             /\ history'.ended = history.ended /\ history'.retried = history.retried
             /\ history'.cleaned = history.cleaned
  <2>1. worker[w].token \in 1..MaxClaims
    BY <1>3, BusyClaim, TokenRange DEF CaptureFails, At, Resting
  <2>2. history' = [history EXCEPT !.warned = history.warned \cup {worker[w].token}]
    BY <1>3 DEF CaptureFails
  <2> QED
    BY <1>0, <2>1, <2>2 DEF History
<1>4. ASSUME RetryErrors
      PROVE  /\ history' \in History
             /\ history'.ended = history.ended /\ history'.cleaned = history.cleaned
             /\ history'.warned = history.warned
             /\ history'.retried = history.retried \cup {t \in Task : row[t].status = "error"}
  <2>1. PICK S \in SUBSET Task : S = {t \in Task : row[t].status = "error"}
    OBVIOUS
  <2>2. history' = [history EXCEPT !.retried = history.retried \cup S]
    BY <1>4, <2>1 DEF RetryErrors
  <2> QED
    BY <1>0, <2>1, <2>2 DEF History
<1>5. \A w \in Worker : LeaseNextTask(w) => history' = history
  BY DEF LeaseNextTask
<1>6. history' = history \/ RetryErrors \/ \E w \in Worker : Noted(w)
  BY <1>5, ClaimsStep
<1>7. CASE history' = history
  BY <1>0, <1>7 DEF History
<1>8. CASE RetryErrors
  BY <1>0, <1>4, <1>8 DEF History
<1>9. ASSUME history' # history, NEW w \in Worker, Noted(w)
      PROVE  /\ history' \in History
             /\ history.ended \subseteq history'.ended
             /\ history.warned \subseteq history'.warned
             /\ history'.retried = history.retried
             /\ \/ history'.cleaned = history.cleaned
                \/ /\ (DeleteStaged(w) /\ worker[w].staged) \/ ArtifactsFail(w)
                   /\ history'.cleaned = history.cleaned \cup {Evidence(w)}
  BY <1>1, <1>2, <1>3, <1>9 DEF Noted
<1>10. \A h \in History : h.cleaned \in SUBSET CleanedOutput
  BY DEF History
<1> QED
  BY <1>6, <1>7, <1>8, <1>9, <1>10

(* The bundle of one attempt, after one of its files is written.            *)
OwnFile(w, t, i) == t = worker[w].task /\ i = worker[w].index

LEMMA TornFile == Torn \in 0..Torn /\ Torn # 0 /\ 0..MaxClaims \subseteq 0..Torn
BY RecordsAssumption DEF Torn

LEMMA RawFile ==
  ASSUME TypeInv, NEW w \in Worker, worker[w].phase \notin Resting, NEW n \in 0..Torn,
         bundle' = [bundle EXCEPT ![worker[w].task][worker[w].index].raw = n]
  PROVE  /\ bundle' \in [Task -> [0..MaxClaims -> Bundle]]
         /\ \A t \in Task, i \in 0..MaxClaims :
              IF OwnFile(w, t, i)
              THEN bundle'[t][i].raw = n /\ bundle'[t][i].meta = bundle[t][i].meta
              ELSE bundle'[t][i] = bundle[t][i]
<1>0. bundle \in [Task -> [0..MaxClaims -> Bundle]]
  BY DEF TypeInv, RecordsTypeOK
<1>1. PICK u \in Task : u = worker[w].task
  BY BusyClaim
<1>2. PICK k \in 0..MaxClaims : k = worker[w].index
  BY DEF TypeInv, RecordsTypeOK, Attempt
<1>3. bundle' = [bundle EXCEPT ![u][k].raw = n]
  BY <1>1, <1>2
<1>4. bundle[u][k] \in Bundle
  BY <1>0
<1> DEFINE b == [bundle[u][k] EXCEPT !.raw = n]
           d == [bundle[u] EXCEPT ![k] = b]
<1>5. b \in Bundle /\ b.raw = n /\ b.meta = bundle[u][k].meta
  BY <1>4 DEF Bundle
<1>6. bundle' = [bundle EXCEPT ![u] = d]
  BY <1>0, <1>3
<1> HIDE DEF b
<1>7. /\ d \in [0..MaxClaims -> Bundle] /\ d[k] = b
      /\ \A i \in 0..MaxClaims : i # k => d[i] = bundle[u][i]
  BY <1>0, <1>5
<1> HIDE DEF d
<1>8. /\ bundle' \in [Task -> [0..MaxClaims -> Bundle]] /\ bundle'[u] = d
      /\ \A t \in Task : t # u => bundle'[t] = bundle[t]
  <2>1. PICK S : S = [0..MaxClaims -> Bundle]
    OBVIOUS
  <2>2. bundle \in [Task -> S] /\ d \in S
    BY <1>0, <1>7, <2>1
  <2>3. /\ bundle' \in [Task -> S] /\ bundle'[u] = d
        /\ \A t \in Task : t # u => bundle'[t] = bundle[t]
    BY <1>6, <2>2
  <2> QED
    BY <2>1, <2>3
<1>9. ASSUME NEW t \in Task, NEW i \in 0..MaxClaims
      PROVE  IF OwnFile(w, t, i)
             THEN bundle'[t][i].raw = n /\ bundle'[t][i].meta = bundle[t][i].meta
             ELSE bundle'[t][i] = bundle[t][i]
  <2>1. CASE OwnFile(w, t, i)
    <3>1. t = u /\ i = k
      BY <1>1, <1>2, <2>1 DEF OwnFile
    <3>2. bundle'[t][i] = b
      BY <1>7, <1>8, <3>1
    <3> QED
      BY <1>5, <2>1, <3>1, <3>2
  <2>2. CASE ~OwnFile(w, t, i)
    <3>1. t # u \/ i # k
      BY <1>1, <1>2, <2>2 DEF OwnFile
    <3>2. bundle'[t][i] = bundle[t][i]
      BY <1>7, <1>8, <3>1
    <3> QED
      BY <2>2, <3>2
  <2> QED
    BY <2>1, <2>2
<1> QED
  BY <1>8, <1>9

LEMMA MetaFile ==
  ASSUME TypeInv, NEW w \in Worker, worker[w].phase \notin Resting, NEW n \in 0..Torn,
         bundle' = [bundle EXCEPT ![worker[w].task][worker[w].index].meta = n]
  PROVE  /\ bundle' \in [Task -> [0..MaxClaims -> Bundle]]
         /\ \A t \in Task, i \in 0..MaxClaims :
              IF OwnFile(w, t, i)
              THEN bundle'[t][i].meta = n /\ bundle'[t][i].raw = bundle[t][i].raw
              ELSE bundle'[t][i] = bundle[t][i]
<1>0. bundle \in [Task -> [0..MaxClaims -> Bundle]]
  BY DEF TypeInv, RecordsTypeOK
<1>1. PICK u \in Task : u = worker[w].task
  BY BusyClaim
<1>2. PICK k \in 0..MaxClaims : k = worker[w].index
  BY DEF TypeInv, RecordsTypeOK, Attempt
<1>3. bundle' = [bundle EXCEPT ![u][k].meta = n]
  BY <1>1, <1>2
<1>4. bundle[u][k] \in Bundle
  BY <1>0
<1> DEFINE b == [bundle[u][k] EXCEPT !.meta = n]
           d == [bundle[u] EXCEPT ![k] = b]
<1>5. b \in Bundle /\ b.meta = n /\ b.raw = bundle[u][k].raw
  BY <1>4 DEF Bundle
<1>6. bundle' = [bundle EXCEPT ![u] = d]
  BY <1>0, <1>3
<1> HIDE DEF b
<1>7. /\ d \in [0..MaxClaims -> Bundle] /\ d[k] = b
      /\ \A i \in 0..MaxClaims : i # k => d[i] = bundle[u][i]
  BY <1>0, <1>5
<1> HIDE DEF d
<1>8. /\ bundle' \in [Task -> [0..MaxClaims -> Bundle]] /\ bundle'[u] = d
      /\ \A t \in Task : t # u => bundle'[t] = bundle[t]
  <2>1. PICK S : S = [0..MaxClaims -> Bundle]
    OBVIOUS
  <2>2. bundle \in [Task -> S] /\ d \in S
    BY <1>0, <1>7, <2>1
  <2>3. /\ bundle' \in [Task -> S] /\ bundle'[u] = d
        /\ \A t \in Task : t # u => bundle'[t] = bundle[t]
    BY <1>6, <2>2
  <2> QED
    BY <2>1, <2>3
<1>9. ASSUME NEW t \in Task, NEW i \in 0..MaxClaims
      PROVE  IF OwnFile(w, t, i)
             THEN bundle'[t][i].meta = n /\ bundle'[t][i].raw = bundle[t][i].raw
             ELSE bundle'[t][i] = bundle[t][i]
  <2>1. CASE OwnFile(w, t, i)
    <3>1. t = u /\ i = k
      BY <1>1, <1>2, <2>1 DEF OwnFile
    <3>2. bundle'[t][i] = b
      BY <1>7, <1>8, <3>1
    <3> QED
      BY <1>5, <2>1, <3>1, <3>2
  <2>2. CASE ~OwnFile(w, t, i)
    <3>1. t # u \/ i # k
      BY <1>1, <1>2, <2>2 DEF OwnFile
    <3>2. bundle'[t][i] = bundle[t][i]
      BY <1>7, <1>8, <3>1
    <3> QED
      BY <2>2, <3>2
  <2> QED
    BY <2>1, <2>2
<1> QED
  BY <1>8, <1>9

LEMMA CopiedFiles ==
  ASSUME TypeInv, NEW w \in Worker, CopyOutput(w), worker[w].staged
  PROVE  /\ bundle' \in [Task -> [0..MaxClaims -> Bundle]]
         /\ \A t \in Task, i \in 0..MaxClaims :
              IF OwnFile(w, t, i)
              THEN bundle'[t][i].raw = worker[w].token /\ bundle'[t][i].meta = bundle[t][i].meta
              ELSE bundle'[t][i] = bundle[t][i]
<1>1. worker[w].phase \notin Resting
  BY DEF CopyOutput, At, Resting
<1>2. worker[w].token \in 0..Torn
  BY TornFile DEF TypeInv, RecordsTypeOK, Attempt
<1>3. bundle' = [bundle EXCEPT ![worker[w].task][worker[w].index].raw = worker[w].token]
  BY DEF CopyOutput, AttemptPart
<1> QED
  BY <1>1, <1>2, <1>3, RawFile

LEMMA DescribedFiles ==
  ASSUME TypeInv, NEW w \in Worker, WriteMetadata(w)
  PROVE  /\ bundle' \in [Task -> [0..MaxClaims -> Bundle]]
         /\ \A t \in Task, i \in 0..MaxClaims :
              IF OwnFile(w, t, i)
              THEN bundle'[t][i].meta = worker[w].token /\ bundle'[t][i].raw = bundle[t][i].raw
              ELSE bundle'[t][i] = bundle[t][i]
<1>1. worker[w].phase \notin Resting
  BY DEF WriteMetadata, At, Resting
<1>2. worker[w].token \in 0..Torn
  BY TornFile DEF TypeInv, RecordsTypeOK, Attempt
<1>3. bundle' = [bundle EXCEPT ![worker[w].task][worker[w].index].meta = worker[w].token]
  BY DEF WriteMetadata, AttemptPart
<1> QED
  BY <1>1, <1>2, <1>3, MetaFile

(* A capture stops, with one of its files torn.                             *)
Stops(w) ==
  /\ worker[w].phase \in {"failed", "copied"}
  /\ \/ Crash(w) /\ Rested(w)
     \/ CaptureFails(w) /\ worker'[w].phase = "uncaptured"

LEMMA CutFiles ==
  ASSUME TypeInv, NEW w \in Worker, Crash(w) \/ CaptureFails(w), bundle' # bundle
  PROVE  /\ Stops(w)
         /\ bundle' \in [Task -> [0..MaxClaims -> Bundle]]
         /\ \A t \in Task, i \in 0..MaxClaims :
              IF OwnFile(w, t, i)
              THEN /\ bundle'[t][i].raw \in {Torn, bundle[t][i].raw}
                   /\ bundle'[t][i].meta \in {Torn, bundle[t][i].meta}
              ELSE bundle'[t][i] = bundle[t][i]
<1>1. /\ worker[w].phase \in {"failed", "copied"}
      /\ \/ bundle' = [bundle EXCEPT ![worker[w].task][worker[w].index].raw = Torn]
         \/ bundle' = [bundle EXCEPT ![worker[w].task][worker[w].index].meta = Torn]
  BY DEF Crash, CaptureFails, Cut, AttemptPart, At
<1>2. worker[w].phase \notin Resting
  BY <1>1 DEF Resting
<1>3. ASSUME Crash(w)
      PROVE  Stops(w)
  <2>1. "dead" \in Resting /\ worker' = [worker EXCEPT ![w] = NoAttempt("dead")]
    BY <1>3 DEF Crash, Resting
  <2> QED
    BY <1>1, <1>3, <2>1, RestFields DEF Stops, Rested
<1>4. ASSUME CaptureFails(w)
      PROVE  Stops(w)
  <2>1. Goto(w, "uncaptured") /\ "uncaptured" \in Phase
    BY <1>4 DEF CaptureFails, Phase
  <2> QED
    BY <1>1, <1>4, <2>1, GotoFields DEF Stops
<1>5. Stops(w)
  BY <1>3, <1>4
<1>6. CASE bundle' = [bundle EXCEPT ![worker[w].task][worker[w].index].raw = Torn]
  <2>1. /\ bundle' \in [Task -> [0..MaxClaims -> Bundle]]
        /\ \A t \in Task, i \in 0..MaxClaims :
             IF OwnFile(w, t, i)
             THEN bundle'[t][i].raw = Torn /\ bundle'[t][i].meta = bundle[t][i].meta
             ELSE bundle'[t][i] = bundle[t][i]
    BY <1>2, <1>6, TornFile, RawFile
  <2> QED
    BY <1>5, <2>1
<1>7. CASE bundle' = [bundle EXCEPT ![worker[w].task][worker[w].index].meta = Torn]
  <2>1. /\ bundle' \in [Task -> [0..MaxClaims -> Bundle]]
        /\ \A t \in Task, i \in 0..MaxClaims :
             IF OwnFile(w, t, i)
             THEN bundle'[t][i].meta = Torn /\ bundle'[t][i].raw = bundle[t][i].raw
             ELSE bundle'[t][i] = bundle[t][i]
    BY <1>2, <1>7, TornFile, MetaFile
  <2> QED
    BY <1>5, <2>1
<1> QED
  BY <1>1, <1>6, <1>7

LEMMA BundleStep ==
  ASSUME TypeInv, [Next]_vars
  PROVE  /\ bundle' \in [Task -> [0..MaxClaims -> Bundle]]
         /\ \/ bundle' = bundle
            \/ \E w \in Worker :
                 /\ worker[w].phase \notin Resting
                 /\ CopyOutput(w) \/ WriteMetadata(w) \/ Stops(w)
                 /\ \A t \in Task, i \in 0..MaxClaims :
                      IF OwnFile(w, t, i)
                      THEN LET n == IF Stops(w) THEN Torn ELSE worker[w].token
                           IN /\ bundle'[t][i].raw \in {n, bundle[t][i].raw}
                              /\ bundle'[t][i].meta \in {n, bundle[t][i].meta}
                      ELSE bundle'[t][i] = bundle[t][i]
<1>0. bundle \in [Task -> [0..MaxClaims -> Bundle]]
  BY DEF TypeInv, RecordsTypeOK
<1>1. ASSUME NEW w \in Worker, Act(w), ~(CopyOutput(w) /\ worker[w].staged), ~WriteMetadata(w),
             ~Crash(w), ~CaptureFails(w)
      PROVE  bundle' = bundle
  BY <1>1 DEF Act, LeaseNextTask, BeginExecution, PreflightFails, CodexFails, Promote, Publish,
       ArtifactsWritten, ArtifactsFail, CreditDone, CreditError, CopyOutput,
       InsertFailureForensics, DeleteStaged, EndAttempt, Start, evidenceVars
<1>2. ASSUME NEW l \in Learner, StartLearning(l) \/ Distil(l) \/ UpsertHeadsUpTips(l)
      PROVE  bundle' = bundle
  BY <1>2 DEF StartLearning, Distil, UpsertHeadsUpTips, evidenceVars
<1>3. ASSUME ClearHeadsUpTips \/ RetryErrors \/ Time \/ UNCHANGED vars
      PROVE  bundle' = bundle
  BY <1>3 DEF ClearHeadsUpTips, RetryErrors, Time, evidenceVars, vars
<1>4. \/ bundle' = bundle
      \/ \E w \in Worker : \/ CopyOutput(w) /\ worker[w].staged
                           \/ WriteMetadata(w)
                           \/ (Crash(w) \/ CaptureFails(w)) /\ bundle' # bundle
  BY <1>1, <1>2, <1>3 DEF Next, Act
<1>5. ASSUME NEW w \in Worker, CopyOutput(w) \/ WriteMetadata(w)
      PROVE  worker[w].phase \notin Resting
  BY <1>5 DEF CopyOutput, WriteMetadata, At, Resting
<1>6. ASSUME NEW w \in Worker, CopyOutput(w) \/ WriteMetadata(w)
      PROVE  ~Stops(w)
  <2>1. PICK p \in {"copied", "described"} : worker'[w].phase = p
    BY <1>6, GotoFields, CopyFields DEF WriteMetadata, Phase
  <2>2. \A q \in Resting : NoAttempt(q).phase = q
    BY NoAttemptType DEF Resting, Phase
  <2> QED
    BY <2>1, <2>2 DEF Stops, Rested, Resting
<1>7. ASSUME NEW w \in Worker, Stops(w)
      PROVE  worker[w].phase \notin Resting
  BY <1>7 DEF Stops, Resting
<1>8. ASSUME NEW w \in Worker, (CopyOutput(w) /\ worker[w].staged) \/ WriteMetadata(w)
      PROVE  /\ bundle' \in [Task -> [0..MaxClaims -> Bundle]]
             /\ \A t \in Task, i \in 0..MaxClaims :
                  IF OwnFile(w, t, i)
                  THEN /\ bundle'[t][i].raw \in {worker[w].token, bundle[t][i].raw}
                       /\ bundle'[t][i].meta \in {worker[w].token, bundle[t][i].meta}
                  ELSE bundle'[t][i] = bundle[t][i]
  BY <1>8, CopiedFiles, DescribedFiles
<1>9. CASE bundle' = bundle
  BY <1>0, <1>9
<1>10. ASSUME NEW w \in Worker, (CopyOutput(w) /\ worker[w].staged) \/ WriteMetadata(w)
       PROVE  /\ bundle' \in [Task -> [0..MaxClaims -> Bundle]]
              /\ worker[w].phase \notin Resting
              /\ CopyOutput(w) \/ WriteMetadata(w) \/ Stops(w)
              /\ \A t \in Task, i \in 0..MaxClaims :
                   IF OwnFile(w, t, i)
                   THEN LET n == IF Stops(w) THEN Torn ELSE worker[w].token
                        IN /\ bundle'[t][i].raw \in {n, bundle[t][i].raw}
                           /\ bundle'[t][i].meta \in {n, bundle[t][i].meta}
                   ELSE bundle'[t][i] = bundle[t][i]
  BY <1>5, <1>6, <1>8, <1>10
<1>11. ASSUME NEW w \in Worker, Crash(w) \/ CaptureFails(w), bundle' # bundle
       PROVE  /\ bundle' \in [Task -> [0..MaxClaims -> Bundle]]
              /\ worker[w].phase \notin Resting
              /\ Stops(w)
              /\ \A t \in Task, i \in 0..MaxClaims :
                   IF OwnFile(w, t, i)
                   THEN LET n == IF Stops(w) THEN Torn ELSE worker[w].token
                        IN /\ bundle'[t][i].raw \in {n, bundle[t][i].raw}
                           /\ bundle'[t][i].meta \in {n, bundle[t][i].meta}
                   ELSE bundle'[t][i] = bundle[t][i]
  BY <1>7, <1>11, CutFiles
<1> QED
  BY <1>4, <1>9, <1>10, <1>11

LEMMA ForensicsStep ==
  ASSUME TypeInv, [Next]_vars
  PROVE  /\ forensics' \subseteq [id : 1..MaxClaims, task : Task, index : 0..MaxClaims,
                                  raw : BOOLEAN]
         /\ \/ forensics' = forensics
            \/ \E w \in Worker :
                 /\ InsertFailureForensics(w) /\ worker[w].phase = "described"
                 /\ forensics' = forensics \cup {ForensicsRow(w)}
<1>0. forensics \subseteq [id : 1..MaxClaims, task : Task, index : 0..MaxClaims, raw : BOOLEAN]
  BY DEF TypeInv, RecordsTypeOK
<1>1. ASSUME NEW w \in Worker, InsertFailureForensics(w)
      PROVE  /\ ForensicsRow(w) \in [id : 1..MaxClaims, task : Task, index : 0..MaxClaims,
                                     raw : BOOLEAN]
             /\ worker[w].phase = "described"
             /\ forensics' = forensics \cup {ForensicsRow(w)}
  <2>1. worker[w].task \in Task /\ worker[w].token \in 1..MaxClaims
    BY <1>1, BusyClaim, TokenRange DEF InsertFailureForensics, At, Resting
  <2>2. PICK o \in BOOLEAN : o = worker[w].raw
    BY DEF TypeInv, RecordsTypeOK, Attempt
  <2>3. worker[w].index \in 0..MaxClaims
    BY DEF TypeInv, RecordsTypeOK, Attempt
  <2>4. ForensicsRow(w) = [id |-> worker[w].token, task |-> worker[w].task,
                           index |-> worker[w].index, raw |-> o]
    BY <2>2 DEF ForensicsRow, AttemptPart
  <2> QED
    BY <1>1, <2>1, <2>3, <2>4 DEF InsertFailureForensics, At
<1>2. ASSUME NEW w \in Worker, Act(w), ~InsertFailureForensics(w)
      PROVE  forensics' = forensics
  BY <1>2 DEF Act, LeaseNextTask, BeginExecution, PreflightFails, CodexFails, Promote, Publish,
       ArtifactsWritten, ArtifactsFail, Finish, CreditDone,
       CreditError, CopyOutput, WriteMetadata, CaptureFails, DeleteStaged, EndAttempt,
       Crash, Start, evidenceVars
<1>3. ASSUME NEW l \in Learner, StartLearning(l) \/ Distil(l) \/ UpsertHeadsUpTips(l)
      PROVE  forensics' = forensics
  BY <1>3 DEF StartLearning, Distil, UpsertHeadsUpTips, evidenceVars
<1>4. ASSUME ClearHeadsUpTips \/ RetryErrors \/ Time \/ UNCHANGED vars
      PROVE  forensics' = forensics
  BY <1>4 DEF ClearHeadsUpTips, RetryErrors, Time, evidenceVars, vars
<1>5. forensics' = forensics \/ \E w \in Worker : InsertFailureForensics(w)
  BY <1>2, <1>3, <1>4 DEF Next, Act
<1> QED
  BY <1>0, <1>1, <1>5

------------------------------------------------------------------------------
(* Tips, their usage, and the lists the learners work on. *)

(* The worker credits its tips with the outcome it has just recorded.       *)
Recorded(w, o) ==
  /\ \/ o = "done" /\ At(w, "promoted")
     \/ o = "error" /\ At(w, "erred")
  /\ Known(w)
  /\ RecordUsage(worker[w].task, worker[w].tips, o)

LEMMA TipsStep ==
  ASSUME TypeInv, [Next]_vars
  PROVE  \/ UNCHANGED tipVars
         \/ \E w \in Worker, o \in {"done", "error"} : Recorded(w, o)
         \/ \E l \in Learner : UpsertHeadsUpTips(l)
         \/ ClearHeadsUpTips
<1>1. ASSUME NEW w \in Worker, Act(w)
      PROVE  UNCHANGED tipVars \/ Recorded(w, "done") \/ Recorded(w, "error")
  <2>1. CASE CreditDone(w)
    BY <2>1 DEF CreditDone, Recorded
  <2>2. CASE CreditError(w)
    BY <2>2 DEF CreditError, Recorded
  <2>3. CASE ~CreditDone(w) /\ ~CreditError(w)
    BY <1>1, <2>3 DEF Act, LeaseNextTask, BeginExecution, PreflightFails, CodexFails, Promote, Publish,
       ArtifactsWritten, ArtifactsFail, Finish,
         CopyOutput, WriteMetadata, InsertFailureForensics, CaptureFails, DeleteStaged, EndAttempt,
         Crash, Start
  <2> QED
    BY <2>1, <2>2, <2>3
<1>2. ASSUME NEW l \in Learner, StartLearning(l) \/ Distil(l)
      PROVE  UNCHANGED tipVars
  BY <1>2 DEF StartLearning, Distil
<1>3. ASSUME RetryErrors \/ Time \/ UNCHANGED vars
      PROVE  UNCHANGED tipVars
  BY <1>3 DEF RetryErrors, Time, vars
<1> QED
  BY <1>1, <1>2, <1>3 DEF Next, Act

LEMMA LearnerStep ==
  ASSUME TypeInv, [Next]_vars
  PROVE  \/ UNCHANGED learner
         \/ \E l \in Learner : StartLearning(l) \/ Distil(l) \/ UpsertHeadsUpTips(l)
<1>1. ASSUME NEW w \in Worker, Act(w)
      PROVE  UNCHANGED learner
  BY <1>1 DEF Act, LeaseNextTask, BeginExecution, PreflightFails, CodexFails, Promote, Publish,
       ArtifactsWritten, ArtifactsFail, Finish, CreditDone,
       CreditError, CopyOutput, WriteMetadata, InsertFailureForensics, CaptureFails, DeleteStaged,
       EndAttempt, Crash, Start
<1>2. ASSUME ClearHeadsUpTips \/ RetryErrors \/ Time \/ UNCHANGED vars
      PROVE  UNCHANGED learner
  BY <1>2 DEF ClearHeadsUpTips, RetryErrors, Time, vars
<1> QED
  BY <1>1, <1>2 DEF Next, Act

LEMMA EventsStep ==
  ASSUME TypeInv, [Next]_vars
  PROVE  events' \in 0..MaxEvents
<1>0. events \in 0..MaxEvents /\ MaxEvents \in Nat
  BY RecordsAssumption DEF TypeInv, RecordsTypeOK
<1>1. CASE events' = events \/ Event
  BY <1>0, <1>1 DEF Event
<1>2. ASSUME NEW w \in Worker, Act(w)
      PROVE  events' = events \/ Event
  BY <1>2 DEF Act, LeaseNextTask, BeginExecution, PreflightFails, CodexFails, Promote, Publish,
       ArtifactsWritten, ArtifactsFail, Finish, CreditDone,
       CreditError, CopyOutput, WriteMetadata, InsertFailureForensics, CaptureFails, DeleteStaged,
       EndAttempt, Crash, Start
<1>3. ASSUME NEW l \in Learner, StartLearning(l) \/ Distil(l) \/ UpsertHeadsUpTips(l)
      PROVE  events' = events \/ Event
  BY <1>3 DEF StartLearning, Distil, UpsertHeadsUpTips
<1>4. ASSUME ClearHeadsUpTips \/ RetryErrors \/ Time \/ UNCHANGED vars
      PROVE  events' = events \/ Event
  BY <1>4 DEF ClearHeadsUpTips, RetryErrors, Time, vars
<1> QED
  BY <1>1, <1>2, <1>3, <1>4 DEF Next, Act

LEMMA FoundAsType ==
  ASSUME TypeInv, NEW k
  PROVE  /\ FoundAs(k) \in 0..MaxTips
         /\ FoundAs(k) = 0 => \A tip \in tips : tip.key # k
<1> DEFINE same == {tip.id : tip \in {x \in tips : x.key = k}}
<1>1. same \subseteq 1..MaxTips
  BY DEF TypeInv, RecordsTypeOK, Tip
<1>2. FoundAs(k) = IF same = {} THEN 0 ELSE CHOOSE i \in same : TRUE
  BY DEF FoundAs
<1>3. \A tip \in tips : tip.key = k => tip.id \in same
  OBVIOUS
<1>4. MaxTips \in Nat
  BY RecordsAssumption
<1> HIDE DEF same
<1>5. CASE same = {}
  BY <1>2, <1>3, <1>4, <1>5
<1>6. CASE same # {}
  <2>1. PICK n \in same : n = FoundAs(k)
    BY <1>2, <1>6
  <2>2. n \in 0..MaxTips /\ n # 0
    BY <1>1, <1>4
  <2> QED
    BY <2>1, <2>2
<1> QED
  BY <1>5, <1>6

LEMMA IdleType == Idle \in LearnerState /\ Idle.todo = <<>>
<1>1. <<>> \in [{} -> Key]
  OBVIOUS
<1>2. <<>> \in UNION {[K -> Key] : K \in SUBSET (1..MaxRaw)}
  BY <1>1
<1>3. 0 \in 0..MaxTips
  BY RecordsAssumption
<1> QED
  BY <1>2, <1>3 DEF Idle, LearnerState

(* What is left of a distillation: tips for distinct keys.                  *)
LEMMA NormalizedTips ==
  ASSUME NEW raw \in BoundedSeq(Proposal, MaxRaw)
  PROVE  /\ NormalizeDistilledTips(raw) \in UNION {[K -> Key] : K \in SUBSET (1..MaxRaw)}
         /\ \A i, j \in DOMAIN NormalizeDistilledTips(raw) :
              NormalizeDistilledTips(raw)[i] = NormalizeDistilledTips(raw)[j] => i = j
<1>1. PICK m \in 0..MaxRaw : raw \in [1..m -> Proposal]
  BY DEF BoundedSeq, SeqOf
<1> DEFINE Normal(i) == IF raw[i].signature = Unknown
                        THEN [raw[i] EXCEPT !.signature = Wildcard] ELSE raw[i]
           First == {i \in DOMAIN raw : \A j \in DOMAIN raw : Normal(j) = Normal(i) => j >= i}
           Room == {i \in First :
                      Cardinality({j \in First : /\ j < i
                                                 /\ Normal(j).signature = Normal(i).signature})
                        < SignatureCap}
           Kept == {i \in Room : Cardinality({j \in Room : j < i}) < TipCap}
<1>2. NormalizeDistilledTips(raw) = [i \in Kept |-> Normal(i)]
  BY DEF NormalizeDistilledTips
<1>3. ASSUME NEW i \in 1..m
      PROVE  Normal(i) \in Key
  <2>1. raw[i] \in Proposal
    BY <1>1
  <2> QED
    BY <2>1 DEF Proposal, Key
<1>4. Kept \subseteq First /\ First \subseteq 1..m
  BY <1>1
<1>5. MaxRaw \in Nat /\ 1..m \subseteq 1..MaxRaw
  BY RecordsAssumption
<1>6. ASSUME NEW i \in First, NEW j \in First, Normal(i) = Normal(j)
      PROVE  i = j
  <2>1. i \in DOMAIN raw /\ j \in DOMAIN raw
    BY <1>4, <1>1
  <2>2. j >= i /\ i >= j
    BY <1>6, <2>1
  <2>3. i \in Nat /\ j \in Nat
    BY <1>1, <2>1
  <2> QED
    BY <2>2, <2>3
<1> HIDE DEF Kept, First, Normal
<1>7. \A i \in Kept : i \in First /\ i \in 1..m
  BY <1>4
<1>8. DOMAIN NormalizeDistilledTips(raw) = Kept
      /\ \A i \in Kept : NormalizeDistilledTips(raw)[i] = Normal(i)
  BY <1>2
<1>9. NormalizeDistilledTips(raw) \in [Kept -> Key] /\ Kept \in SUBSET (1..MaxRaw)
  BY <1>2, <1>3, <1>5, <1>7
<1> QED
  BY <1>6, <1>7, <1>8, <1>9

TipRows ==
  /\ tips \subseteq Tip /\ inserted \in 0..MaxTips /\ usage \subseteq Usage
  /\ \A p, q \in tips : p.id = q.id \/ p.key = q.key => p = q
  /\ \A tip \in tips : tip.id <= inserted

(* Crediting a tip leaves its id and its key alone.                         *)
LEMMA CreditedTip ==
  ASSUME NEW tip \in Tip, NEW delta \in 0..1
  PROVE  /\ Credited(tip, delta) \in Tip
         /\ Credited(tip, delta).id = tip.id /\ Credited(tip, delta).key = tip.key
         /\ Credited(tip, delta).uses = tip.uses + 1
         /\ Credited(tip, delta).wins = tip.wins + delta
         /\ Credited(tip, delta).score = <<tip.wins + delta + 1, tip.uses + 3>>
<1>1. tip.uses \in Nat /\ tip.wins \in Nat /\ delta \in Nat
  BY DEF Tip
<1>2. <<tip.wins + delta + 1, tip.uses + 3>> \in Score
  BY <1>1 DEF Score
<1>3. tip.uses + 1 \in Nat /\ tip.wins + delta \in Nat
  BY <1>1
<1> QED
  BY <1>2, <1>3 DEF Credited, Tip

(* What recording an outcome does to the tables, tip by tip.                *)
LEMMA RecordedTips ==
  ASSUME TypeInv, NEW w \in Worker, NEW o \in {"done", "error"}, Recorded(w, o)
  PROVE  \E delta \in 0..1, new \in SUBSET worker[w].tips :
           /\ delta = IF o = "done" THEN 1 ELSE 0
           /\ worker[w].task \in Task
           /\ new \subseteq 1..MaxTips
           /\ \A i \in new : \E tip \in tips : tip.id = i
           /\ \A i \in new : ~\E u \in usage : u.task = worker[w].task /\ u.tip = i
           /\ usage' = usage \cup {[task |-> worker[w].task, tip |-> i, outcome |-> o] : i \in new}
           /\ tips' = {IF tip.id \in new THEN Credited(tip, delta) ELSE tip : tip \in tips}
           /\ inserted' = inserted
<1> DEFINE delta == IF o = "done" THEN 1 ELSE 0
           new == NewlyUsed(worker[w].task, worker[w].tips)
<1>1. worker[w].task \in Task
  BY BusyClaim DEF Recorded, At, Resting
<1>2. worker[w].tips \subseteq 1..MaxTips
  BY DEF TypeInv, RecordsTypeOK, Attempt
<1>3. \A i \in worker[w].tips : \E tip \in tips : tip.id = i
  BY DEF Recorded, Known
<1>4. /\ new \subseteq worker[w].tips
      /\ \A i \in new : ~\E u \in usage : u.task = worker[w].task /\ u.tip = i
  BY DEF NewlyUsed
<1>5. /\ usage' = usage \cup {[task |-> worker[w].task, tip |-> i, outcome |-> o] : i \in new}
      /\ tips' = {IF tip.id \in new THEN Credited(tip, delta) ELSE tip : tip \in tips}
      /\ inserted' = inserted
  BY DEF Recorded, RecordUsage
<1>6. delta \in 0..1 /\ new \in SUBSET worker[w].tips
  BY <1>4
<1>7. delta = IF o = "done" THEN 1 ELSE 0
  OBVIOUS
<1>8. new \subseteq 1..MaxTips /\ \A i \in new : \E tip \in tips : tip.id = i
  BY <1>2, <1>3, <1>4
<1> HIDE DEF new, delta
<1> QED
  BY <1>1, <1>4, <1>5, <1>6, <1>7, <1>8

LEMMA RecordedRows ==
  ASSUME TypeInv, NEW w \in Worker, NEW o \in {"done", "error"}, Recorded(w, o)
  PROVE  TipRows'
<1>1. PICK delta \in 0..1, new \in SUBSET worker[w].tips :
        /\ worker[w].task \in Task
        /\ new \subseteq 1..MaxTips
        /\ usage' = usage \cup {[task |-> worker[w].task, tip |-> i, outcome |-> o] : i \in new}
        /\ tips' = {IF tip.id \in new THEN Credited(tip, delta) ELSE tip : tip \in tips}
        /\ inserted' = inserted
  BY RecordedTips
<1>2. usage' \subseteq Usage
  <2>1. usage \subseteq Usage
    BY DEF TypeInv, RecordsTypeOK
  <2> QED
    BY <1>1, <2>1 DEF Usage
<1>3. tips \subseteq Tip /\ inserted \in 0..MaxTips
  BY DEF TypeInv, RecordsTypeOK
<1>4. ASSUME NEW p \in tips'
      PROVE  \E tip \in tips : /\ p = IF tip.id \in new THEN Credited(tip, delta) ELSE tip
                               /\ p \in Tip /\ p.id = tip.id /\ p.key = tip.key
  <2>1. PICK tip \in tips : p = IF tip.id \in new THEN Credited(tip, delta) ELSE tip
    BY <1>1, <1>4
  <2> WITNESS tip \in tips
  <2> QED
    BY <1>3, <2>1, CreditedTip
<1>5. \A p, q \in tips : p.id = q.id \/ p.key = q.key => p = q
  BY DEF TypeInv, RecordsTypeOK
<1>6. \A tip \in tips : tip.id <= inserted
  BY DEF TypeInv
<1>7. ASSUME NEW p \in tips', NEW q \in tips', p.id = q.id \/ p.key = q.key
      PROVE  p = q
  <2>1. PICK tp \in tips : /\ p = IF tp.id \in new THEN Credited(tp, delta) ELSE tp
                           /\ p.id = tp.id /\ p.key = tp.key
    BY <1>4
  <2>2. PICK tq \in tips : /\ q = IF tq.id \in new THEN Credited(tq, delta) ELSE tq
                           /\ q.id = tq.id /\ q.key = tq.key
    BY <1>4
  <2>3. tp = tq
    BY <1>5, <1>7, <2>1, <2>2
  <2> QED
    BY <2>1, <2>2, <2>3
<1>8. \A p \in tips' : p \in Tip /\ p.id <= inserted'
  BY <1>1, <1>4, <1>6
<1> QED
  BY <1>1, <1>2, <1>3, <1>7, <1>8 DEF TipRows

(* The ids of the rows one upsert inserts: each is used once, and above all *)
(* earlier ones.                                                            *)
LEMMA Ranks ==
  ASSUME NEW new \in SUBSET (1..MaxRaw)
  PROVE  /\ IsFiniteSet(new) /\ Cardinality(new) \in Nat
         /\ \A i \in new : Cardinality({j \in new : j <= i}) \in 1..Cardinality(new)
         /\ \A i, k \in new : Cardinality({j \in new : j <= i}) = Cardinality({j \in new : j <= k})
                              => i = k
<1>1. IsFiniteSet(new) /\ new \subseteq Nat /\ Cardinality(new) \in Nat
  <2>1. IsFiniteSet(1..MaxRaw)
    <3>1. MaxRaw \in Int
      BY RecordsAssumption
    <3> QED
      BY <3>1, FS_Interval
  <2>2. IsFiniteSet(new)
    BY <2>1, FS_Subset
  <2>3. Cardinality(new) \in Nat
    BY <2>2, FS_CardinalityType
  <2>4. \A i \in new : i \in Nat
    OBVIOUS
  <2> QED
    BY <2>2, <2>3, <2>4
<1> DEFINE Upto(i) == {j \in new : j <= i}
<1>2. ASSUME NEW i \in new
      PROVE  /\ IsFiniteSet(Upto(i)) /\ Cardinality(Upto(i)) \in Nat /\ i \in Upto(i)
             /\ Cardinality(Upto(i)) \in 1..Cardinality(new)
  <2>1. Upto(i) \in SUBSET new /\ i \in Upto(i)
    BY <1>1
  <2>2. /\ IsFiniteSet(Upto(i)) /\ Cardinality(Upto(i)) \in Nat
        /\ Cardinality(Upto(i)) <= Cardinality(new)
    BY <1>1, <2>1, FS_Subset, FS_CardinalityType
  <2>3. Cardinality(Upto(i)) # 0
    BY <2>1, <2>2, FS_EmptySet
  <2> QED
    BY <1>1, <2>1, <2>2, <2>3
<1>3. ASSUME NEW i \in new, NEW k \in new, i < k, Cardinality(Upto(i)) = Cardinality(Upto(k))
      PROVE  FALSE
  <2>a. \A j \in new : j \in Nat
    BY <1>1
  <2>b. /\ \A j \in new : j <= i => j <= k
        /\ k <= k /\ ~(k <= i)
    BY <1>3, <2>a
  <2>1. Upto(i) \in SUBSET Upto(k) /\ k \in Upto(k) /\ k \notin Upto(i)
    BY <2>b
  <2>2. Upto(i) = Upto(k)
    BY <1>2, <1>3, <2>1, FS_Subset
  <2> QED
    BY <2>1, <2>2
<1>4. \A i, k \in new : i < k \/ k < i \/ i = k
  BY <1>1
<1> HIDE DEF Upto
<1>5. \A i, k \in new : Cardinality(Upto(i)) = Cardinality(Upto(k)) => i = k
  BY <1>3, <1>4
<1> QED
  BY <1>1, <1>2, <1>5 DEF Upto

(* What an upsert inserts: fresh ids, for keys that have no row.            *)
LEMMA UpsertedTips ==
  ASSUME TypeInv, NEW l \in Learner, UpsertHeadsUpTips(l)
  PROVE  \E added \in SUBSET Tip :
           /\ tips' = tips \cup added
           /\ inserted' \in 0..MaxTips /\ inserted <= inserted'
           /\ \A tip \in added : /\ tip = NewTip(tip.id, tip.key)
                                 /\ tip.id > inserted /\ tip.id <= inserted'
           /\ \A p \in tips, q \in added : p.key # q.key
           /\ \A p, q \in added : p.id = q.id \/ p.key = q.key => p = q
<1> DEFINE new == IF Refused(l) THEN {} ELSE Missing(l)
           todo == learner[l].todo
           Id(i) == inserted + Cardinality({j \in new : j <= i})
           added == {NewTip(Id(i), todo[i]) : i \in new}
<1>1. /\ inserted + Cardinality(new) <= MaxTips
      /\ tips' = tips \cup added
      /\ inserted' = inserted + Cardinality(new)
  BY DEF UpsertHeadsUpTips
<1>2. PICK K \in SUBSET (1..MaxRaw) : todo \in [K -> Key]
  <2>1. learner[l] \in LearnerState
    BY DEF TypeInv, RecordsTypeOK
  <2> QED
    BY <2>1 DEF LearnerState
<1>3. new \in SUBSET K
  BY <1>2 DEF Missing
<1>4. \A i, j \in new : todo[i] = todo[j] => i = j
  BY <1>2, <1>3 DEF TypeInv
<1>5. ASSUME NEW i \in new
      PROVE  /\ todo[i] \in Key
             /\ \A tip \in tips : tip.key # todo[i]
  <2>1. FoundAs(todo[i]) = 0
    BY <1>2, <1>3 DEF Missing, Refused
  <2> QED
    BY <1>2, <1>3, <2>1, FoundAsType
<1>6. inserted \in Nat /\ MaxTips \in Nat
  BY RecordsAssumption DEF TypeInv, RecordsTypeOK
<1> HIDE DEF new, todo
<1>7. /\ Cardinality(new) \in Nat
      /\ \A i \in new : Id(i) - inserted \in 1..Cardinality(new)
      /\ \A i, k \in new : Id(i) = Id(k) => i = k
  <2> DEFINE rank(i) == Cardinality({j \in new : j <= i})
  <2>1. /\ Cardinality(new) \in Nat
        /\ \A i \in new : rank(i) \in 1..Cardinality(new)
        /\ \A i, k \in new : rank(i) = rank(k) => i = k
    BY <1>3, Ranks
  <2>2. \A i \in new : Id(i) = inserted + rank(i)
    OBVIOUS
  <2> HIDE DEF rank, Id
  <2> QED
    BY <1>6, <2>1, <2>2
<1>8. \A i \in new : Id(i) \in 1..MaxTips /\ Id(i) > inserted /\ Id(i) <= inserted'
  <2> SUFFICES ASSUME NEW i \in new
               PROVE  Id(i) \in 1..MaxTips /\ Id(i) > inserted /\ Id(i) <= inserted'
    OBVIOUS
  <2>1. PICK r \in 1..Cardinality(new) : Id(i) - inserted = r
    BY <1>7
  <2>2. Id(i) = inserted + r
    <3>1. PICK x \in Nat : Id(i) = inserted + x
      BY <1>3, Ranks
    <3> HIDE DEF Id
    <3> QED
      BY <1>6, <2>1, <3>1
  <2> HIDE DEF Id
  <2> QED
    BY <1>1, <1>6, <1>7, <2>2
<1> HIDE DEF Id
<1>9. ASSUME NEW i \in new
      PROVE  /\ NewTip(Id(i), todo[i]) \in Tip
             /\ NewTip(Id(i), todo[i]).id = Id(i) /\ NewTip(Id(i), todo[i]).key = todo[i]
  <2>1. <<1, 2>> \in Score
    BY DEF Score
  <2> QED
    BY <1>5, <1>8, <2>1 DEF NewTip, Tip
<1>10. added \in SUBSET Tip
  BY <1>9
<1>11. \A tip \in added : \E i \in new : tip = NewTip(Id(i), todo[i]) /\ tip.id = Id(i)
                                         /\ tip.key = todo[i]
  BY <1>9
<1> WITNESS added \in SUBSET Tip
<1> HIDE DEF added
<1> QED
  BY <1>1, <1>4, <1>5, <1>6, <1>7, <1>8, <1>11

LEMMA TipRowsStep ==
  ASSUME TypeInv, [Next]_vars
  PROVE  TipRows'
<1>1. TipRows
  BY DEF TypeInv, RecordsTypeOK, TipRows
<1>2. CASE UNCHANGED tipVars
  BY <1>1, <1>2 DEF tipVars, TipRows
<1>3. ASSUME NEW l \in Learner, UpsertHeadsUpTips(l)
      PROVE  TipRows'
  <2>1. PICK added \in SUBSET Tip :
           /\ tips' = tips \cup added
           /\ inserted' \in 0..MaxTips /\ inserted <= inserted'
           /\ \A tip \in added : tip.id > inserted /\ tip.id <= inserted'
           /\ \A p \in tips, q \in added : p.key # q.key
           /\ \A p, q \in added : p.id = q.id \/ p.key = q.key => p = q
    BY <1>3, UpsertedTips
  <2>2. usage' = usage
    BY <1>3 DEF UpsertHeadsUpTips
  <2>3. \A tip \in Tip : tip.id \in 1..MaxTips
    BY DEF Tip
  <2>4. \A tip \in tips : tip.id \in 1..MaxTips /\ tip.id <= inserted
    BY <1>1, <2>3 DEF TipRows
  <2>5. MaxTips \in Nat /\ inserted \in 0..MaxTips
    BY <1>1, RecordsAssumption DEF TipRows
  <2>6. \A tip \in tips' : tip \in Tip /\ tip.id <= inserted'
    BY <1>1, <2>1, <2>4, <2>5 DEF TipRows
  <2>7. \A p \in tips, q \in added : p.id # q.id
    BY <2>1, <2>3, <2>4, <2>5
  <2>8. \A p, q \in tips' : p.id = q.id \/ p.key = q.key => p = q
    BY <1>1, <2>1, <2>7 DEF TipRows
  <2> QED
    BY <1>1, <2>1, <2>2, <2>6, <2>8 DEF TipRows
<1>4. CASE ClearHeadsUpTips
  BY <1>1, <1>4 DEF ClearHeadsUpTips, TipRows
<1> QED
  BY <1>2, <1>3, <1>4, RecordedRows, TipsStep

LEMMA LearnerType ==
  ASSUME TypeInv, [Next]_vars
  PROVE  /\ learner' \in [Learner -> LearnerState]
         /\ \A l \in Learner : \A i, j \in DOMAIN learner'[l].todo :
              learner'[l].todo[i] = learner'[l].todo[j] => i = j
<1> DEFINE Distinct(s) == \A i, j \in DOMAIN s.todo : s.todo[i] = s.todo[j] => i = j
<1>0. learner \in [Learner -> LearnerState] /\ \A l \in Learner : Distinct(learner[l])
  BY DEF TypeInv, RecordsTypeOK
<1>1. ASSUME NEW l \in Learner, NEW s \in LearnerState, Distinct(s),
             learner' = [learner EXCEPT ![l] = s]
      PROVE  /\ learner' \in [Learner -> LearnerState]
             /\ \A k \in Learner : Distinct(learner'[k])
  <2>1. \A k \in Learner : learner'[k] = IF k = l THEN s ELSE learner[k]
    BY <1>0, <1>1
  <2> HIDE DEF Distinct
  <2> QED
    BY <1>0, <1>1, <2>1
<1>2. Idle \in LearnerState /\ Distinct(Idle)
  BY IdleType
<1>3. ASSUME NEW l \in Learner, StartLearning(l) \/ Distil(l) \/ UpsertHeadsUpTips(l)
      PROVE  \E s \in LearnerState : /\ learner' = [learner EXCEPT ![l] = s]
                                     /\ Distinct(s)
  <2>1. CASE StartLearning(l)
    <3> DEFINE s == [learner[l] EXCEPT !.phase = "reading"]
    <3>1. s \in LearnerState /\ s.todo = learner[l].todo
      BY <1>0 DEF LearnerState
    <3>2. learner' = [learner EXCEPT ![l] = s]
      BY <1>0, <2>1 DEF StartLearning
    <3> HIDE DEF s
    <3>3. Distinct(s)
      BY <1>0, <3>1
    <3> QED
      BY <3>1, <3>2, <3>3
  <2>2. CASE UpsertHeadsUpTips(l) \/ learner' = [learner EXCEPT ![l] = Idle]
    BY <1>2, <2>2 DEF UpsertHeadsUpTips
  <2>3. ASSUME NEW raw \in BoundedSeq(Proposal, MaxRaw) \ {<<>>},
               learner' = [learner EXCEPT ![l] =
                        [phase |-> "upserting", todo |-> NormalizeDistilledTips(raw),
                         found |-> FoundAs(NormalizeDistilledTips(raw)[1])]]
        PROVE  \E s \in LearnerState : /\ learner' = [learner EXCEPT ![l] = s]
                                       /\ Distinct(s)
    <3> DEFINE n == NormalizeDistilledTips(raw)
               s == [phase |-> "upserting", todo |-> n, found |-> FoundAs(n[1])]
    <3>1. /\ n \in UNION {[K -> Key] : K \in SUBSET (1..MaxRaw)}
          /\ \A i, j \in DOMAIN n : n[i] = n[j] => i = j
      BY NormalizedTips
    <3>2. learner' = [learner EXCEPT ![l] = s]
      BY <2>3
    <3> HIDE DEF n
    <3>3. FoundAs(n[1]) \in 0..MaxTips
      BY FoundAsType
    <3>4. s \in LearnerState /\ s.todo = n
      BY <3>1, <3>3 DEF LearnerState
    <3> HIDE DEF s
    <3> QED
      BY <3>1, <3>2, <3>4
  <2> HIDE DEF Distinct
  <2> QED
    BY <1>3, <2>1, <2>2, <2>3 DEF Distil
<1> HIDE DEF Distinct
<1>4. /\ learner' \in [Learner -> LearnerState]
      /\ \A k \in Learner : Distinct(learner'[k])
  <2>1. CASE UNCHANGED learner
    BY <1>0, <2>1
  <2> QED
    BY <1>1, <1>3, <2>1, LearnerStep
<1> QED
  BY <1>4 DEF Distinct

LEMMA TypeInit == Init => TypeInv
<1> SUFFICES ASSUME Init
             PROVE  TypeInv
  OBVIOUS
<1>1. QueueTypeOK
  BY QueueInitType DEF Init
<1>2. 0 \in 0..MaxClaims /\ 0 \in 0..MaxEvents
  BY RecordsAssumption
<1>3. /\ worker \in [Worker -> Attempt]
      /\ \A w \in Worker : Shape(worker[w])
  <2>1. NoAttempt("top") \in Attempt /\ NoAttempt("top").phase = "top"
    BY NoAttemptType DEF Phase
  <2>2. worker = [w \in Worker |-> NoAttempt("top")]
    BY DEF Init
  <2> QED
    BY <2>1, <2>2 DEF Shape, Resting
<1>4. /\ claims \in [Task -> 0..MaxClaims] /\ issued \in 0..MaxClaims
      /\ \A t \in Task : claims[t] <= issued
  BY <1>2 DEF Init
<1>5. bundle \in [Task -> [0..MaxClaims -> Bundle]]
  <2>1. [meta |-> 0, raw |-> 0] \in Bundle
    BY <1>2, TornFile DEF Bundle
  <2> QED
    BY <2>1 DEF Init
<1>6. TipRows
  <2>1. PICK old \in BoundedSeq(Key, MaxTips - 1) :
          /\ IsInjective(old)
          /\ tips = {NewTip(i, old[i]) : i \in DOMAIN old}
          /\ inserted = Len(old)
    BY DEF Init
  <2>2. PICK m \in 0..(MaxTips - 1) : old \in [1..m -> Key]
    BY DEF BoundedSeq, SeqOf
  <2>3. m \in Nat /\ m < MaxTips /\ MaxTips \in Nat
    BY RecordsAssumption
  <2>4. inserted = m
    BY <2>1, <2>2, <2>3
  <2>5. ASSUME NEW i \in 1..m
        PROVE  /\ NewTip(i, old[i]) \in Tip
               /\ NewTip(i, old[i]).id = i /\ NewTip(i, old[i]).key = old[i]
    <3>1. i \in 1..MaxTips /\ old[i] \in Key
      BY <2>2, <2>3
    <3>2. <<1, 2>> \in Score
      BY DEF Score
    <3> QED
      BY <3>1, <3>2 DEF NewTip, Tip
  <2>6. \A tip \in tips : \E i \in 1..m : /\ tip = NewTip(i, old[i]) /\ tip \in Tip
                                          /\ tip.id = i /\ tip.key = old[i]
    BY <2>1, <2>2, <2>5
  <2>7. \A i, j \in 1..m : old[i] = old[j] => i = j
    BY <2>1, <2>2 DEF IsInjective
  <2>8. \A p, q \in tips : p.id = q.id \/ p.key = q.key => p = q
    BY <2>6, <2>7
  <2>9. \A tip \in tips : tip \in Tip /\ tip.id <= inserted
    BY <2>3, <2>4, <2>6
  <2>10. inserted \in 0..MaxTips
    BY <2>3, <2>4
  <2>11. usage = {}
    BY DEF Init
  <2> QED
    BY <2>8, <2>9, <2>10, <2>11 DEF TipRows
<1>7. /\ learner \in [Learner -> LearnerState]
      /\ \A l \in Learner : \A i, j \in DOMAIN learner[l].todo :
           learner[l].todo[i] = learner[l].todo[j] => i = j
  <2>1. learner = [l \in Learner |-> Idle]
    BY DEF Init
  <2> QED
    BY <2>1, IdleType
<1>8. history \in History
  BY DEF Init, History
<1>9. forensics = {} /\ events = 0 /\ benchmark \in BOOLEAN
  BY DEF Init
<1> QED
  BY <1>1, <1>2, <1>3, <1>4, <1>5, <1>6, <1>7, <1>8, <1>9 DEF TypeInv, RecordsTypeOK, TipRows

LEMMA TypeStep ==
  ASSUME TypeInv, [Next]_vars
  PROVE  TypeInv'
<1>1. QueueTypeOK'
  BY QueueStep
<1>2. worker' \in [Worker -> Attempt]
  BY WorkerStep
<1>3. \A w \in Worker : Shape(worker[w])'
  BY ShapeStep
<1>4. /\ claims' \in [Task -> 0..MaxClaims] /\ issued' \in 0..MaxClaims
      /\ \A t \in Task : claims'[t] <= issued'
  BY ClaimsType
<1>5. bundle' \in [Task -> [0..MaxClaims -> Bundle]]
  BY BundleStep
<1>6. forensics' \subseteq [id : 1..MaxClaims, task : Task, index : 0..MaxClaims, raw : BOOLEAN]
  BY ForensicsStep
<1>7. TipRows'
  BY TipRowsStep
<1>8. /\ learner' \in [Learner -> LearnerState]
      /\ \A l \in Learner : \A i, j \in DOMAIN learner'[l].todo :
           learner'[l].todo[i] = learner'[l].todo[j] => i = j
  BY LearnerType
<1>9. history' \in History
  BY HistoryStep
<1>10. events' \in 0..MaxEvents
  BY EventsStep
<1>11. benchmark' \in BOOLEAN
  BY ModeStep DEF TypeInv, RecordsTypeOK
<1> QED
  BY <1>1, <1>2, <1>3, <1>4, <1>5, <1>6, <1>7, <1>8, <1>9, <1>10, <1>11 DEF TypeInv, RecordsTypeOK, TipRows

(* The types, and the shape of an attempt, always hold.                     *)
LEMMA Typing == Spec => []TypeInv
<1>1. Init => TypeInv
  BY TypeInit
<1>2. TypeInv /\ [Next]_vars => TypeInv'
  BY TypeStep
<1> QED
  BY <1>1, <1>2, PTL DEF Spec

(* Every column of the records has its type, and concurrent learners never  *)
(* insert two tips with one tip_id or for one signature and text            *)
(* (db.py, the unique index of heads_up_tips).                              *)
THEOREM RecordsTyped == Spec => []RecordsTypeOK
<1>1. TypeInv => RecordsTypeOK
  BY DEF TypeInv
<1> QED
  BY <1>1, Typing, PTL

------------------------------------------------------------------------------
(* Outcomes: a usage row stands for an end that the queue accepted. *)

LEMMA EndRemembered ==
  ASSUME TypeInv, NEW w \in Worker, NEW o, Ended(w, o), Owns(worker[w].task, worker[w].token)
  PROVE  [task |-> worker[w].task, outcome |-> o, tips |-> worker[w].tips] \in history'.ended
<1> DEFINE e == [task |-> worker[w].task, outcome |-> o, tips |-> worker[w].tips]
<1>1. history \in History
  BY DEF TypeInv
<1>2. history' = [history EXCEPT !.ended = history.ended \cup {e}]
  BY DEF Ended
<1> HIDE DEF e
<1>3. e \in history'.ended
  BY <1>1, <1>2 DEF History
<1> QED
  BY <1>3 DEF e

LEMMA OutcomeStep ==
  ASSUME TypeInv, OutcomeInv, [Next]_vars
  PROVE  OutcomeInv'
<1>1. history.ended \subseteq history'.ended
  BY HistoryStep
<1>2. ASSUME NEW v \in Worker
      PROVE  /\ At(v, "promoted")' => [task |-> worker'[v].task, outcome |-> "done",
                                       tips |-> worker'[v].tips] \in history'.ended
             /\ At(v, "erred")' => [task |-> worker'[v].task, outcome |-> "error",
                                    tips |-> worker'[v].tips] \in history'.ended
  <2>1. CASE worker'[v] = worker[v]
    BY <1>1, <2>1 DEF OutcomeInv, At
  <2>2. CASE Leased(v)
    BY <2>2 DEF Leased, At
  <2>3. CASE Rested(v)
    <3>1. PICK p \in Resting : worker'[v] = NoAttempt(p)
      BY <2>3 DEF Rested
    <3> QED
      BY <3>1, NoAttemptType DEF Resting, Phase, At
  <2>4. CASE Advanced(v) /\ worker'[v].phase = "promoted"
    <3>1. /\ Promote(v) \/ ArtifactsWritten(v)
          /\ Owns(worker[v].task, worker[v].token)
          /\ worker'[v].tips = worker[v].tips /\ worker'[v].task = worker[v].task
      BY <2>4 DEF Advanced, SameClaim
    <3>2. Ended(v, "done")
      BY <3>1 DEF Promote, ArtifactsWritten, Finish
    <3>3. [task |-> worker[v].task, outcome |-> "done", tips |-> worker[v].tips] \in history'.ended
      BY <3>1, <3>2, EndRemembered
    <3> QED
      BY <2>4, <3>1, <3>3 DEF At
  <2>5. CASE Advanced(v) /\ worker'[v].phase = "erred"
    <3>1. EndAttempt(v) /\ worker[v].terminal /\ Owns(worker[v].task, worker[v].token)
          /\ worker'[v].tips = worker[v].tips /\ worker'[v].task = worker[v].task
      BY <2>5 DEF Advanced, SameClaim
    <3>2. Ended(v, "error")
      BY <3>1 DEF EndAttempt
    <3>3. [task |-> worker[v].task, outcome |-> "error", tips |-> worker[v].tips]
            \in history'.ended
      BY <3>1, <3>2, EndRemembered
    <3> QED
      BY <2>5, <3>1, <3>3 DEF At
  <2>6. CASE worker'[v].phase \notin {"promoted", "erred"}
    BY <2>6 DEF At
  <2> QED
    BY <2>1, <2>2, <2>3, <2>4, <2>5, <2>6, WorkerStep
<1>3. UsageTellsOutcome'
  <2> SUFFICES ASSUME NEW u \in usage'
               PROVE  \E e \in history'.ended :
                        e.task = u.task /\ e.outcome = u.outcome /\ u.tip \in e.tips
    BY DEF UsageTellsOutcome
  <2>1. CASE u \in usage
    BY <1>1, <2>1 DEF OutcomeInv, UsageTellsOutcome
  <2>2. ASSUME u \notin usage, NEW w \in Worker, NEW o \in {"done", "error"}, Recorded(w, o)
        PROVE  \E e \in history'.ended :
                 e.task = u.task /\ e.outcome = u.outcome /\ u.tip \in e.tips
    <3>1. PICK new \in SUBSET worker[w].tips :
            usage' = usage \cup {[task |-> worker[w].task, tip |-> i, outcome |-> o] : i \in new}
      BY <2>2, RecordedTips
    <3>2. PICK i \in worker[w].tips : u = [task |-> worker[w].task, tip |-> i, outcome |-> o]
      BY <2>2, <3>1
    <3>3. [task |-> worker[w].task, outcome |-> o, tips |-> worker[w].tips] \in history.ended
      BY <2>2 DEF OutcomeInv, Recorded
    <3> QED
      BY <1>1, <3>2, <3>3
  <2>3. ASSUME u \notin usage, NEW l \in Learner, UpsertHeadsUpTips(l)
        PROVE  FALSE
    BY <2>3 DEF UpsertHeadsUpTips
  <2>4. ASSUME u \notin usage, UNCHANGED tipVars \/ ClearHeadsUpTips
        PROVE  FALSE
    BY <2>4 DEF tipVars, ClearHeadsUpTips
  <2> QED
    BY <2>1, <2>2, <2>3, <2>4, TipsStep
<1> QED
  BY <1>2, <1>3 DEF OutcomeInv

(* An outcome is held against a tip only if the queue accepted it from an   *)
(* attempt whose prompt carried the tip (worker.py, `if transitioned and    *)
(* applied_tip_ids').                                                       *)
THEOREM OutcomesAccepted == Spec => []UsageTellsOutcome
<1>1. Init => OutcomeInv
  <2> SUFFICES ASSUME Init
               PROVE  OutcomeInv
    OBVIOUS
  <2>1. usage = {} /\ worker = [w \in Worker |-> NoAttempt("top")]
    BY DEF Init
  <2>2. NoAttempt("top").phase = "top"
    BY NoAttemptType DEF Phase
  <2> QED
    BY <2>1, <2>2 DEF OutcomeInv, UsageTellsOutcome, At
<1>2. TypeInv /\ OutcomeInv /\ [Next]_vars => OutcomeInv'
  BY OutcomeStep
<1>3. OutcomeInv => UsageTellsOutcome
  BY DEF OutcomeInv
<1> QED
  BY <1>1, <1>2, <1>3, Typing, PTL DEF Spec

------------------------------------------------------------------------------
(* Captures: what is on disk before a row names it. *)

LEMMA CaptureStep ==
  ASSUME TypeInv, CaptureInv, [Next]_vars
  PROVE  CaptureInv'
(* A file that is there stays there.                                        *)
<1>1. ASSUME NEW t \in Task, NEW i \in 0..MaxClaims
      PROVE  /\ bundle[t][i].meta # 0 => bundle'[t][i].meta # 0
             /\ bundle[t][i].raw # 0 => bundle'[t][i].raw # 0
  <2>1. CASE bundle' = bundle
    BY <2>1
  <2>2. ASSUME NEW w \in Worker, worker[w].phase \notin Resting, NEW n,
               n \in {Torn, worker[w].token},
               bundle'[t][i].raw \in {n, bundle[t][i].raw},
               bundle'[t][i].meta \in {n, bundle[t][i].meta}
        PROVE  /\ bundle[t][i].meta # 0 => bundle'[t][i].meta # 0
               /\ bundle[t][i].raw # 0 => bundle'[t][i].raw # 0
    <3>1. n # 0
      BY <2>2, BusyClaim, TokenRange, TornFile
    <3> QED
      BY <2>2, <3>1
  <2>3. CASE bundle'[t][i] = bundle[t][i]
    BY <2>3
  <2> QED
    BY <2>1, <2>2, <2>3, BundleStep
<1>2. ASSUME NEW v \in Worker
      PROVE  Captured(v)'
  <2>0. \A w \in Worker : worker[w].index \in 0..MaxClaims
    BY DEF TypeInv, RecordsTypeOK, Attempt
  <2>1. CASE worker'[v] = worker[v]
    <3>1. CASE worker[v].phase \in {"copied", "described"}
      <4>1. worker[v].task \in Task
        BY <3>1, BusyClaim DEF Resting
      <4> QED
        BY <1>1, <2>0, <2>1, <4>1 DEF CaptureInv, Captured, At
    <3>2. CASE worker[v].phase \notin {"copied", "described"}
      BY <2>1, <3>2 DEF Captured, At
    <3> QED
      BY <3>1, <3>2
  <2>2. CASE worker'[v].phase \notin {"copied", "described"}
    BY <2>2 DEF Captured, At
  <2>3. CASE Advanced(v) /\ worker'[v].phase = "copied"
    <3>1. CopyOutput(v) /\ worker'[v].raw = worker[v].staged /\ SameClaim(v)
          /\ worker[v].phase \notin Resting
      BY <2>3 DEF Advanced
    <3>2. worker[v].task \in Task /\ worker[v].token # 0
      BY <3>1, BusyClaim, TokenRange
    <3>3. worker[v].staged => bundle'[worker[v].task][worker[v].index].raw = worker[v].token
      BY <2>0, <3>1, <3>2, CopiedFiles DEF OwnFile
    <3> QED
      BY <2>3, <3>1, <3>2, <3>3 DEF Captured, At, SameClaim
  <2>4. CASE Advanced(v) /\ worker'[v].phase = "described"
    <3>1. WriteMetadata(v) /\ worker'[v].raw = worker[v].raw /\ SameClaim(v)
          /\ worker[v].phase \notin Resting
      BY <2>4 DEF Advanced
    <3>2. worker[v].task \in Task /\ worker[v].token # 0
      BY <3>1, BusyClaim, TokenRange
    <3>3. bundle'[worker[v].task][worker[v].index].meta = worker[v].token
      BY <2>0, <3>1, <3>2, DescribedFiles DEF OwnFile
    <3>4. worker[v].raw => bundle[worker[v].task][worker[v].index].raw # 0
      BY <3>1 DEF CaptureInv, Captured, WriteMetadata, At
    <3>5. worker[v].raw => bundle'[worker[v].task][worker[v].index].raw # 0
      BY <1>1, <2>0, <3>2, <3>4
    <3> QED
      BY <2>4, <3>1, <3>2, <3>3, <3>5 DEF Captured, At, SameClaim
  <2>5. CASE Leased(v)
    BY <2>2, <2>5 DEF Leased
  <2>6. CASE Rested(v)
    <3>1. PICK p \in Resting : worker'[v] = NoAttempt(p)
      BY <2>6 DEF Rested
    <3>2. worker'[v].phase \in Resting
      BY <3>1, NoAttemptType DEF Resting, Phase
    <3> QED
      BY <2>2, <3>2 DEF Resting
  <2> QED
    BY <2>1, <2>2, <2>3, <2>4, <2>5, <2>6, WorkerStep
<1>3. RowsHaveBundles'
  <2> SUFFICES ASSUME NEW r \in forensics'
               PROVE  /\ bundle'[r.task][r.index].meta # 0
                      /\ r.raw => bundle'[r.task][r.index].raw # 0
    BY DEF RowsHaveBundles
  <2>1. r.task \in Task /\ r.index \in 0..MaxClaims
    BY ForensicsStep
  <2>2. CASE r \in forensics
    BY <1>1, <2>1, <2>2 DEF CaptureInv, RowsHaveBundles
  <2>3. ASSUME NEW w \in Worker, worker[w].phase = "described", r = ForensicsRow(w)
        PROVE  /\ bundle[r.task][r.index].meta # 0
               /\ r.raw => bundle[r.task][r.index].raw # 0
    <3>1. r.task = worker[w].task /\ r.index = worker[w].index /\ r.raw = worker[w].raw
      BY <2>3 DEF ForensicsRow, AttemptPart
    <3> QED
      BY <2>3, <3>1 DEF CaptureInv, Captured, At
  <2>4. CASE r \notin forensics
    <3>1. PICK w \in Worker : worker[w].phase = "described" /\ r = ForensicsRow(w)
      BY <2>4, ForensicsStep
    <3> QED
      BY <1>1, <2>1, <2>3, <3>1
  <2> QED
    BY <2>2, <2>4
<1> QED
  BY <1>2, <1>3 DEF CaptureInv

(* The forensics index never names a bundle without metadata, nor a raw     *)
(* output that is not there, wherever a capture broke off                   *)
(* (forensics.py, capture_failure_forensics).                               *)
THEOREM BundlesFirst == Spec => []RowsHaveBundles
<1>1. Init => CaptureInv
  <2> SUFFICES ASSUME Init
               PROVE  CaptureInv
    OBVIOUS
  <2>1. forensics = {} /\ worker = [w \in Worker |-> NoAttempt("top")]
    BY DEF Init
  <2>2. NoAttempt("top").phase = "top"
    BY NoAttemptType DEF Phase
  <2> QED
    BY <2>1, <2>2 DEF CaptureInv, Captured, RowsHaveBundles, At
<1>2. TypeInv /\ CaptureInv /\ [Next]_vars => CaptureInv'
  BY CaptureStep
<1>3. CaptureInv => RowsHaveBundles
  BY DEF CaptureInv
<1> QED
  BY <1>1, <1>2, <1>3, Typing, PTL DEF Spec

------------------------------------------------------------------------------
(* Scores: what is credited to a tip is counted in its usage rows. *)

DoneIn(rows) == {u \in rows : u.outcome = "done"}

(* A tip with these usage rows.                                             *)
Tells(tip, rows) ==
  /\ IsFiniteSet(rows)
  /\ tip.uses = Cardinality(rows)
  /\ tip.wins = Cardinality(DoneIn(rows))
  /\ tip.score = <<tip.wins + 1, tip.uses + 2>>

LEMMA ScoreParts ==
  ScoreInv <=> /\ \A u \in usage : \E tip \in tips : tip.id = u.tip
               /\ \A tip \in tips : Tells(tip, Of(tip.id))
BY DEF ScoreInv, ScoresTellUsage, Tells, Of, DoneIn

(* One more row, and one more use with it.                                  *)
LEMMA OneMoreRow ==
  ASSUME NEW tip \in Tip, NEW rows, Tells(tip, rows),
         NEW o \in {"done", "error"}, NEW r, r \notin rows, r.outcome = o,
         NEW delta \in 0..1, delta = IF o = "done" THEN 1 ELSE 0
  PROVE  Tells(Credited(tip, delta), rows \cup {r})
<1> DEFINE c == Credited(tip, delta)
<1>1. /\ c.uses = tip.uses + 1 /\ c.wins = tip.wins + delta
      /\ c.score = <<tip.wins + delta + 1, tip.uses + 3>>
  BY CreditedTip
<1>2. tip.uses \in Nat /\ tip.wins \in Nat /\ delta \in Nat
  BY DEF Tip
<1>3. IsFiniteSet(rows \cup {r}) /\ Cardinality(rows \cup {r}) = Cardinality(rows) + 1
  BY FS_AddElement DEF Tells
<1>4. IsFiniteSet(DoneIn(rows)) /\ r \notin DoneIn(rows)
  <2>1. DoneIn(rows) \in SUBSET rows
    BY DEF DoneIn
  <2> QED
    BY <2>1, FS_Subset DEF Tells
<1>5. DoneIn(rows \cup {r}) = IF o = "done" THEN DoneIn(rows) \cup {r} ELSE DoneIn(rows)
  BY DEF DoneIn
<1>6. Cardinality(DoneIn(rows \cup {r})) = Cardinality(DoneIn(rows)) + delta
  <2>1. CASE o = "done"
    BY <1>4, <1>5, <2>1, FS_AddElement
  <2>2. CASE o # "done"
    <3>1. delta = 0 /\ DoneIn(rows \cup {r}) = DoneIn(rows)
      BY <1>5, <2>2
    <3>2. Cardinality(DoneIn(rows)) \in Nat
      BY <1>4, FS_CardinalityType
    <3> QED
      BY <3>1, <3>2
  <2> QED
    BY <2>1, <2>2
<1>7. c.uses + 2 = tip.uses + 3
  BY <1>1, <1>2
<1> HIDE DEF c
<1>8. Tells(c, rows \cup {r})
  BY <1>1, <1>3, <1>6, <1>7 DEF Tells
<1> QED
  BY <1>8 DEF c

LEMMA RecordedScores ==
  ASSUME TypeInv, ScoreInv, NEW w \in Worker, NEW o \in {"done", "error"}, Recorded(w, o)
  PROVE  ScoreInv'
<1>0. /\ \A u \in usage : \E tip \in tips : tip.id = u.tip
      /\ \A tip \in tips : Tells(tip, Of(tip.id))
  BY ScoreParts
<1>1. PICK delta \in 0..1, new \in SUBSET worker[w].tips :
        /\ delta = IF o = "done" THEN 1 ELSE 0
        /\ worker[w].task \in Task
        /\ new \subseteq 1..MaxTips
        /\ \A i \in new : \E tip \in tips : tip.id = i
        /\ \A i \in new : ~\E u \in usage : u.task = worker[w].task /\ u.tip = i
        /\ usage' = usage \cup {[task |-> worker[w].task, tip |-> i, outcome |-> o] : i \in new}
        /\ tips' = {IF tip.id \in new THEN Credited(tip, delta) ELSE tip : tip \in tips}
        /\ inserted' = inserted
  BY RecordedTips
<1> DEFINE Added(i) == [task |-> worker[w].task, tip |-> i, outcome |-> o]
           F(tip) == IF tip.id \in new THEN Credited(tip, delta) ELSE tip
<1>2. tips \subseteq Tip
  BY DEF TypeInv, RecordsTypeOK
<1>3. \A tip \in tips : F(tip) \in tips' /\ F(tip).id = tip.id
  BY <1>1, <1>2, CreditedTip
<1>4. \A u \in usage' : \E tip \in tips' : tip.id = u.tip
  <2> SUFFICES ASSUME NEW u \in usage'
               PROVE  \E tip \in tips : tip.id = u.tip
    BY <1>3
  <2>1. CASE u \in usage
    BY <1>0, <2>1
  <2>2. CASE u \notin usage
    <3>1. PICK i \in new : u = Added(i)
      BY <1>1, <2>2
    <3> QED
      BY <1>1, <3>1
  <2> QED
    BY <2>1, <2>2
<1>5. ASSUME NEW tip \in tips
      PROVE  Tells(F(tip), {u \in usage' : u.tip = tip.id})
  <2>1. CASE tip.id \in new
    <3>1. {u \in usage' : u.tip = tip.id} = Of(tip.id) \cup {Added(tip.id)}
      <4>1. usage' = usage \cup {Added(i) : i \in new}
        BY <1>1
      <4>2. \A i \in new : Added(i).tip = i
        OBVIOUS
      <4> HIDE DEF Added
      <4> QED
        BY <2>1, <4>1, <4>2 DEF Of
    <3>2. Added(tip.id) \notin Of(tip.id) /\ Added(tip.id).outcome = o
      BY <1>1, <2>1 DEF Of
    <3>3. Tells(tip, Of(tip.id)) /\ tip \in Tip
      BY <1>0, <1>2
    <3>4. PICK r : r = Added(tip.id)
      OBVIOUS
    <3>5. Tells(Credited(tip, delta), Of(tip.id) \cup {r})
      <4> HIDE DEF Added
      <4> QED
        BY <1>1, <3>2, <3>3, <3>4, OneMoreRow
    <3>6. F(tip) = Credited(tip, delta)
      BY <2>1
    <3> HIDE DEF F
    <3> QED
      BY <3>1, <3>4, <3>5, <3>6
  <2>2. CASE tip.id \notin new
    <3>1. {u \in usage' : u.tip = tip.id} = Of(tip.id)
      BY <1>1, <2>2 DEF Of
    <3> QED
      BY <1>0, <2>2, <3>1
  <2> QED
    BY <2>1, <2>2
<1>6. \A tip \in tips' : Tells(tip, {u \in usage' : u.tip = tip.id})
  <2> SUFFICES ASSUME NEW tip \in tips'
               PROVE  Tells(tip, {u \in usage' : u.tip = tip.id})
    OBVIOUS
  <2>1. PICK p \in tips : tip = F(p)
    BY <1>1
  <2>2. tip.id = p.id
    BY <1>3, <2>1
  <2> HIDE DEF F
  <2> QED
    BY <1>5, <2>1, <2>2
<1> QED
  BY <1>4, <1>6 DEF ScoreInv, ScoresTellUsage, Tells, Of, DoneIn

LEMMA ScoreStep ==
  ASSUME TypeInv, ScoreInv, [Next]_vars
  PROVE  ScoreInv'
<1>1. CASE UNCHANGED tipVars
  BY <1>1 DEF tipVars, ScoreInv, ScoresTellUsage, Of
<1>2. CASE ClearHeadsUpTips
  BY <1>2 DEF ClearHeadsUpTips, ScoreInv, ScoresTellUsage
<1>3. ASSUME NEW l \in Learner, UpsertHeadsUpTips(l)
      PROVE  ScoreInv'
  <2>0. /\ \A u \in usage : \E tip \in tips : tip.id = u.tip
        /\ \A tip \in tips : Tells(tip, Of(tip.id))
    BY ScoreParts
  <2>1. PICK added \in SUBSET Tip :
           /\ tips' = tips \cup added
           /\ \A tip \in added : tip = NewTip(tip.id, tip.key) /\ tip.id > inserted
    BY <1>3, UpsertedTips
  <2>2. usage' = usage
    BY <1>3 DEF UpsertHeadsUpTips
  <2>3. ASSUME NEW tip \in added
        PROVE  Tells(tip, Of(tip.id))
    <3>1. \A x \in Tip : x.id \in Nat
      BY RecordsAssumption DEF Tip
    <3>2. \A x \in tips : x.id \in Nat /\ x.id <= inserted
      BY <3>1 DEF TypeInv, RecordsTypeOK
    <3>3. inserted \in Nat /\ tip.id \in Nat
      BY <3>1, RecordsAssumption DEF TypeInv, RecordsTypeOK
    <3>4. \A x \in tips : x.id # tip.id
      BY <2>1, <3>2, <3>3
    <3>5. Of(tip.id) = {}
      BY <2>0, <3>4 DEF Of
    <3>6. tip.uses = 0 /\ tip.wins = 0 /\ tip.score = <<1, 2>>
      BY <2>1 DEF NewTip
    <3> QED
      BY <3>5, <3>6, FS_EmptySet DEF Tells, DoneIn
  <2> QED
    BY <2>0, <2>1, <2>2, <2>3 DEF ScoreInv, ScoresTellUsage, Tells, Of, DoneIn
<1> QED
  BY <1>1, <1>2, <1>3, RecordedScores, TipsStep

(* The counters and the score of a tip are those of its usage rows, and no  *)
(* usage row outlives its tip (heads_up.py, record_heads_up_tip_usage and   *)
(* clear_heads_up_tips), whatever was retried, reclaimed or cleared.        *)
THEOREM ScoresTrue == Spec => []ScoresTellUsage
<1>1. Init => ScoreInv
  <2> SUFFICES ASSUME Init
               PROVE  ScoreInv
    OBVIOUS
  <2>1. PICK old : tips = {NewTip(i, old[i]) : i \in DOMAIN old}
    BY DEF Init
  <2>2. usage = {}
    BY DEF Init
  <2>3. \A tip \in tips : Tells(tip, {})
    BY <2>1, FS_EmptySet DEF Tells, DoneIn, NewTip
  <2>4. \A i : Of(i) = {}
    BY <2>2 DEF Of
  <2> QED
    BY <2>2, <2>3, <2>4, ScoreParts
<1>2. TypeInv /\ ScoreInv /\ [Next]_vars => ScoreInv'
  BY ScoreStep
<1>3. ScoreInv => ScoresTellUsage
  BY DEF ScoreInv
<1> QED
  BY <1>1, <1>2, <1>3, Typing, PTL DEF Spec

------------------------------------------------------------------------------
(* Attempt numbers: what they name, until retry-errors hands them out anew. *)

LEMMA ClaimsGrow ==
  ASSUME TypeInv, [Next]_vars, NEW t \in Task, t \notin history'.retried
  PROVE  /\ t \notin history.retried
         /\ claims[t] \in Nat /\ claims'[t] \in Nat /\ claims[t] <= claims'[t]
<1>1. t \notin history.retried
  BY HistoryStep
<1>2. claims \in [Task -> Nat] /\ claims'[t] \in Nat
  <2>1. /\ claims \in [Task -> 0..MaxClaims] /\ claims' \in [Task -> 0..MaxClaims]
        /\ MaxClaims \in Nat
    BY ClaimsType, RecordsAssumption DEF TypeInv, RecordsTypeOK
  <2> QED
    BY <2>1
<1>3. CASE claims' = claims
  BY <1>1, <1>2, <1>3
<1>4. ASSUME NEW w \in Worker, LeaseNextTask(w)
      PROVE  claims[t] <= claims'[t]
  <2>1. PICK u \in Task : claims' = [claims EXCEPT ![u] = claims[u] + 1]
    BY <1>4 DEF LeaseNextTask
  <2>2. claims'[t] = IF t = u THEN claims[t] + 1 ELSE claims[t]
    BY <1>2, <2>1
  <2> QED
    BY <1>2, <2>2
<1>5. CASE RetryErrors
  <2>1. PICK S \in SUBSET Task : S = {u \in Task : row[u].status = "error"}
    OBVIOUS
  <2>2. history' = [history EXCEPT !.retried = history.retried \cup S]
    BY <1>5, <2>1 DEF RetryErrors
  <2>3. S \subseteq history'.retried
    BY <2>2 DEF TypeInv, History
  <2>4. row[t].status # "error"
    BY <2>1, <2>3
  <2>5. claims'[t] = claims[t]
    BY <1>5, <2>4 DEF RetryErrors
  <2> QED
    BY <1>1, <1>2, <2>5
<1> QED
  BY <1>1, <1>2, <1>3, <1>4, <1>5, ClaimsStep

(* An attempt whose number is still its own had it before, or has just been *)
(* leased.                                                                  *)
LEMMA CurrentStep ==
  ASSUME TypeInv, [Next]_vars, NEW v \in Worker, Current(v)'
  PROVE  \/ Current(v) /\ SameClaim(v) /\ (worker'[v] = worker[v] \/ Advanced(v))
         \/ Leased(v)
<1>1. worker'[v].phase \notin Resting /\ worker'[v].task \notin history'.retried
  BY DEF Current
<1>2. history.retried \subseteq history'.retried
  BY HistoryStep
<1>3. CASE worker'[v] = worker[v]
  BY <1>1, <1>2, <1>3 DEF Current, SameClaim
<1>4. CASE Rested(v)
  BY <1>1, <1>4, NoAttemptType DEF Rested, Resting, Phase
<1>5. CASE Advanced(v)
  BY <1>1, <1>2, <1>5 DEF Advanced, SameClaim, Current
<1> QED
  BY <1>3, <1>4, <1>5, WorkerStep

LEMMA LeasedNumber ==
  ASSUME TypeInv, NEW v \in Worker, Leased(v)
  PROVE  \E t \in Task :
           /\ worker'[v].task = t /\ worker'[v].phase = "claimed"
           /\ worker'[v].index = claims[t] + 1 /\ claims'[t] = claims[t] + 1
           /\ claims[t] \in Nat /\ claims[t] + 1 \in 1..MaxClaims
           /\ \A w \in Worker \ {v} : worker'[w] = worker[w]
           /\ UNCHANGED evidenceVars /\ history' = history
<1>1. PICK t \in Task, lag \in Lag :
           /\ claims' = [claims EXCEPT ![t] = claims[t] + 1]
           /\ claims[t] + 1 \in 1..MaxClaims
           /\ worker'[v].phase = "claimed" /\ worker'[v].task = t
           /\ worker'[v].index = claims[t] + 1
           /\ \A w \in Worker \ {v} : worker'[w] = worker[w]
  BY LeaseFields DEF Leased
<1>2. UNCHANGED evidenceVars /\ history' = history
  BY DEF Leased, LeaseNextTask
<1>3. claims \in [Task -> 0..MaxClaims] /\ MaxClaims \in Nat
  BY RecordsAssumption DEF TypeInv, RecordsTypeOK
<1>4. claims[t] \in Nat /\ claims'[t] = claims[t] + 1
  BY <1>1, <1>3
<1> WITNESS t \in Task
<1> QED
  BY <1>1, <1>2, <1>4

(* A file changes under one number only by the attempt that has it.         *)
LEMMA FilesStep ==
  ASSUME TypeInv, [Next]_vars, NEW t \in Task, t \notin history.retried, NEW i \in 0..MaxClaims
  PROVE  \/ bundle'[t][i] = bundle[t][i]
         \/ \E w \in Worker : /\ Current(w) /\ worker[w].task = t /\ worker[w].index = i
                              /\ \/ Stops(w)
                                 \/ /\ bundle'[t][i].meta \in {bundle[t][i].meta, worker[w].token}
                                    /\ bundle'[t][i].raw \in {bundle[t][i].raw, worker[w].token}
<1>1. CASE bundle' = bundle
  BY <1>1
<1>2. ASSUME NEW w \in Worker, worker[w].phase \notin Resting, OwnFile(w, t, i)
      PROVE  Current(w) /\ worker[w].task = t /\ worker[w].index = i
  BY <1>2 DEF Current, OwnFile
<1> QED
  BY <1>1, <1>2, BundleStep

(* A new row, and a new cleanup, is that of the attempt with the number.    *)
LEMMA NewForensicsRow ==
  ASSUME TypeInv, [Next]_vars, NEW r \in forensics', r \notin forensics,
         r.task \notin history.retried
  PROVE  \E w \in Worker : /\ Current(w) /\ worker[w].phase = "described"
                           /\ r.task = worker[w].task /\ r.index = worker[w].index
                           /\ r.id = worker[w].token /\ (r.raw <=> worker[w].raw)
                           /\ bundle' = bundle /\ worker'[w].phase = "captured"
<1>1. PICK w \in Worker : /\ InsertFailureForensics(w) /\ worker[w].phase = "described"
                          /\ forensics' = forensics \cup {ForensicsRow(w)}
  BY ForensicsStep
<1>2. /\ r.task = worker[w].task /\ r.index = worker[w].index
      /\ r.id = worker[w].token /\ r.raw = worker[w].raw
  BY <1>1 DEF ForensicsRow, AttemptPart
<1>3. bundle' = bundle /\ Goto(w, "captured")
  BY <1>1 DEF InsertFailureForensics
<1>4. worker'[w].phase = "captured"
  BY <1>3, GotoFields DEF Phase
<1> QED
  BY <1>1, <1>2, <1>3, <1>4 DEF Current, Resting

LEMMA NewCleanup ==
  ASSUME TypeInv, [Next]_vars, NEW c \in history'.cleaned, c \notin history.cleaned,
         c.task \notin history.retried
  PROVE  \E w \in Worker : /\ Current(w)
                           /\ c.task = worker[w].task /\ c.index = worker[w].index
                           /\ c.token = worker[w].token
                           /\ bundle' = bundle
                           /\ \/ worker[w].phase = "published"
                              \/ /\ worker[w].phase \in {"captured", "uncaptured"}
                                 /\ worker[w].staged /\ worker'[w].phase = "cleaned"
<1>1. PICK w \in Worker : /\ (DeleteStaged(w) /\ worker[w].staged) \/ ArtifactsFail(w)
                          /\ history'.cleaned = history.cleaned \cup {Evidence(w)}
  BY HistoryStep
<1>2. /\ c.task = worker[w].task /\ c.index = worker[w].index /\ c.token = worker[w].token
  BY <1>1 DEF Evidence
<1>3. bundle' = bundle
  BY <1>1 DEF DeleteStaged, ArtifactsFail, evidenceVars
<1>4. CASE ArtifactsFail(w)
  BY <1>2, <1>3, <1>4 DEF ArtifactsFail, Current, Resting, At
<1>5. CASE DeleteStaged(w) /\ worker[w].staged
  <2>1. worker'[w].phase = "cleaned" /\ worker[w].phase \in {"captured", "uncaptured"}
    BY <1>5, DeleteFields DEF DeleteStaged, At
  <2> QED
    BY <1>2, <1>3, <1>5, <2>1 DEF Current, Resting
<1> QED
  BY <1>1, <1>4, <1>5

(* Distinct claims of a task keep distinct numbers.                         *)
LEMMA NumbersStep ==
  ASSUME TypeInv, AttemptInv, [Next]_vars, NEW v \in Worker, NEW w \in Worker,
         Current(v)', Current(w)',
         worker'[v].task = worker'[w].task, worker'[v].index = worker'[w].index
  PROVE  v = w
<1>1. CASE SameClaim(v) /\ Current(v) /\ SameClaim(w) /\ Current(w)
  BY <1>1 DEF AttemptInv, SameClaim
<1>2. ASSUME NEW x \in Worker, NEW y \in Worker, Leased(x), SameClaim(y), Current(y),
             worker'[x].task = worker'[y].task, worker'[x].index = worker'[y].index
      PROVE  FALSE
  <2>1. PICK t \in Task : /\ worker'[x].task = t /\ worker'[x].index = claims[t] + 1
                          /\ claims[t] \in Nat
    BY <1>2, LeasedNumber
  <2>2. worker[y].task = t /\ worker[y].index = claims[t] + 1
    BY <1>2, <2>1 DEF SameClaim
  <2>3. worker[y].index \in 1..claims[t]
    BY <1>2, <2>2 DEF AttemptInv, Numbered
  <2> QED
    BY <2>1, <2>2, <2>3
<1>3. CASE Leased(v) /\ Leased(w)
  <2>1. worker[w].phase = "top" /\ worker'[w].phase = "claimed"
    BY <1>3 DEF Leased, LeaseNextTask, At
  <2>2. w # v => worker'[w] = worker[w]
    BY <1>3, LeasedNumber
  <2> QED
    BY <2>1, <2>2
<1> QED
  BY <1>1, <1>2, <1>3, CurrentStep

LEMMA NumberedStep ==
  ASSUME TypeInv, AttemptInv, [Next]_vars, NEW v \in Worker, Current(v)'
  PROVE  Numbered(v)'
<1>0. \A w \in Worker : worker[w].index \in 0..MaxClaims
  BY DEF TypeInv, RecordsTypeOK, Attempt
<1>1. CASE Leased(v)
  <2>1. PICK t \in Task : /\ worker'[v].task = t /\ worker'[v].phase = "claimed"
                          /\ worker'[v].index = claims[t] + 1 /\ claims'[t] = claims[t] + 1
                          /\ claims[t] \in Nat /\ claims[t] + 1 \in 1..MaxClaims
                          /\ UNCHANGED evidenceVars /\ history' = history
    BY <1>1, LeasedNumber
  <2> DEFINE i == claims[t] + 1
  <2>2. t \notin history.retried
    BY <2>1 DEF Current
  <2>3. i \in 0..MaxClaims /\ i > claims[t] /\ i \in 1..claims'[t]
    BY <2>1
  <2>5. \A r \in forensics : r.task = t => r.index # i
    <3>1. \A r \in forensics : r.task = t => r.index <= claims[t]
      BY <2>2 DEF AttemptInv
    <3>2. \A r \in forensics : r.index \in Nat
      BY RecordsAssumption DEF TypeInv, RecordsTypeOK
    <3> QED
      BY <2>1, <3>1, <3>2
  <2>6. \A c \in history.cleaned : c.task = t => c.index # i
    <3>1. \A c \in history.cleaned : c.task = t => c.index <= claims[t]
      BY <2>2 DEF AttemptInv
    <3>2. \A c \in history.cleaned : c.index \in Nat
      BY RecordsAssumption DEF TypeInv, History, CleanedOutput
    <3> QED
      BY <2>1, <3>1, <3>2
  <2>7. bundle' = bundle /\ forensics' = forensics
    BY <2>1 DEF evidenceVars
  <2>8. worker'[v].index = i
    BY <2>1
  <2> HIDE DEF i
  <2> QED
    BY <2>1, <2>3, <2>5, <2>6, <2>7, <2>8 DEF Numbered
<1>2. CASE Current(v) /\ SameClaim(v) /\ (worker'[v] = worker[v] \/ Advanced(v))
  <2> DEFINE t == worker[v].task
             i == worker[v].index
             tok == worker[v].token
  <2>0. /\ worker'[v].task = t /\ worker'[v].index = i /\ worker'[v].token = tok
        /\ t \in Task /\ t \notin history.retried /\ t \notin history'.retried
        /\ i \in 0..MaxClaims
    BY <1>0, <1>2, BusyClaim DEF SameClaim, Current
  <2>1. Numbered(v)
    BY <1>2 DEF AttemptInv
  <2>2. i \in 1..claims'[t]
    <3>1. /\ i \in 1..claims[t]
          /\ claims[t] \in Nat /\ claims'[t] \in Nat /\ claims[t] <= claims'[t]
      BY <2>0, <2>1, ClaimsGrow DEF Numbered
    <3> QED
      BY <3>1
  <2>3. \A w \in Worker : Current(w) /\ worker[w].task = t /\ worker[w].index = i => w = v
    BY <1>2 DEF AttemptInv
  <2>4. \/ Stops(v)
        \/ /\ bundle'[t][i].meta \in {bundle[t][i].meta, tok}
           /\ bundle'[t][i].raw \in {bundle[t][i].raw, tok}
    <3> HIDE DEF t, i
    <3>1. \/ bundle'[t][i] = bundle[t][i]
          \/ \E w \in Worker :
               /\ Current(w) /\ worker[w].task = t /\ worker[w].index = i
               /\ \/ Stops(w)
                  \/ /\ bundle'[t][i].meta \in {bundle[t][i].meta, worker[w].token}
                     /\ bundle'[t][i].raw \in {bundle[t][i].raw, worker[w].token}
      BY <2>0, FilesStep
    <3> QED
      BY <2>3, <3>1
  <2>5. /\ worker[v].phase \in {"described", "captured"} => bundle[t][i].meta = tok
        /\ worker[v].phase \in {"copied", "described", "captured"} /\ worker[v].raw
             => bundle[t][i].raw = tok
        /\ \A r \in forensics : r.task = t /\ r.index = i
             => r.id = tok /\ worker[v].phase \in {"captured", "cleaned", "erred"}
        /\ \A c \in history.cleaned : c.task = t /\ c.index = i
             => benchmark \/ (c.token = tok /\ worker[v].phase \in {"cleaned", "erred"})
    BY <2>1 DEF Numbered
  <2>10. /\ worker[v].phase \in {"captured", "cleaned", "erred"}
              => worker'[v].phase \in {"captured", "cleaned", "erred"}
         /\ worker[v].phase \in {"cleaned", "erred"} => worker'[v].phase \in {"cleaned", "erred"}
    BY <1>2 DEF Advanced
  <2>11. CASE Stops(v)
    <3>1. worker'[v].phase = "uncaptured" /\ worker[v].phase \in {"failed", "copied"}
      <4>1. ~Rested(v)
        <5>1. \A p \in Resting : NoAttempt(p).phase \in Resting
          BY NoAttemptType DEF Resting, Phase
        <5>2. worker'[v].phase \notin Resting
          BY DEF Current
        <5> QED
          BY <5>1, <5>2 DEF Rested
      <4> QED
        BY <2>11, <4>1 DEF Stops
    <3>2. \A r \in forensics' : ~(r.task = t /\ r.index = i)
      <4>1. ASSUME NEW r \in forensics', r.task = t, r.index = i
            PROVE  FALSE
        <5>1. r \notin forensics
          BY <2>5, <3>1, <4>1
        <5>2. PICK w \in Worker : /\ Current(w) /\ worker[w].phase = "described"
                                  /\ r.task = worker[w].task /\ r.index = worker[w].index
          BY <2>0, <4>1, <5>1, NewForensicsRow
        <5>3. w = v
          BY <2>3, <4>1, <5>2
        <5> QED
          BY <3>1, <5>2, <5>3
      <4> QED
        BY <4>1
    <3>3. \A c \in history'.cleaned : c.task = t /\ c.index = i => benchmark
      <4>1. ASSUME NEW c \in history'.cleaned, c.task = t, c.index = i, c \notin history.cleaned
            PROVE  FALSE
        <5>1. PICK w \in Worker :
                /\ Current(w) /\ c.task = worker[w].task /\ c.index = worker[w].index
                /\ worker[w].phase \in {"published", "captured", "uncaptured"}
          BY <2>0, <4>1, NewCleanup
        <5>2. w = v
          BY <2>3, <4>1, <5>1
        <5> QED
          BY <3>1, <5>1, <5>2
      <4> QED
        BY <2>5, <3>1, <4>1
    <3> HIDE DEF t, i, tok
    <3> QED
      BY <2>0, <2>2, <3>1, <3>2, <3>3, ModeStep DEF Numbered
  <2> SUFFICES ASSUME ~Stops(v)
               PROVE  Numbered(v)'
    BY <2>11
  <2>6. ASSUME NEW r \in forensics', r.task = t, r.index = i
        PROVE  r.id = tok /\ worker'[v].phase \in {"captured", "cleaned", "erred"}
    <3>1. CASE r \in forensics
      BY <2>5, <2>6, <2>10, <3>1
    <3>2. CASE r \notin forensics
      BY <2>0, <2>3, <2>6, <3>2, NewForensicsRow
    <3> QED
      BY <3>1, <3>2
  <2>7. ASSUME NEW c \in history'.cleaned, c.task = t, c.index = i
        PROVE  benchmark \/ (c.token = tok /\ worker'[v].phase \in {"cleaned", "erred"})
    <3>1. CASE c \in history.cleaned
      BY <2>5, <2>7, <2>10, <3>1
    <3>2. CASE c \notin history.cleaned
      <4>1. PICK w \in Worker :
              /\ Current(w) /\ c.task = worker[w].task /\ c.index = worker[w].index
              /\ c.token = worker[w].token
              /\ worker[w].phase = "published" \/ worker'[w].phase = "cleaned"
        BY <2>0, <2>7, <3>2, NewCleanup
      <4>2. w = v
        BY <2>3, <2>7, <4>1
      <4>3. worker[w].phase = "published" => benchmark
        BY DEF AttemptInv, At
      <4> QED
        BY <4>1, <4>2, <4>3
    <3> QED
      BY <3>1, <3>2
  <2>8. worker'[v].phase \in {"described", "captured"} => bundle'[t][i].meta = tok
    <3>1. CASE worker'[v] = worker[v]
      BY <2>4, <2>5, <3>1
    <3>2. CASE Advanced(v) /\ worker'[v].phase = "described"
      BY <2>0, <3>2, DescribedFiles DEF Advanced, OwnFile
    <3>3. CASE Advanced(v) /\ worker'[v].phase = "captured"
      <4>1. worker[v].phase = "described"
        BY <3>3 DEF Advanced, InsertFailureForensics, At
      <4> QED
        BY <2>4, <2>5, <4>1
    <3> QED
      BY <1>2, <3>1, <3>2, <3>3
  <2>9. worker'[v].phase \in {"copied", "described", "captured"} /\ worker'[v].raw
          => bundle'[t][i].raw = tok
    <3>1. CASE worker'[v] = worker[v]
      BY <2>4, <2>5, <3>1
    <3>2. CASE Advanced(v) /\ worker'[v].phase = "copied"
      <4>1. CopyOutput(v) /\ worker'[v].raw = worker[v].staged
        BY <3>2 DEF Advanced
      <4> QED
        BY <2>0, <4>1, CopiedFiles DEF OwnFile
    <3>3. CASE Advanced(v) /\ worker'[v].phase \in {"described", "captured"}
      <4>1. worker[v].phase \in {"copied", "described"} /\ worker'[v].raw = worker[v].raw
        BY <3>3 DEF Advanced, WriteMetadata, InsertFailureForensics, At
      <4> QED
        BY <2>4, <2>5, <4>1
    <3> QED
      BY <1>2, <3>1, <3>2, <3>3
  <2> HIDE DEF t, i, tok
  <2> QED
    BY <2>0, <2>2, <2>6, <2>7, <2>8, <2>9, ModeStep DEF Numbered
<1> QED
  BY <1>1, <1>2, CurrentStep

LEMMA AttemptStep ==
  ASSUME TypeInv, AttemptInv, [Next]_vars
  PROVE  AttemptInv'
<1>1. \A w \in Worker : Current(w)' => Numbered(w)'
  BY NumberedStep
<1>2. \A v, w \in Worker : /\ Current(v)' /\ Current(w)'
                           /\ worker'[v].task = worker'[w].task
                           /\ worker'[v].index = worker'[w].index
                           => v = w
  BY NumbersStep
<1>0. \A w \in Worker : Current(w) => worker[w].index \in 1..claims[worker[w].task]
  BY DEF AttemptInv, Numbered
<1>3. ASSUME NEW t \in Task, t \notin history'.retried
      PROVE  /\ \A r \in forensics' : r.task = t => r.index <= claims'[t]
             /\ \A c \in history'.cleaned : c.task = t => c.index <= claims'[t]
  <2>1. /\ t \notin history.retried
        /\ claims[t] \in Nat /\ claims'[t] \in Nat /\ claims[t] <= claims'[t]
    BY <1>3, ClaimsGrow
  <2>2. \A w \in Worker : Current(w) /\ worker[w].task = t
          => worker[w].index \in Nat /\ worker[w].index <= claims[t]
    BY <1>0, <2>1
  <2>4. ASSUME NEW r \in forensics', r.task = t
        PROVE  r.index <= claims'[t]
    <3>1. r.index \in Nat
      BY ForensicsStep, RecordsAssumption
    <3>2. r.index <= claims[t]
      BY <2>1, <2>2, <2>4, NewForensicsRow DEF AttemptInv
    <3> QED
      BY <2>1, <3>1, <3>2
  <2>5. ASSUME NEW c \in history'.cleaned, c.task = t
        PROVE  c.index <= claims'[t]
    <3>1. c.index \in Nat
      BY HistoryStep, RecordsAssumption DEF CleanedOutput
    <3>2. c.index <= claims[t]
      BY <2>1, <2>2, <2>5, NewCleanup DEF AttemptInv
    <3> QED
      BY <2>1, <3>1, <3>2
  <2> QED
    BY <2>4, <2>5
<1>4. ASSUME NEW w \in Worker, worker'[w].phase \in {"copied", "described", "captured"}
      PROVE  worker'[w].raw <=> worker'[w].staged
  <2>1. CASE worker'[w] = worker[w]
    BY <1>4, <2>1 DEF AttemptInv
  <2>2. CASE Leased(w)
    BY <1>4, <2>2 DEF Leased
  <2>3. CASE Rested(w)
    BY <1>4, <2>3, NoAttemptType DEF Rested, Resting, Phase
  <2>4. CASE Advanced(w) /\ worker'[w].phase = "copied"
    BY <2>4 DEF Advanced
  <2>5. CASE Advanced(w) /\ worker'[w].phase \in {"described", "captured"}
    <3>1. /\ worker[w].phase \in {"copied", "described"}
          /\ worker'[w].raw = worker[w].raw /\ worker'[w].staged = worker[w].staged
      BY <2>5 DEF Advanced, WriteMetadata, InsertFailureForensics, At
    <3> QED
      BY <3>1 DEF AttemptInv
  <2> QED
    BY <1>4, <2>1, <2>2, <2>3, <2>4, <2>5, WorkerStep
<1>5. BundlesTellRows'
  <2> SUFFICES ASSUME NEW r \in forensics', r.task \notin history'.retried
               PROVE  /\ bundle'[r.task][r.index].meta = r.id
                      /\ r.raw => bundle'[r.task][r.index].raw = r.id
    BY DEF BundlesTellRows
  <2>1. r.task \in Task /\ r.index \in 0..MaxClaims /\ r.task \notin history.retried
    BY ForensicsStep, HistoryStep
  <2>2. CASE r \in forensics
    <3>1. /\ bundle[r.task][r.index].meta = r.id
          /\ r.raw => bundle[r.task][r.index].raw = r.id
      BY <2>1, <2>2 DEF AttemptInv, BundlesTellRows
    <3>2. \A w \in Worker : Current(w) /\ worker[w].task = r.task /\ worker[w].index = r.index
                            => r.id = worker[w].token /\ ~Stops(w)
      BY <2>2 DEF AttemptInv, Numbered, Stops
    <3> QED
      BY <2>1, <3>1, <3>2, FilesStep
  <2>3. CASE r \notin forensics
    <3>1. PICK w \in Worker : /\ Current(w) /\ worker[w].phase = "described"
                              /\ r.task = worker[w].task /\ r.index = worker[w].index
                              /\ r.id = worker[w].token /\ (r.raw <=> worker[w].raw)
                              /\ bundle' = bundle
      BY <2>1, <2>3, NewForensicsRow
    <3> QED
      BY <3>1 DEF AttemptInv, Numbered
  <2> QED
    BY <2>2, <2>3
<1>6. EvidenceOrWarning'
  <2> SUFFICES ASSUME ~benchmark, NEW c \in history'.cleaned, c.task \notin history'.retried
               PROVE  bundle'[c.task][c.index].raw = c.token \/ c.token \in history'.warned
    BY ModeStep DEF EvidenceOrWarning
  <2>1. /\ c.task \in Task /\ c.index \in 0..MaxClaims /\ c.task \notin history.retried
        /\ history.warned \subseteq history'.warned
    BY HistoryStep DEF CleanedOutput
  <2>2. CASE c \in history.cleaned
    <3>1. bundle[c.task][c.index].raw = c.token \/ c.token \in history.warned
      BY <2>1, <2>2 DEF AttemptInv, EvidenceOrWarning
    <3>2. \A w \in Worker : Current(w) /\ worker[w].task = c.task /\ worker[w].index = c.index
                            => c.token = worker[w].token /\ ~Stops(w)
      BY <2>2 DEF AttemptInv, Numbered, Stops
    <3> QED
      BY <2>1, <3>1, <3>2, FilesStep
  <2>3. CASE c \notin history.cleaned
    <3>1. PICK w \in Worker : /\ Current(w)
                              /\ c.task = worker[w].task /\ c.index = worker[w].index
                              /\ c.token = worker[w].token
                              /\ bundle' = bundle
                              /\ \/ worker[w].phase = "published"
                                 \/ /\ worker[w].phase \in {"captured", "uncaptured"}
                                    /\ worker[w].staged
      BY <2>1, <2>3, NewCleanup
    <3>2. worker[w].phase # "published"
      BY DEF AttemptInv, At
    <3>3. CASE worker[w].phase = "uncaptured"
      BY <2>1, <3>1, <3>3 DEF AttemptInv, At
    <3>4. CASE worker[w].phase = "captured"
      <4>1. worker[w].raw
        BY <3>1, <3>4 DEF AttemptInv
      <4> QED
        BY <3>1, <3>4, <4>1 DEF AttemptInv, Numbered
    <3> QED
      BY <3>1, <3>2, <3>3, <3>4
  <2> QED
    BY <2>2, <2>3
<1>7. ASSUME NEW w \in Worker
      PROVE  /\ worker'[w].phase = "uncaptured" => worker'[w].token \in history'.warned
             /\ worker'[w].phase = "published" => benchmark'
  <2>1. CASE worker'[w] = worker[w]
    BY <2>1, HistoryStep, ModeStep DEF AttemptInv, At
  <2>2. CASE Leased(w)
    BY <2>2 DEF Leased
  <2>3. CASE Rested(w)
    BY <2>3, NoAttemptType DEF Rested, Resting, Phase
  <2>4. CASE Advanced(w) /\ worker'[w].phase = "uncaptured"
    <3>1. CaptureFails(w) /\ worker'[w].token = worker[w].token
      BY <2>4 DEF Advanced, SameClaim
    <3>2. history' = [history EXCEPT !.warned = history.warned \cup {worker[w].token}]
      BY <3>1 DEF CaptureFails
    <3>3. history \in History
      BY DEF TypeInv
    <3>4. worker[w].token \in history'.warned
      BY <3>2, <3>3 DEF History
    <3> QED
      BY <2>4, <3>1, <3>4
  <2>5. CASE Advanced(w) /\ worker'[w].phase = "published"
    BY <2>5, ModeStep DEF Advanced, Publish
  <2>6. CASE worker'[w].phase \notin {"uncaptured", "published"}
    BY <2>6
  <2> QED
    BY <2>1, <2>2, <2>3, <2>4, <2>5, <2>6, WorkerStep
<1> QED
  BY <1>1, <1>2, <1>3, <1>4, <1>5, <1>6, <1>7 DEF AttemptInv, At

LEMMA Attempts == Spec => []AttemptInv
<1>1. Init => AttemptInv
  <2> SUFFICES ASSUME Init
               PROVE  AttemptInv
    OBVIOUS
  <2>1. /\ forensics = {} /\ history.cleaned = {}
        /\ worker = [w \in Worker |-> NoAttempt("top")]
    BY DEF Init
  <2>2. \A w \in Worker : worker[w].phase = "top"
    BY <2>1, NoAttemptType DEF Phase
  <2>3. \A w \in Worker : ~Current(w)
    BY <2>2 DEF Current, Resting
  <2> QED
    BY <2>1, <2>2, <2>3 DEF AttemptInv, BundlesTellRows, EvidenceOrWarning, At
<1>2. TypeInv /\ AttemptInv /\ [Next]_vars => AttemptInv'
  BY AttemptStep
<1> QED
  BY <1>1, <1>2, Typing, PTL DEF Spec

(* Until retry-errors resets the attempt numbers, the bundle of a row holds *)
(* that row's own capture, though an attempt that lost its claim captures   *)
(* while its successor does (forensics.py, the attempt directory).          *)
THEOREM BundlesTrue == Spec => []BundlesTellRows
<1>1. AttemptInv => BundlesTellRows
  BY DEF AttemptInv
<1> QED
  BY <1>1, Attempts, PTL

(* Outside benchmark mode an output that the handling of a failure deleted  *)
(* is whole in the bundle of its attempt, again until retry-errors, unless  *)
(* the log says that its capture failed (worker.py, the cleanup after the   *)
(* capture).                                                                *)
THEOREM EvidenceKept == Spec => []EvidenceOrWarning
<1>1. AttemptInv => EvidenceOrWarning
  BY DEF AttemptInv
<1> QED
  BY <1>1, Attempts, PTL

------------------------------------------------------------------------------
(* Distillation: the limits hold for every list the distiller proposes. *)

(* At most cap members of a set of numbers have fewer than cap below them.  *)
LEMMA FewBelow ==
  ASSUME NEW n \in Nat, NEW S \in SUBSET (1..n), NEW cap \in Nat
  PROVE  /\ IsFiniteSet({i \in S : Cardinality({j \in S : j < i}) < cap})
         /\ Cardinality({i \in S : Cardinality({j \in S : j < i}) < cap}) <= cap
<1> DEFINE Below(i) == {j \in S : j < i}
           K == {i \in S : Cardinality(Below(i)) < cap}
           f == [i \in K |-> Cardinality(Below(i))]
<1>1. IsFiniteSet(S)
  <2>1. n \in Int /\ 1 \in Int
    OBVIOUS
  <2>2. IsFiniteSet(1..n)
    BY <2>1, FS_Interval
  <2> QED
    BY <2>2, FS_Subset
<1>2. \A i \in S : i \in Nat
  OBVIOUS
<1>3. ASSUME NEW i \in S
      PROVE  IsFiniteSet(Below(i)) /\ Cardinality(Below(i)) \in Nat
  <2>1. Below(i) \in SUBSET S
    OBVIOUS
  <2> QED
    BY <1>1, <2>1, FS_Subset, FS_CardinalityType
<1>4. ASSUME NEW i \in S, NEW k \in S, i < k, Cardinality(Below(i)) = Cardinality(Below(k))
      PROVE  FALSE
  <2>1. /\ \A j \in S : j < i => j < k
        /\ ~(i < i)
    BY <1>2, <1>4
  <2>2. Below(i) \in SUBSET Below(k) /\ i \in Below(k) /\ i \notin Below(i)
    BY <1>4, <2>1
  <2>3. Below(i) = Below(k)
    BY <1>3, <1>4, <2>2, FS_Subset
  <2> QED
    BY <2>2, <2>3
<1>5. \A i \in K : i \in S /\ f[i] = Cardinality(Below(i)) /\ Cardinality(Below(i)) < cap
  OBVIOUS
<1> HIDE DEF Below
<1>6. f \in [K -> 0..(cap - 1)]
  <2>1. ASSUME NEW i \in K
        PROVE  Cardinality(Below(i)) \in 0..(cap - 1)
    <3>1. Cardinality(Below(i)) \in Nat /\ Cardinality(Below(i)) < cap
      BY <1>3, <1>5
    <3> QED
      BY <3>1
  <2> HIDE DEF K
  <2> QED
    BY <2>1
<1>7. ASSUME NEW i \in K, NEW k \in K, f[i] = f[k]
      PROVE  i = k
  <2>1. i < k \/ k < i \/ i = k
    BY <1>2, <1>5
  <2>2. Cardinality(Below(i)) = Cardinality(Below(k))
    BY <1>5, <1>7
  <2> QED
    BY <1>4, <1>5, <2>1, <2>2
<1> HIDE DEF K, f
<1>8. f \in Injection(K, 0..(cap - 1))
  BY <1>6, <1>7 DEF Injection, IsInjective
<1>9. IsFiniteSet(0..(cap - 1)) /\ Cardinality(0..(cap - 1)) = cap
  <2>1. 0 \in Int /\ cap - 1 \in Int
    OBVIOUS
  <2>2. IsFiniteSet(0..(cap - 1))
        /\ Cardinality(0..(cap - 1)) = IF 0 > cap - 1 THEN 0 ELSE (cap - 1) - 0 + 1
    BY <2>1, FS_Interval
  <2> QED
    BY <2>2
<1>10. IsFiniteSet(K) /\ Cardinality(K) <= cap
  BY <1>8, <1>9, FS_Injection
<1> QED
  BY <1>10 DEF K, Below

(* Whatever the distiller proposes, at most TipCap tips go on to the table, *)
(* at most SignatureCap of them for one signature, all for different keys   *)
(* (heads_up.py, _normalize_distilled_tips).                                *)
THEOREM DistilledWithinCaps ==
  ASSUME NEW raw \in BoundedSeq(Proposal, MaxRaw)
  PROVE  LET tip == NormalizeDistilledTips(raw)
         IN /\ Cardinality(DOMAIN tip) <= TipCap
            /\ \A s : Cardinality({i \in DOMAIN tip : tip[i].signature = s}) <= SignatureCap
            /\ \A i, j \in DOMAIN tip : tip[i] = tip[j] => i = j
<1>1. PICK m \in 0..MaxRaw : raw \in [1..m -> Proposal]
  BY DEF BoundedSeq, SeqOf
<1> DEFINE Normal(i) == IF raw[i].signature = Unknown
                        THEN [raw[i] EXCEPT !.signature = Wildcard] ELSE raw[i]
           First == {i \in DOMAIN raw : \A j \in DOMAIN raw : Normal(j) = Normal(i) => j >= i}
           Room == {i \in First :
                      Cardinality({j \in First : /\ j < i
                                                 /\ Normal(j).signature = Normal(i).signature})
                        < SignatureCap}
           Kept == {i \in Room : Cardinality({j \in Room : j < i}) < TipCap}
<1>2. NormalizeDistilledTips(raw) = [i \in Kept |-> Normal(i)]
  BY DEF NormalizeDistilledTips
<1>3. First \in SUBSET (1..m) /\ Room \in SUBSET (1..m)
  BY <1>1
<1>4. m \in Nat /\ TipCap \in Nat /\ SignatureCap \in Nat
  BY RecordsAssumption
<1> HIDE DEF Normal, First
<1>5. Cardinality(Kept) <= TipCap
  <2> HIDE DEF Room
  <2> QED
    BY <1>3, <1>4, FewBelow
<1>6. ASSUME NEW s
      PROVE  Cardinality({i \in Kept : Normal(i).signature = s}) <= SignatureCap
  <2> DEFINE Mine == {i \in First : Normal(i).signature = s}
             Mild == {i \in Mine : Cardinality({j \in Mine : j < i}) < SignatureCap}
             Here == {i \in Kept : Normal(i).signature = s}
  <2>1. Mine \in SUBSET (1..m)
    BY <1>3
  <2>2. ASSUME NEW i \in First, Normal(i).signature = s
        PROVE  {j \in First : j < i /\ Normal(j).signature = Normal(i).signature}
                 = {j \in Mine : j < i}
    BY <2>2
  <2>3. \A i \in Room : Normal(i).signature = s => i \in Mild
    BY <2>2
  <2>4. Here \in SUBSET Mild
    BY <2>3
  <2> HIDE DEF Mine, Here
  <2>5. IsFiniteSet(Mild) /\ Cardinality(Mild) <= SignatureCap
    BY <1>4, <2>1, FewBelow
  <2> HIDE DEF Mild
  <2>6. Cardinality(Here) <= Cardinality(Mild) /\ Cardinality(Here) \in Nat
        /\ Cardinality(Mild) \in Nat
    BY <2>4, <2>5, FS_Subset, FS_CardinalityType
  <2>7. Cardinality(Here) <= SignatureCap
    BY <1>4, <2>5, <2>6
  <2> QED
    BY <2>7 DEF Here
<1> HIDE DEF Kept
<1>7. DOMAIN NormalizeDistilledTips(raw) = Kept
      /\ \A i \in Kept : NormalizeDistilledTips(raw)[i] = Normal(i)
  BY <1>2
<1>8. ASSUME NEW s
      PROVE  {i \in DOMAIN NormalizeDistilledTips(raw) :
                NormalizeDistilledTips(raw)[i].signature = s}
               = {i \in Kept : Normal(i).signature = s}
  BY <1>7
<1> QED
  BY <1>5, <1>6, <1>7, <1>8, NormalizedTips
==============================================================================
