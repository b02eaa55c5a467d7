-------------------------- MODULE RunCreation_proofs --------------------------
(***************************************************************************)
(* Theorems about RunCreation for every set of creators, inputs,           *)
(* definitions, texts and directories, every way in which inputs share      *)
(* output files, and every bound and set of lapses.                        *)
(*                                                                         *)
(* Types and the run ids in use come first: an output is copied from the   *)
(* directory of a source run, which is typed only if that run was started. *)
(***************************************************************************)
EXTENDS RunCreation, FiniteSetTheorems, TLAPS

(* Everything that runs is defined by something, and reads something; a     *)
(* command that finds no input raises before it freezes anything.          *)
WorldAssumption == Definition # {} /\ Text # {} /\ Input # {}

Started == 1..Len(chosen)

Types ==
  /\ live \in Definition
  /\ text \in [Input -> Text]
  /\ assets \in [Run -> SUBSET Definition]
  /\ run \in [Run -> RunRow]
  /\ order \in Seq(Run)
  /\ task \in [Run -> [Input -> TaskRow]]
  /\ file \in [Dir -> [Name -> Output \cup {NoFile, Garbage}]]
  /\ making \in [Creator -> Making]
  /\ chosen \in Seq(Dir) /\ Len(chosen) <= MaxRuns
  /\ crashed \subseteq Run /\ tainted \subseteq Run
  /\ edits \in 0..MaxEdits /\ faults \in 0..MaxFaults

(* Run ids beyond those handed out are unused, and creators at work have    *)
(* one; a source was started before.                                        *)
RunsStarted ==
  \A r \in Run : r \notin Started =>
    /\ run[r].status = "none"
    /\ \A i \in Input : task[r][i].status = "none"

CreatorsStarted ==
  \A c \in Creator :
    IF making[c].phase = "idle" THEN making[c].run = None
    ELSE making[c].run \in Started

SourcesStarted ==
  \A c \in Creator : making[c].phase = "planning" => making[c].source \in Started

TypeInv == Types /\ RunsStarted /\ CreatorsStarted /\ SourcesStarted

LEMMA Bounds ==
  /\ MaxRuns \in Nat /\ MaxEdits \in Nat /\ MaxFaults \in Nat
  /\ None \notin Run
<1>1. MaxRuns \in Nat /\ MaxEdits \in Nat /\ MaxFaults \in Nat
  BY CreationAssumption
<1> QED
  BY <1>1 DEF None, Run

LEMMA SomeTyped ==
  ASSUME WorldAssumption
  PROVE  /\ SomeDefinition \in Definition /\ SomeText \in Text
         /\ Idle \in Making /\ Idle.phase = "idle" /\ Idle.run = None
<1>1. SomeDefinition \in Definition /\ SomeText \in Text
  BY DEF WorldAssumption, SomeDefinition, SomeText
<1> QED
  BY <1>1 DEF Idle, Making, Decision, None

LEMMA StartedRuns ==
  ASSUME TypeInv
  PROVE  /\ Len(chosen) \in Nat /\ Started \subseteq Run
         /\ \A c \in Creator : making[c].phase # "idle" => RunOf(c) \in Run
         /\ \A r \in Run : r \in Started => DirOf(r) \in Dir
<1>1. Len(chosen) \in Nat /\ chosen \in [1..Len(chosen) -> Dir] /\ Len(chosen) <= MaxRuns
  BY DEF TypeInv, Types
<1>2. Started \subseteq Run
  BY <1>1, Bounds DEF Started, Run
<1> QED
  BY <1>1, <1>2 DEF TypeInv, CreatorsStarted, RunOf, DirOf, Started

LEMMA InitTyped ==
  ASSUME WorldAssumption, Init
  PROVE  TypeInv
<1>1. /\ live \in Definition /\ text \in [Input -> Text]
      /\ assets \in [Run -> SUBSET Definition]
      /\ file \in [Dir -> [Name -> Output \cup {NoFile, Garbage}]]
      /\ crashed \subseteq Run /\ tainted \subseteq Run
  BY SomeTyped DEF Init
<1>2. run \in [Run -> RunRow]
  BY SomeTyped DEF Init, RunRow
<1>3. task \in [Run -> [Input -> TaskRow]]
  BY SomeTyped DEF Init, TaskRow
<1>4. making \in [Creator -> Making]
  BY SomeTyped DEF Init
<1>5. /\ order \in Seq(Run)
      /\ chosen \in Seq(Dir) /\ Len(chosen) <= MaxRuns
      /\ edits \in 0..MaxEdits /\ faults \in 0..MaxFaults
  BY Bounds DEF Init
<1>6. Types
  BY <1>1, <1>2, <1>3, <1>4, <1>5 DEF Types
<1>7. RunsStarted /\ CreatorsStarted /\ SourcesStarted
  BY SomeTyped DEF Init, RunsStarted, CreatorsStarted, SourcesStarted
<1> QED
  BY <1>6, <1>7 DEF TypeInv

LEMMA FreezeTyped ==
  ASSUME WorldAssumption, TypeInv, NEW c \in Creator, FreezeRunAssets(c)
  PROVE  TypeInv'
<1> DEFINE r == Len(chosen) + 1
<1> DEFINE m == [Idle EXCEPT !.phase = "frozen", !.run = r]
<1>0. /\ Len(chosen) < MaxRuns
      /\ making' = [making EXCEPT ![c] = m] /\ assets' = [assets EXCEPT ![r] = {live}]
      /\ \E d \in Dir : chosen' = Append(chosen, d)
      /\ tainted' \subseteq tainted \cup Started \cup {r}
  BY DEF FreezeRunAssets, Lapse, Sharers, Started
<1> HIDE DEF m
<1>1. r \in Run /\ r \notin Started
  BY <1>0, StartedRuns, Bounds DEF Run, Started
<1>2. /\ chosen' \in Seq(Dir) /\ Len(chosen') = r /\ Len(chosen') <= MaxRuns
      /\ Started \subseteq Started' /\ r \in Started'
  <2>1. chosen \in Seq(Dir)
    BY DEF TypeInv, Types
  <2>2. chosen' \in Seq(Dir) /\ Len(chosen') = r
    BY <1>0, <2>1
  <2> QED
    BY <1>0, <2>2, StartedRuns, Bounds DEF Started
<1>4. m \in Making /\ m.phase = "frozen" /\ m.run = r
  BY <1>1, SomeTyped DEF m, Making, Idle, Decision
<1>5. /\ making' \in [Creator -> Making] /\ assets' \in [Run -> SUBSET Definition]
      /\ making'[c] = m /\ \A d \in Creator \ {c} : making'[d] = making[d]
  BY <1>0, <1>1, <1>4 DEF TypeInv, Types
<1>6. UNCHANGED <<live, text, edits, run, order, task, file, crashed, faults>>
  BY DEF FreezeRunAssets, world, NoFault, Lapse
<1>7. Types'
  <2>1. tainted' \subseteq Run
    BY <1>0, <1>1, StartedRuns DEF TypeInv, Types
  <2> QED
    BY <1>2, <1>5, <1>6, <2>1 DEF TypeInv, Types
<1>8. RunsStarted'
  BY <1>2, <1>6 DEF TypeInv, RunsStarted
<1>9. CreatorsStarted' /\ SourcesStarted'
  BY <1>2, <1>4, <1>5 DEF TypeInv, CreatorsStarted, SourcesStarted
<1> QED
  BY <1>7, <1>8, <1>9 DEF TypeInv

(* Steps of a creator that change nothing but what it holds in memory, and  *)
(* neither end its work nor move it to another run.                         *)
LEMMA MakingTyped ==
  ASSUME TypeInv, NEW c \in Creator, NEW m \in Making,
         making' = [making EXCEPT ![c] = m],
         m.run = making[c].run, making[c].phase # "idle", m.phase # "idle",
         m.phase = "planning" => m.source \in Started,
         UNCHANGED <<world, assets, run, order, task, chosen, crashed, faults, tainted>>,
         file' \in [Dir -> [Name -> Output \cup {NoFile, Garbage}]]
  PROVE  TypeInv'
<1>1. /\ making' \in [Creator -> Making] /\ making'[c] = m
      /\ \A d \in Creator \ {c} : making'[d] = making[d]
  BY DEF TypeInv, Types
<1>2. Types'
  BY <1>1 DEF TypeInv, Types, world
<1>3. RunsStarted' /\ CreatorsStarted' /\ SourcesStarted'
  BY <1>1 DEF TypeInv, RunsStarted, CreatorsStarted, SourcesStarted, Started
<1> QED
  BY <1>2, <1>3 DEF TypeInv

(* Steps that end a creator's work. *)
LEMMA EndedTyped ==
  ASSUME WorldAssumption, TypeInv, NEW c \in Creator,
         making' = [making EXCEPT ![c] = Idle],
         UNCHANGED <<world, order, file, chosen>>,
         RunsStarted',
         assets' \in [Run -> SUBSET Definition], run' \in [Run -> RunRow],
         task' \in [Run -> [Input -> TaskRow]],
         crashed' \subseteq Run, tainted' \subseteq Run, faults' \in 0..MaxFaults
  PROVE  TypeInv'
<1>1. /\ making' \in [Creator -> Making] /\ making'[c] = Idle
      /\ \A d \in Creator \ {c} : making'[d] = making[d]
  BY SomeTyped DEF TypeInv, Types
<1>2. Types'
  BY <1>1 DEF TypeInv, Types, world
<1>3. CreatorsStarted' /\ SourcesStarted'
  BY <1>1, SomeTyped DEF TypeInv, CreatorsStarted, SourcesStarted, Started
<1> QED
  BY <1>2, <1>3 DEF TypeInv

LEMMA PrintedTyped ==
  ASSUME TypeInv, NEW c \in Creator, BuildExecutionFingerprint(c)
  PROVE  TypeInv'
<1> DEFINE m == [making[c] EXCEPT !.phase = "printed", !.print = live]
<1>1. making[c] \in Making /\ live \in Definition
  BY DEF TypeInv, Types
<1>2. m \in Making /\ m.phase = "printed" /\ m.run = making[c].run
  BY <1>1 DEF Making
<1>3. making' = [making EXCEPT ![c] = m] /\ file' \in [Dir -> [Name -> Output \cup {NoFile, Garbage}]]
  BY DEF BuildExecutionFingerprint, TypeInv, Types
<1> QED
  BY <1>2, <1>3, MakingTyped DEF BuildExecutionFingerprint, At, Orderly

LEMMA HashedTyped ==
  ASSUME TypeInv, NEW c \in Creator, EnumerateInputCandidates(c)
  PROVE  TypeInv'
<1> DEFINE m == [making[c] EXCEPT !.phase = "hashed", !.hash = text]
<1>1. making[c] \in Making /\ text \in [Input -> Text]
  BY DEF TypeInv, Types
<1>2. m \in Making /\ m.phase = "hashed" /\ m.run = making[c].run
  BY <1>1 DEF Making
<1>3. making' = [making EXCEPT ![c] = m] /\ file' \in [Dir -> [Name -> Output \cup {NoFile, Garbage}]]
  BY DEF EnumerateInputCandidates, TypeInv, Types
<1> QED
  BY <1>2, <1>3, MakingTyped DEF EnumerateInputCandidates, At, Orderly

LEMMA SourceTyped ==
  ASSUME TypeInv, NEW c \in Creator, SelectIncrementalSourceRun(c)
  PROVE  TypeInv'
<1>1. /\ making[c] \in Making /\ making[c].phase # "idle"
      /\ UNCHANGED <<world, assets, run, order, task, chosen, crashed, faults, tainted>>
      /\ file' \in [Dir -> [Name -> Output \cup {NoFile, Garbage}]]
  BY DEF SelectIncrementalSourceRun, TypeInv, Types, At, Orderly
<1>2. CASE making' = [making EXCEPT ![c].phase = "planned",
                                    ![c].plan = [i \in Input |-> "queue"]]
  <2> DEFINE m == [making[c] EXCEPT !.phase = "planned", !.plan = [i \in Input |-> "queue"]]
  <2>1. m \in Making /\ m.phase = "planned" /\ m.run = making[c].run
    BY <1>1 DEF Making, Decision
  <2>2. making' = [making EXCEPT ![c] = m]
    BY <1>2 DEF TypeInv, Types
  <2> QED
    BY <1>1, <2>1, <2>2, MakingTyped
<1>3. ASSUME NEW s \in FindLatestCompatibleTerminalRun(c) \cup Compatible(c),
             making' = [making EXCEPT ![c].phase = "planning", ![c].source = s]
      PROVE  TypeInv'
  <2> DEFINE m == [making[c] EXCEPT !.phase = "planning", !.source = s]
  <2>1. s \in Run /\ s \in Started
    BY DEF FindLatestCompatibleTerminalRun, Compatible, TypeInv, RunsStarted
  <2>2. m \in Making /\ m.phase = "planning" /\ m.run = making[c].run /\ m.source = s
    BY <1>1, <2>1 DEF Making
  <2>3. making' = [making EXCEPT ![c] = m]
    BY <1>3 DEF TypeInv, Types
  <2> QED
    BY <1>1, <2>1, <2>2, <2>3, MakingTyped
<1> QED
  BY <1>2, <1>3 DEF SelectIncrementalSourceRun

(* A decision on an input is a step in memory, with or without a file. *)
LEMMA DecisionTyped ==
  ASSUME TypeInv, NEW c \in Creator, NEW i \in Input, NEW d \in Decision,
         At(c, "planning"), Decide(c, i, d),
         UNCHANGED <<world, assets, run, order, task, chosen, crashed, faults, tainted>>,
         file' \in [Dir -> [Name -> Output \cup {NoFile, Garbage}]]
  PROVE  TypeInv'
<1> DEFINE m == [making[c] EXCEPT !.plan[i] = d]
<1>1. making[c] \in Making /\ making[c].source \in Started
  BY DEF TypeInv, Types, SourcesStarted, At
<1>2. m \in Making /\ m.phase = "planning" /\ m.run = making[c].run
      /\ m.source = making[c].source
  BY <1>1 DEF Making, At
<1>3. making' = [making EXCEPT ![c] = m]
  BY DEF Decide, TypeInv, Types
<1> QED
  BY <1>1, <1>2, <1>3, MakingTyped DEF At

LEMMA PlanTyped ==
  ASSUME TypeInv, NEW c \in Creator, NEW i \in Input,
         \/ QueueInput(c, i) \/ MaterializeReusedOutput(c, i)
         \/ ValidateReusedOutput(c, i)
  PROVE  TypeInv'
<1>1. /\ At(c, "planning") /\ making[c].source \in Started /\ RunOf(c) \in Started
      /\ UNCHANGED <<world, assets, run, order, task, chosen, crashed, faults, tainted>>
  BY DEF QueueInput, MaterializeReusedOutput, ValidateReusedOutput, TakenUp, Orderly, At,
     TypeInv, SourcesStarted, CreatorsStarted, RunOf
<1>2. DirOf(making[c].source) \in Dir /\ DirOf(RunOf(c)) \in Dir
  BY <1>1, StartedRuns DEF TypeInv, Types, Making
<1>3. /\ file \in [Dir -> [Name -> Output \cup {NoFile, Garbage}]]
      /\ Source(c, i) \in Output \cup {NoFile, Garbage}
  <2>1. file \in [Dir -> [Name -> Output \cup {NoFile, Garbage}]]
    BY DEF TypeInv, Types
  <2>2. RelOutput[i] \in Name
    BY DEF Name
  <2> QED
    BY <1>2, <2>1, <2>2 DEF Source
<1>4. file' \in [Dir -> [Name -> Output \cup {NoFile, Garbage}]]
  <2>1. ASSUME NEW d \in Dir, NEW n \in Name, NEW x \in Output \cup {NoFile, Garbage}
        PROVE  [file EXCEPT ![d][n] = x] \in [Dir -> [Name -> Output \cup {NoFile, Garbage}]]
    BY <1>3
  <2>2. RelOutput[i] \in Name
    BY DEF Name
  <2> QED
    BY <1>2, <1>3, <2>1, <2>2 DEF QueueInput, MaterializeReusedOutput, ValidateReusedOutput
<1>5. \E d \in Decision : Decide(c, i, d)
  BY DEF QueueInput, MaterializeReusedOutput, ValidateReusedOutput, Decision
<1> QED
  BY <1>1, <1>4, <1>5, DecisionTyped

LEMMA CreateRunTyped ==
  ASSUME TypeInv, NEW c \in Creator, CreateRun(c)
  PROVE  TypeInv'
<1> DEFINE m == [making[c] EXCEPT !.phase = "created"]
<1> DEFINE row == [status |-> "queued", print |-> making[c].print]
<1>1. /\ RunOf(c) \in Started /\ RunOf(c) \in Run /\ RunOf(c) = making[c].run
      /\ making[c] \in Making /\ making[c].phase # "idle"
  BY StartedRuns DEF CreateRun, At, TypeInv, Types, CreatorsStarted, RunOf
<1>2. /\ run' = [run EXCEPT ![RunOf(c)] = row] /\ order' = Append(order, RunOf(c))
      /\ making' = [making EXCEPT ![c] = m]
      /\ UNCHANGED <<live, text, edits, assets, task, file, chosen, crashed, faults, tainted>>
  BY DEF CreateRun, Orderly, world, TypeInv, Types
<1>3. row \in RunRow
  BY <1>1 DEF RunRow, Making
<1>4. m \in Making /\ m.phase = "created" /\ m.run = making[c].run
  BY <1>1 DEF Making
<1> HIDE DEF m, row
<1>5. run' \in [Run -> RunRow] /\ order' \in Seq(Run)
  BY <1>1, <1>2, <1>3 DEF TypeInv, Types
<1>6. /\ making' \in [Creator -> Making] /\ making'[c] = m
      /\ \A d \in Creator \ {c} : making'[d] = making[d]
  BY <1>2, <1>4 DEF TypeInv, Types
<1>7. Types'
  BY <1>2, <1>5, <1>6 DEF TypeInv, Types
<1>8. RunsStarted' /\ CreatorsStarted' /\ SourcesStarted'
  BY <1>1, <1>2, <1>4, <1>6
     DEF TypeInv, Types, RunsStarted, CreatorsStarted, SourcesStarted, Started
<1> QED
  BY <1>7, <1>8 DEF TypeInv

LEMMA InsertTyped ==
  ASSUME WorldAssumption, TypeInv, NEW c \in Creator, InsertPlannedTasksForRun(c)
  PROVE  TypeInv'
<1>1. RunOf(c) \in Started /\ RunOf(c) \in Run /\ making[c] \in Making
  BY StartedRuns DEF InsertPlannedTasksForRun, At, TypeInv, Types, CreatorsStarted, RunOf
<1>2. \A i \in Input : PlannedTask(c, i) \in TaskRow
  <2> TAKE i \in Input
  <2> DEFINE old == task[RunOf(c)][i]
  <2>1. /\ old \in TaskRow /\ making[c].hash[i] \in Text
        /\ making[c].source \in Run \cup {None}
    BY <1>1 DEF TypeInv, Types, Making
  <2> QED
    BY <2>1 DEF PlannedTask, TaskRow
<1>3. task' \in [Run -> [Input -> TaskRow]]
  BY <1>1, <1>2 DEF InsertPlannedTasksForRun, TypeInv, Types
<1>4. run' \in [Run -> RunRow]
  BY <1>1 DEF InsertPlannedTasksForRun, TypeInv, Types, RunRow
<1>5. \A r \in Run : r \notin Started => run'[r] = run[r] /\ task'[r] = task[r]
  BY <1>1 DEF InsertPlannedTasksForRun, TypeInv, Types
<1>6. RunsStarted'
  <2>1. Started' = Started
    BY DEF InsertPlannedTasksForRun, Started
  <2> QED
    BY <1>5, <2>1 DEF RunsStarted, TypeInv
<1>7. /\ assets' \in [Run -> SUBSET Definition] /\ crashed' \subseteq Run
      /\ faults' \in 0..MaxFaults /\ tainted' \subseteq Run
  BY <1>1 DEF InsertPlannedTasksForRun, NoFault, TypeInv, Types
<1> QED
  BY <1>3, <1>4, <1>6, <1>7, EndedTyped DEF InsertPlannedTasksForRun

LEMMA FaultTyped ==
  ASSUME WorldAssumption, TypeInv, NEW c \in Creator, CreationFails(c) \/ Crash(c)
  PROVE  TypeInv'
<1>1. RunOf(c) \in Run
  BY StartedRuns DEF CreationFails, Crash, At
<1>2. faults' \in 0..MaxFaults
  BY Bounds DEF CreationFails, Crash, TypeInv, Types
<1>3. /\ assets' \in [Run -> SUBSET Definition] /\ crashed' \subseteq Run
      /\ tainted' \subseteq Run
  BY <1>1 DEF CreationFails, Crash, NoLapse, TypeInv, Types
<1>4. /\ run' \in [Run -> RunRow] /\ task' \in [Run -> [Input -> TaskRow]]
      /\ RunsStarted'
  BY DEF CreationFails, Crash, TypeInv, Types, RunsStarted, Started
<1> QED
  BY <1>2, <1>3, <1>4, EndedTyped DEF CreationFails, Crash

(* Steps of workers and operators move tasks that exist, and write files of *)
(* runs that have them.                                                     *)
LEMMA TaskStepTyped ==
  ASSUME TypeInv, task' \in [Run -> [Input -> TaskRow]],
         file' \in [Dir -> [Name -> Output \cup {NoFile, Garbage}]],
         \A r \in Run, i \in Input : task[r][i].status = "none" => task'[r][i].status = "none",
         UNCHANGED <<world, assets, run, order, making, chosen, crashed, faults, tainted>>
  PROVE  TypeInv'
<1>1. Types'
  BY DEF TypeInv, Types, world
<1> QED
  BY <1>1 DEF TypeInv, RunsStarted, CreatorsStarted, SourcesStarted, Started

LEMMA EndTaskTyped ==
  ASSUME WorldAssumption, TypeInv, NEW r \in Run, NEW i \in Input,
         NEW st \in {"done", "error"}, task[r][i].status # "none", EndTask(r, i, st)
  PROVE  /\ task' \in [Run -> [Input -> TaskRow]]
         /\ \A s \in Run, j \in Input : task[s][j].status = "none" => task'[s][j] = task[s][j]
<1>1. task[r][i] \in TaskRow
  BY DEF TypeInv, Types
<1>2. [task[r][i] EXCEPT !.status = st, !.read = SomeText] \in TaskRow
  BY <1>1, SomeTyped DEF TaskRow
<1>3. task' = [task EXCEPT ![r] = [task[r] EXCEPT ![i] =
                [task[r][i] EXCEPT !.status = st, !.read = SomeText]]]
  BY DEF EndTask, TypeInv, Types, TaskRow
<1> HIDE DEF EndTask
<1> QED
  BY <1>2, <1>3 DEF TypeInv, Types

LEMMA WorkerStepTyped ==
  ASSUME WorldAssumption, TypeInv, NEW r \in Run, NEW i \in Input,
         BeginTask(r, i) \/ CompleteTask(r, i) \/ FailTask(r, i)
  PROVE  TypeInv'
<1>0. task[r][i] \in TaskRow /\ text[i] \in Text
  BY DEF TypeInv, Types
<1>1. CASE BeginTask(r, i)
  <2>1. /\ task[r][i].status # "none"
        /\ file' \in [Dir -> [Name -> Output \cup {NoFile, Garbage}]]
        /\ UNCHANGED <<world, assets, run, order, making, chosen, crashed, faults, tainted>>
    BY <1>1 DEF BeginTask, Orderly, TypeInv, Types
  <2>2. CASE EndTask(r, i, "error")
    BY <2>1, <2>2, EndTaskTyped, TaskStepTyped
  <2>3. CASE task' = [task EXCEPT ![r][i].status = "running", ![r][i].read = text[i]]
    <3> DEFINE begun == [task[r][i] EXCEPT !.status = "running", !.read = text[i]]
    <3>1. begun \in TaskRow
      BY <1>0 DEF TaskRow
    <3>2. task' = [task EXCEPT ![r] = [task[r] EXCEPT ![i] = begun]]
      BY <2>3 DEF TypeInv, Types, TaskRow
    <3> HIDE DEF begun
    <3>3. /\ task' \in [Run -> [Input -> TaskRow]]
          /\ \A s \in Run, j \in Input :
               task[s][j].status = "none" => task'[s][j] = task[s][j]
      BY <2>1, <3>1, <3>2 DEF TypeInv, Types
    <3> QED
      BY <2>1, <3>3, TaskStepTyped
  <2> QED
    BY <1>1, <2>2, <2>3 DEF BeginTask
<1>2. CASE CompleteTask(r, i)
  <2>1. /\ task[r][i].status # "none" /\ EndTask(r, i, "done")
        /\ UNCHANGED <<world, assets, run, order, making, chosen, crashed, faults, tainted>>
    BY <1>2 DEF CompleteTask, Orderly
  <2>2. PICK d \in assets[r] :
          file' = [file EXCEPT ![DirOf(r)][RelOutput[i]] =
                     [definition |-> d, text |-> task[r][i].read]]
    BY <1>2 DEF CompleteTask
  <2>3. [definition |-> d, text |-> task[r][i].read] \in Output
    BY <1>0 DEF Output, TaskRow, TypeInv, Types
  <2>4. DirOf(r) \in Dir
    BY <2>1, StartedRuns DEF TypeInv, RunsStarted
  <2>5. file' \in [Dir -> [Name -> Output \cup {NoFile, Garbage}]]
    BY <2>2, <2>3, <2>4 DEF TypeInv, Types, Name
  <2> QED
    BY <2>1, <2>5, EndTaskTyped, TaskStepTyped
<1>3. CASE FailTask(r, i)
  <2>1. /\ task[r][i].status # "none" /\ EndTask(r, i, "error")
        /\ file' \in [Dir -> [Name -> Output \cup {NoFile, Garbage}]]
        /\ UNCHANGED <<world, assets, run, order, making, chosen, crashed, faults, tainted>>
    BY <1>3 DEF FailTask, Orderly, TypeInv, Types
  <2> QED
    BY <2>1, EndTaskTyped, TaskStepTyped
<1> QED
  BY <1>1, <1>2, <1>3

LEMMA RequeueTyped ==
  ASSUME TypeInv, NEW r \in Run, RequeueErrorTasks(r)
  PROVE  TypeInv'
<1> DEFINE Requeued(j) == IF task[r][j].status = "error"
                          THEN [task[r][j] EXCEPT !.status = "queued"] ELSE task[r][j]
<1>1. \A j \in Input : /\ Requeued(j) \in TaskRow
                       /\ task[r][j].status = "none" => Requeued(j).status = "none"
  <2> TAKE j \in Input
  <2> DEFINE old == task[r][j]
  <2>1. old \in TaskRow
    BY DEF TypeInv, Types
  <2> QED
    BY <2>1 DEF TaskRow
<1>2. task' = [task EXCEPT ![r] = [j \in Input |-> Requeued(j)]]
  BY DEF RequeueErrorTasks
<1> HIDE DEF Requeued
<1>3. /\ task' \in [Run -> [Input -> TaskRow]]
      /\ \A s \in Run, j \in Input :
           task[s][j].status = "none" => task'[s][j].status = "none"
  BY <1>1, <1>2 DEF TypeInv, Types
<1>4. /\ file' \in [Dir -> [Name -> Output \cup {NoFile, Garbage}]]
      /\ UNCHANGED <<world, assets, run, order, making, chosen, crashed, faults, tainted>>
  BY DEF RequeueErrorTasks, Orderly, TypeInv, Types
<1> QED
  BY <1>3, <1>4, TaskStepTyped

LEMMA StatusTyped ==
  ASSUME TypeInv, NEW r \in Run, RunStatus(r)
  PROVE  TypeInv'
<1> DEFINE st == DeriveEffectiveStatus({task[r][i].status : i \in Input})
<1>1. st \in {"queued", "running", "done", "error"}
  BY DEF DeriveEffectiveStatus
<1>2. /\ run' = [run EXCEPT ![r].status = st] /\ run[r].status # "none"
      /\ UNCHANGED <<world, assets, order, task, file, making, chosen, crashed, faults, tainted>>
  BY DEF RunStatus, Orderly
<1> HIDE DEF st
<1>3. run' \in [Run -> RunRow]
  BY <1>1, <1>2 DEF TypeInv, Types, RunRow
<1>4. Types'
  BY <1>2, <1>3 DEF TypeInv, Types, world
<1> QED
  BY <1>2, <1>4 DEF TypeInv, Types, RunsStarted, CreatorsStarted, SourcesStarted, Started

LEMMA PeopleTyped ==
  ASSUME TypeInv,
         \/ EditDefinition
         \/ \E i \in Input : EditInput(i)
         \/ \E d \in Dir, n \in Name : DamageOutput(d, n)
  PROVE  TypeInv'
<1>1. /\ UNCHANGED <<assets, run, order, task, making, chosen, crashed, faults>>
      /\ edits' \in 0..MaxEdits
  <2>1. Edit
    BY DEF EditDefinition, EditInput, DamageOutput
  <2> QED
    BY <2>1, Bounds DEF Edit, NoFault, TypeInv, Types
<1>2. /\ live' \in Definition /\ text' \in [Input -> Text]
      /\ file' \in [Dir -> [Name -> Output \cup {NoFile, Garbage}]]
  <2>0. /\ live \in Definition /\ text \in [Input -> Text]
        /\ file \in [Dir -> [Name -> Output \cup {NoFile, Garbage}]]
    BY DEF TypeInv, Types
  <2>1. CASE EditDefinition
    BY <2>0, <2>1 DEF EditDefinition
  <2>2. ASSUME NEW i \in Input, EditInput(i)
        PROVE  UNCHANGED <<live, file>> /\ text' \in [Input -> Text]
    BY <2>0, <2>2 DEF EditInput
  <2>3. ASSUME NEW n \in Name, NEW d \in Dir, DamageOutput(d, n)
        PROVE  /\ UNCHANGED <<live, text>>
               /\ file' \in [Dir -> [Name -> Output \cup {NoFile, Garbage}]]
    <3>1. PICK x \in {NoFile, Garbage} : file' = [file EXCEPT ![d][n] = x]
      BY <2>3 DEF DamageOutput
    <3>2. file' = [file EXCEPT ![d] = [file[d] EXCEPT ![n] = x]]
      BY <2>0, <3>1
    <3>3. [file[d] EXCEPT ![n] = x] \in [Name -> Output \cup {NoFile, Garbage}]
      BY <2>0
    <3> QED
      BY <2>0, <2>3, <3>2, <3>3 DEF DamageOutput
  <2> QED
    BY <2>0, <2>1, <2>2, <2>3
<1>3. tainted' \subseteq Run
  <2>1. \A c \in Creator : At(c, "frozen") => RunOf(c) \in Run
    BY StartedRuns DEF At
  <2>2. \A d \in Dir : Sharers(d) \subseteq Run
    BY StartedRuns DEF Sharers, Started
  <2>3. tainted \subseteq Run
    BY DEF TypeInv, Types
  <2>4. CASE EditDefinition
    BY <2>1, <2>3, <2>4 DEF EditDefinition, Lapse
  <2>5. ASSUME NEW i \in Input, EditInput(i)
        PROVE  tainted' \subseteq Run
    BY <2>3, <2>5 DEF EditInput, Lapse
  <2>6. ASSUME NEW d \in Dir, NEW n \in Name, DamageOutput(d, n)
        PROVE  tainted' \subseteq Run
    BY <2>2, <2>3, <2>6 DEF DamageOutput, Lapse
  <2> QED
    BY <2>4, <2>5, <2>6
<1>4. Types'
  BY <1>1, <1>2, <1>3 DEF TypeInv, Types
<1> QED
  BY <1>1, <1>4 DEF TypeInv, RunsStarted, CreatorsStarted, SourcesStarted, Started

LEMMA NextTyped ==
  ASSUME WorldAssumption, TypeInv, [Next]_vars
  PROVE  TypeInv'
<1>1. ASSUME NEW c \in Creator,
             \/ FreezeRunAssets(c) \/ BuildExecutionFingerprint(c)
             \/ EnumerateInputCandidates(c) \/ SelectIncrementalSourceRun(c)
             \/ \E i \in Input : \/ QueueInput(c, i) \/ MaterializeReusedOutput(c, i)
                                 \/ ValidateReusedOutput(c, i)
             \/ CreateRun(c) \/ InsertPlannedTasksForRun(c)
             \/ CreationFails(c) \/ Crash(c)
      PROVE  TypeInv'
  BY <1>1, FreezeTyped, PrintedTyped, HashedTyped, SourceTyped, PlanTyped, CreateRunTyped,
     InsertTyped, FaultTyped
<1>2. ASSUME NEW r \in Run,
             \/ \E i \in Input : BeginTask(r, i) \/ CompleteTask(r, i) \/ FailTask(r, i)
             \/ RequeueErrorTasks(r) \/ RunStatus(r)
      PROVE  TypeInv'
  BY <1>2, WorkerStepTyped, RequeueTyped, StatusTyped
<1>3. CASE UNCHANGED vars
  BY <1>3 DEF vars, world, TypeInv, Types, RunsStarted, CreatorsStarted, SourcesStarted, Started
<1> QED
  BY <1>1, <1>2, <1>3, PeopleTyped DEF Next

------------------------------------------------------------------------------
(* Who holds what.  A run id belongs to one command; while that command is  *)
(* at work nobody sees tasks of the run, and the assets are those it froze. *)

Busy(c) == making[c].phase # "idle"

Distinct ==
  \A c, d \in Creator : c # d /\ Busy(c) /\ Busy(d) => making[c].run # making[d].run

Untouched ==
  \A c \in Creator : Busy(c) => \A i \in Input : task[making[c].run][i].status = "none"

HeldBy(c) ==
  /\ assets[making[c].run] # {}
  /\ making[c].run \notin tainted =>
       assets[making[c].run] =
         {IF making[c].phase = "frozen" THEN live ELSE making[c].print}
  /\ making[c].phase = "created" =>
       /\ run[making[c].run].print = making[c].print
       /\ run[making[c].run].status # "none"

Held == \A c \in Creator : Busy(c) => HeldBy(c)

OneDefinition ==
  \A r \in Run : assets[r] = {} \/ \E d \in Definition : assets[r] = {d}

Recorded == {order[k] : k \in 1..Len(order)} = {r \in Run : run[r].status # "none"}

CreationInv ==
  /\ Distinct /\ Untouched /\ Held
  /\ OneDefinition /\ Recorded
  /\ AssetsAccounted /\ DoneIsFinal

LEMMA InitAccounted ==
  ASSUME WorldAssumption, Init
  PROVE  CreationInv
<1>1. Distinct /\ Untouched /\ Held
  BY SomeTyped DEF Init, Distinct, Untouched, Held, Busy, HeldBy
<1>2. OneDefinition /\ AssetsAccounted /\ DoneIsFinal
  BY DEF Init, OneDefinition, AssetsAccounted, DoneIsFinal
<1>3. Recorded
  BY DEF Init, Recorded
<1> QED
  BY <1>1, <1>2, <1>3 DEF CreationInv

LEMMA FreezeAccounted ==
  ASSUME WorldAssumption, TypeInv, TypeInv', CreationInv, NEW c \in Creator, FreezeRunAssets(c)
  PROVE  CreationInv'
<1> DEFINE r == Len(chosen) + 1
<1>1. /\ Len(chosen) < MaxRuns /\ ~Busy(c)
      /\ making' = [making EXCEPT ![c] = [Idle EXCEPT !.phase = "frozen", !.run = r]]
      /\ assets' = [assets EXCEPT ![r] = {live}]
      /\ UNCHANGED <<live, run, order, task, crashed>> /\ tainted \subseteq tainted'
  BY DEF FreezeRunAssets, At, Busy, world, NoFault, Lapse
<1>2. r \in Run /\ r \notin Started
  BY <1>1, StartedRuns, Bounds DEF Run, Started
<1>3. /\ making'[c].run = r /\ making'[c].phase = "frozen"
      /\ \A d \in Creator \ {c} : making'[d] = making[d]
  BY <1>1, SomeTyped DEF TypeInv, Types, Making
<1>4. \A i \in Input : task[r][i].status = "none"
  BY <1>2 DEF TypeInv, RunsStarted
<1>5. /\ assets'[r] = {live} /\ \A s \in Run \ {r} : assets'[s] = assets[s]
  BY <1>1, <1>2 DEF TypeInv, Types
<1>6. \A d \in Creator : Busy(d) => making[d].run \in Run /\ making[d].run # r
  BY <1>2, StartedRuns DEF TypeInv, CreatorsStarted, Busy, RunOf
<1> HIDE DEF r
<1>7. Distinct'
  BY <1>1, <1>3, <1>6 DEF CreationInv, Distinct, Busy
<1>8. Untouched'
  BY <1>1, <1>3, <1>4 DEF CreationInv, Untouched, Busy
<1>9. Held'
  <2> SUFFICES ASSUME NEW d \in Creator, Busy(d)'
               PROVE  HeldBy(d)'
    BY DEF Held
  <2>1. CASE d = c
    BY <1>1, <1>3, <1>5, <2>1 DEF HeldBy
  <2>2. CASE d # c
    <3>1. Busy(d) /\ HeldBy(d) /\ making'[d] = making[d]
      BY <1>3, <2>2 DEF Busy, CreationInv, Held, HeldBy
    <3>2. assets'[making[d].run] = assets[making[d].run]
      BY <1>5, <1>6, <3>1
    <3> QED
      BY <1>1, <3>1, <3>2 DEF HeldBy
  <2> QED
    BY <2>1, <2>2
<1>10. OneDefinition' /\ Recorded' /\ DoneIsFinal'
  <2>1. OneDefinition'
    BY <1>5 DEF CreationInv, OneDefinition, TypeInv, Types
  <2> QED
    BY <1>1, <2>1 DEF CreationInv, Recorded, DoneIsFinal
<1>11. AssetsAccounted'
  <2>1. \A s \in Run : assets'[s] # {} =>
          \/ \E i \in Input : task'[s][i].status # "none"
          \/ \E d \in Creator : RunOf(d)' = s
          \/ s \in crashed'
    <3> SUFFICES ASSUME NEW s \in Run, assets'[s] # {}
                 PROVE  \/ \E i \in Input : task'[s][i].status # "none"
                        \/ \E d \in Creator : RunOf(d)' = s
                        \/ s \in crashed'
      OBVIOUS
    <3>1. CASE s = r
      BY <1>3, <3>1 DEF RunOf
    <3>2. CASE s # r
      <4>1. making[c].run = None
        BY <1>1 DEF TypeInv, CreatorsStarted, Busy
      <4>2. assets[s] # {} /\ UNCHANGED <<task, crashed>> /\ s # None
        BY <1>1, <1>5, <3>2, Bounds
      <4>3. \A d \in Creator : RunOf(d) = s => RunOf(d)' = s
        BY <1>3, <4>1, <4>2 DEF RunOf
      <4> QED
        BY <4>2, <4>3 DEF CreationInv, AssetsAccounted
    <3> QED
      BY <3>1, <3>2
  <2>2. \A s \in Run, i \in Input : task'[s][i].status # "none" =>
          /\ assets'[s] # {}
          /\ s \notin tainted' => assets'[s] = {run'[s].print}
    BY <1>1, <1>4, <1>5 DEF CreationInv, AssetsAccounted
  <2> QED
    BY <2>1, <2>2 DEF AssetsAccounted
<1> QED
  BY <1>7, <1>8, <1>9, <1>10, <1>11 DEF CreationInv

(* Steps between the freezing of the assets and the insertion of the run.   *)
Prepares(c, m) ==
  /\ making' = [making EXCEPT ![c] = m]
  /\ Busy(c) /\ making[c].phase # "created"
  /\ m.run = making[c].run /\ m.phase \in {"printed", "hashed", "planning", "planned"}
  /\ m.print = IF making[c].phase = "frozen" THEN live ELSE making[c].print
  /\ UNCHANGED <<live, assets, run, order, task, crashed, tainted>>

LEMMA Preparations ==
  ASSUME TypeInv, NEW c \in Creator,
         \/ BuildExecutionFingerprint(c)
         \/ EnumerateInputCandidates(c) \/ SelectIncrementalSourceRun(c)
         \/ \E i \in Input : \/ QueueInput(c, i) \/ MaterializeReusedOutput(c, i)
                             \/ ValidateReusedOutput(c, i)
  PROVE  \E m : Prepares(c, m)
<1>0. making \in [Creator -> Making] /\ making[c] \in Making
  BY DEF TypeInv, Types
<1>1. CASE BuildExecutionFingerprint(c)
  <2> DEFINE m == [making[c] EXCEPT !.phase = "printed", !.print = live]
  <2>1. Prepares(c, m)
    BY <1>0, <1>1 DEF BuildExecutionFingerprint, Prepares, Busy, At, Making, world, Orderly
  <2> QED
    BY <2>1
<1>2. CASE EnumerateInputCandidates(c)
  <2> DEFINE m == [making[c] EXCEPT !.phase = "hashed", !.hash = text]
  <2>1. Prepares(c, m)
    BY <1>0, <1>2 DEF EnumerateInputCandidates, Prepares, Busy, At, Making, world, Orderly
  <2> QED
    BY <2>1
<1>3. CASE SelectIncrementalSourceRun(c)
  <2>1. At(c, "hashed") /\ UNCHANGED <<live, assets, run, order, task, crashed, tainted>>
    BY <1>3 DEF SelectIncrementalSourceRun, world, Orderly
  <2>2. CASE making' = [making EXCEPT ![c].phase = "planned",
                                      ![c].plan = [i \in Input |-> "queue"]]
    <3> DEFINE m == [making[c] EXCEPT !.phase = "planned", !.plan = [i \in Input |-> "queue"]]
    <3>1. Prepares(c, m)
      BY <1>0, <2>1, <2>2 DEF Prepares, Busy, At, Making
    <3> QED
      BY <3>1
  <2>3. ASSUME NEW s, making' = [making EXCEPT ![c].phase = "planning", ![c].source = s]
        PROVE  \E m : Prepares(c, m)
    <3> DEFINE m == [making[c] EXCEPT !.phase = "planning", !.source = s]
    <3>1. Prepares(c, m)
      BY <1>0, <2>1, <2>3 DEF Prepares, Busy, At, Making
    <3> QED
      BY <3>1
  <2> QED
    BY <1>3, <2>2, <2>3 DEF SelectIncrementalSourceRun
<1>4. ASSUME NEW i \in Input,
             \/ QueueInput(c, i) \/ MaterializeReusedOutput(c, i)
             \/ ValidateReusedOutput(c, i)
      PROVE  \E m : Prepares(c, m)
  <2>1. PICK d : At(c, "planning") /\ Decide(c, i, d)
    BY <1>4 DEF QueueInput, MaterializeReusedOutput, ValidateReusedOutput, TakenUp
  <2>2. UNCHANGED <<live, assets, run, order, task, crashed, tainted>>
    BY <1>4 DEF QueueInput, MaterializeReusedOutput, ValidateReusedOutput, world, Orderly
  <2> DEFINE m == [making[c] EXCEPT !.plan[i] = d]
  <2>3. Prepares(c, m)
    BY <1>0, <2>1, <2>2 DEF Prepares, Busy, At, Making, Decide
  <2> QED
    BY <2>3
<1> QED
  BY <1>1, <1>2, <1>3, <1>4

LEMMA PreparationsAccounted ==
  ASSUME TypeInv, TypeInv', CreationInv, NEW c \in Creator, NEW m, Prepares(c, m)
  PROVE  CreationInv'
<1>1. /\ making'[c] = m /\ \A d \in Creator \ {c} : making'[d] = making[d]
      /\ \A d \in Creator : RunOf(d)' = RunOf(d) /\ (Busy(d)' <=> Busy(d))
      /\ UNCHANGED <<live, assets, run, order, task, crashed, tainted>>
  BY DEF Prepares, TypeInv, Types, RunOf, Busy
<1>2. Distinct' /\ Untouched'
  BY <1>1 DEF CreationInv, Distinct, Untouched, RunOf
<1>3. Held'
  <2> SUFFICES ASSUME NEW d \in Creator, Busy(d)'
               PROVE  HeldBy(d)'
    BY DEF Held
  <2>1. Busy(d) /\ HeldBy(d)
    BY <1>1 DEF CreationInv, Held
  <2>2. CASE d = c
    BY <1>1, <2>1, <2>2 DEF HeldBy, Prepares
  <2>3. CASE d # c
    BY <1>1, <2>1, <2>3 DEF HeldBy
  <2> QED
    BY <2>2, <2>3
<1>4. OneDefinition' /\ Recorded' /\ DoneIsFinal'
  BY <1>1 DEF CreationInv, OneDefinition, Recorded, DoneIsFinal
<1>5. AssetsAccounted'
  BY <1>1 DEF CreationInv, AssetsAccounted
<1> QED
  BY <1>2, <1>3, <1>4, <1>5 DEF CreationInv

LEMMA CreateRunAccounted ==
  ASSUME TypeInv, TypeInv', CreationInv, NEW c \in Creator, CreateRun(c)
  PROVE  CreationInv'
<1> DEFINE r == RunOf(c)
<1> DEFINE new == [status |-> "queued", print |-> making[c].print]
<1>1. /\ Busy(c) /\ making[c].phase \in {"planning", "planned"}
      /\ run' = [run EXCEPT ![r] = new] /\ order' = Append(order, r)
      /\ UNCHANGED <<live, assets, task, crashed, tainted>>
  BY DEF CreateRun, At, Busy, world, Orderly
<1>2. /\ making'[c] = [making[c] EXCEPT !.phase = "created"]
      /\ \A d \in Creator \ {c} : making'[d] = making[d]
  BY DEF CreateRun, TypeInv, Types
<1>3. /\ making'[c].phase = "created" /\ making'[c].run = r
      /\ making'[c].print = making[c].print /\ r = making[c].run /\ r \in Run
  BY <1>1, <1>2, StartedRuns DEF TypeInv, Types, Making, RunOf, Busy
<1>4. /\ run'[r] = new /\ \A s \in Run \ {r} : run'[s] = run[s]
  BY <1>1, <1>3 DEF TypeInv, Types
<1>5. run'[r].status = "queued" /\ run'[r].print = making[c].print
  BY <1>4
<1>6. \A d \in Creator : RunOf(d)' = RunOf(d) /\ (Busy(d)' <=> Busy(d))
  BY <1>1, <1>2, <1>3 DEF RunOf, Busy
<1>7. \A i \in Input : task[r][i].status = "none"
  BY <1>1, <1>3 DEF CreationInv, Untouched
<1> HIDE DEF r, new
<1>8. Distinct' /\ Untouched'
  BY <1>1, <1>6 DEF CreationInv, Distinct, Untouched, RunOf
<1>9. Held'
  <2> SUFFICES ASSUME NEW d \in Creator, Busy(d)'
               PROVE  HeldBy(d)'
    BY DEF Held
  <2>1. Busy(d) /\ HeldBy(d)
    BY <1>6 DEF CreationInv, Held
  <2>2. CASE d = c
    BY <1>1, <1>3, <1>5, <2>1, <2>2 DEF HeldBy
  <2>3. CASE d # c
    <3>1. making[d].run # r /\ making[d].run \in Run
      BY <1>1, <1>3, <2>1, <2>3, StartedRuns DEF CreationInv, Distinct, Busy, RunOf
    <3>2. run'[making[d].run] = run[making[d].run] /\ making'[d] = making[d]
      BY <1>2, <1>4, <2>3, <3>1
    <3> QED
      BY <1>1, <2>1, <3>2 DEF HeldBy
  <2> QED
    BY <2>2, <2>3
<1>10. OneDefinition' /\ DoneIsFinal'
  BY <1>1, <1>4, <1>5 DEF CreationInv, OneDefinition, DoneIsFinal
<1>11. Recorded'
  <2>1. order \in Seq(Run) /\ Len(order) \in Nat
    BY DEF TypeInv, Types
  <2>2. {order'[k] : k \in 1..Len(order')} = {order[k] : k \in 1..Len(order)} \cup {r}
    BY <1>1, <1>3, <2>1
  <2>3. {s \in Run : run'[s].status # "none"} = {s \in Run : run[s].status # "none"} \cup {r}
    BY <1>3, <1>4, <1>5
  <2> QED
    BY <2>2, <2>3 DEF CreationInv, Recorded
<1>12. AssetsAccounted'
  BY <1>1, <1>4, <1>6, <1>7 DEF CreationInv, AssetsAccounted
<1> QED
  BY <1>8, <1>9, <1>10, <1>11, <1>12 DEF CreationInv

(* When a command ends its work, the others keep theirs. *)
LEMMA OthersAccounted ==
  ASSUME WorldAssumption, TypeInv, CreationInv, NEW c \in Creator, Busy(c),
         making' = [making EXCEPT ![c] = Idle], live' = live, tainted \subseteq tainted',
         \A s \in Run \ {RunOf(c)} :
           assets'[s] = assets[s] /\ run'[s] = run[s] /\ task'[s] = task[s]
  PROVE  Distinct' /\ Untouched' /\ Held'
<1>1. ~Busy(c)' /\ \A d \in Creator \ {c} : making'[d] = making[d]
  BY SomeTyped DEF Busy, TypeInv, Types
<1>2. \A d \in Creator : Busy(d)' =>
        /\ Busy(d) /\ making'[d] = making[d]
        /\ making[d].run \in Run \ {RunOf(c)}
  BY <1>1, StartedRuns DEF Busy, CreationInv, Distinct, RunOf
<1>3. Distinct' /\ Untouched'
  BY <1>2 DEF CreationInv, Distinct, Untouched
<1>4. \A d \in Creator : Busy(d)' => HeldBy(d)'
  <2> SUFFICES ASSUME NEW d \in Creator, Busy(d)'
               PROVE  HeldBy(d)'
    OBVIOUS
  <2>1. Busy(d) /\ HeldBy(d) /\ making'[d] = making[d] /\ making[d].run \in Run \ {RunOf(c)}
    BY <1>2 DEF CreationInv, Held
  <2>2. /\ assets'[making[d].run] = assets[making[d].run]
        /\ run'[making[d].run] = run[making[d].run] /\ live' = live
        /\ making[d].run \notin tainted' => making[d].run \notin tainted
    BY <2>1
  <2> QED
    BY <2>1, <2>2 DEF HeldBy
<1> QED
  BY <1>3, <1>4 DEF Held

LEMMA InsertAccounted ==
  ASSUME WorldAssumption, TypeInv, TypeInv', CreationInv, NEW c \in Creator,
         InsertPlannedTasksForRun(c)
  PROVE  CreationInv'
<1> DEFINE r == RunOf(c)
<1> DEFINE reused == \A i \in Input : making[c].plan[i] = "reuse"
<1>1. /\ Busy(c) /\ making[c].phase = "created" /\ r = making[c].run /\ r \in Run
      /\ making' = [making EXCEPT ![c] = Idle]
      /\ UNCHANGED <<live, assets, order, crashed>> /\ tainted \subseteq tainted'
  BY StartedRuns DEF InsertPlannedTasksForRun, At, Busy, world, NoFault, RunOf
<1>2. /\ run'[r] = [run[r] EXCEPT !.status = IF reused THEN "done" ELSE "queued"]
      /\ task'[r] = [i \in Input |-> PlannedTask(c, i)]
      /\ \A s \in Run \ {r} : run'[s] = run[s] /\ task'[s] = task[s]
  BY <1>1 DEF InsertPlannedTasksForRun, TypeInv, Types
<1>3. /\ run'[r].print = run[r].print
      /\ run'[r].status = IF reused THEN "done" ELSE "queued"
  BY <1>1, <1>2 DEF TypeInv, Types, RunRow
<1>4. \A i \in Input :
        task'[r][i].status = IF making[c].plan[i] = "reuse" THEN "done" ELSE "queued"
  <2> TAKE i \in Input
  <2> DEFINE old == task[r][i]
  <2>1. old \in TaskRow
    BY <1>1 DEF TypeInv, Types
  <2>2. task'[r][i] = PlannedTask(c, i)
    BY <1>2
  <2> QED
    BY <2>1, <2>2 DEF PlannedTask, TaskRow
<1>5. HeldBy(c)
  BY <1>1 DEF CreationInv, Held
<1> HIDE DEF r, reused
<1>6. Distinct' /\ Untouched' /\ Held'
  BY <1>1, <1>2, OthersAccounted DEF r
<1>7. OneDefinition' /\ DoneIsFinal'
  <2>1. DoneIsFinal'
    <3> SUFFICES ASSUME NEW s \in Run, run'[s].status = "done", NEW i \in Input
                 PROVE  task'[s][i].status = "done"
      BY DEF DoneIsFinal
    <3>1. CASE s = r
      BY <1>3, <1>4, <3>1 DEF reused
    <3>2. CASE s # r
      BY <1>2, <3>2 DEF CreationInv, DoneIsFinal
    <3> QED
      BY <3>1, <3>2
  <2> QED
    BY <1>1, <2>1 DEF CreationInv, OneDefinition
<1>8. Recorded'
  <2>1. run[r].status # "none" /\ run'[r].status # "none"
    BY <1>1, <1>3, <1>5 DEF HeldBy
  <2>2. {s \in Run : run'[s].status # "none"} = {s \in Run : run[s].status # "none"}
    <3>1. \A s \in Run : run'[s].status # "none" <=> run[s].status # "none"
      BY <1>2, <2>1
    <3> QED
      BY <3>1
  <2> QED
    BY <1>1, <2>2 DEF CreationInv, Recorded
<1>9. AssetsAccounted'
  <2> SUFFICES ASSUME NEW s \in Run
               PROVE  /\ assets'[s] # {} =>
                           \/ \E i \in Input : task'[s][i].status # "none"
                           \/ \E d \in Creator : RunOf(d)' = s
                           \/ s \in crashed'
                      /\ \A i \in Input : task'[s][i].status # "none" =>
                           /\ assets'[s] # {}
                           /\ s \notin tainted' => assets'[s] = {run'[s].print}
    BY DEF AssetsAccounted
  <2>1. CASE s = r
    <3>1. \E i \in Input : task'[r][i].status # "none"
      BY <1>4 DEF WorldAssumption
    <3>2. assets'[r] # {} /\ (r \notin tainted' => assets'[r] = {run'[r].print})
      BY <1>1, <1>3, <1>5 DEF HeldBy
    <3> QED
      BY <2>1, <3>1, <3>2
  <2>2. CASE s # r
    <3>1. \A d \in Creator : RunOf(d) = s => RunOf(d)' = s
      BY <1>1, <2>2 DEF r, RunOf, TypeInv, Types
    <3>2. assets'[s] = assets[s] /\ run'[s] = run[s] /\ task'[s] = task[s]
      BY <1>1, <1>2, <2>2
    <3> QED
      BY <1>1, <3>1, <3>2 DEF CreationInv, AssetsAccounted
  <2> QED
    BY <2>1, <2>2
<1> QED
  BY <1>6, <1>7, <1>8, <1>9 DEF CreationInv

LEMMA FaultAccounted ==
  ASSUME WorldAssumption, TypeInv, TypeInv', CreationInv, NEW c \in Creator,
         CreationFails(c) \/ Crash(c)
  PROVE  CreationInv'
<1> DEFINE r == RunOf(c)
<1>1. /\ Busy(c) /\ r = making[c].run /\ r \in Run
      /\ making' = [making EXCEPT ![c] = Idle]
      /\ UNCHANGED <<live, run, order, task, tainted>>
      /\ crashed \subseteq crashed'
  BY StartedRuns DEF CreationFails, Crash, At, Busy, world, NoLapse, RunOf
<1>2. \/ assets'[r] = {}
      \/ assets' = assets /\ r \in crashed'
  BY <1>1 DEF CreationFails, Crash, TypeInv, Types
<1>3. \A s \in Run \ {r} : assets'[s] = assets[s]
  BY <1>1 DEF CreationFails, Crash, TypeInv, Types
<1>4. \A i \in Input : task[r][i].status = "none"
  BY <1>1 DEF CreationInv, Untouched
<1>5. \A s \in Run \ {r} : \A d \in Creator : RunOf(d) = s => RunOf(d)' = s
  BY <1>1 DEF RunOf, TypeInv, Types
<1>6. Distinct' /\ Untouched' /\ Held'
  BY <1>1, <1>3, OthersAccounted
<1> HIDE DEF r
<1>7. OneDefinition' /\ DoneIsFinal' /\ Recorded'
  BY <1>1, <1>2, <1>3 DEF CreationInv, OneDefinition, DoneIsFinal, Recorded
<1>8. AssetsAccounted'
  BY <1>1, <1>2, <1>3, <1>4, <1>5 DEF CreationInv, AssetsAccounted
<1> QED
  BY <1>6, <1>7, <1>8 DEF CreationInv

(* Steps that neither create runs nor change what is frozen.               *)
LEMMA OutsideAccounted ==
  ASSUME TypeInv, TypeInv', CreationInv,
         UNCHANGED <<assets, run, order, making, crashed>>,
         tainted \subseteq tainted',
         live' = live \/ \A c \in Creator : At(c, "frozen") => RunOf(c) \in tainted',
         \A r \in Run, i \in Input :
           /\ task[r][i].status = "none" <=> task'[r][i].status = "none"
           /\ task[r][i].status = "done" => task'[r][i].status = "done"
  PROVE  CreationInv'
<1>1. \A c \in Creator : Busy(c) => making[c].run \in Run
  BY StartedRuns DEF Busy, RunOf
<1>2. Distinct' /\ Untouched'
  BY <1>1 DEF CreationInv, Distinct, Untouched, Busy
<1>3. Held'
  <2> SUFFICES ASSUME NEW c \in Creator, Busy(c)'
               PROVE  HeldBy(c)'
    BY DEF Held
  <2>1. Busy(c) /\ HeldBy(c)
    BY DEF CreationInv, Held, Busy
  <2>2. making[c].run \notin tainted' =>
          making[c].run \notin tainted /\ (making[c].phase = "frozen" => live' = live)
    BY DEF At, RunOf
  <2> QED
    BY <2>1, <2>2 DEF HeldBy
<1>4. OneDefinition' /\ Recorded'
  <2>1. OneDefinition'
    BY DEF CreationInv, OneDefinition
  <2>2. Recorded /\ run' = run /\ order' = order
    BY DEF CreationInv
  <2>3. {order'[k] : k \in 1..Len(order')} = {order[k] : k \in 1..Len(order)}
    BY <2>2, Zenon
  <2>4. {s \in Run : run'[s].status # "none"} = {s \in Run : run[s].status # "none"}
    BY <2>2, Zenon
  <2> QED
    BY <2>1, <2>2, <2>3, <2>4 DEF Recorded
<1>5. DoneIsFinal' /\ AssetsAccounted'
  BY DEF CreationInv, DoneIsFinal, AssetsAccounted, RunOf
<1> QED
  BY <1>2, <1>3, <1>4, <1>5 DEF CreationInv

LEMMA WorkerStepAccounted ==
  ASSUME WorldAssumption, TypeInv, TypeInv', CreationInv, NEW r \in Run, NEW i \in Input,
         BeginTask(r, i) \/ CompleteTask(r, i) \/ FailTask(r, i)
  PROVE  CreationInv'
<1>1. /\ UNCHANGED <<live, assets, run, order, making, crashed, tainted>>
      /\ task[r][i].status \in {"queued", "running"}
      /\ \E st \in {"running", "done", "error"} : \E x :
           task' = [task EXCEPT ![r][i].status = st, ![r][i].read = x]
  BY DEF BeginTask, CompleteTask, FailTask, EndTask, world, Orderly
<1>a. PICK st \in {"running", "done", "error"} :
        \E x : task' = [task EXCEPT ![r][i].status = st, ![r][i].read = x]
  BY <1>1
<1>2. PICK x : task' = [task EXCEPT ![r][i].status = st, ![r][i].read = x]
  BY <1>a
<1>3. task'[r][i].status = st
  BY <1>2 DEF TypeInv, Types, TaskRow
<1>4. \A s \in Run, j \in Input : s # r \/ j # i => task'[s][j] = task[s][j]
  BY <1>2 DEF TypeInv, Types
<1> QED
  BY <1>1, <1>3, <1>4, OutsideAccounted

LEMMA RequeueAccounted ==
  ASSUME TypeInv, TypeInv', CreationInv, NEW r \in Run, RequeueErrorTasks(r)
  PROVE  CreationInv'
<1> DEFINE Requeued(j) == IF task[r][j].status = "error"
                          THEN [task[r][j] EXCEPT !.status = "queued"] ELSE task[r][j]
<1>1. \A j \in Input : IF task[r][j].status = "error" THEN Requeued(j).status = "queued"
                       ELSE Requeued(j) = task[r][j]
  <2> TAKE j \in Input
  <2> DEFINE old == task[r][j]
  <2>1. old \in TaskRow
    BY DEF TypeInv, Types
  <2> QED
    BY <2>1 DEF TaskRow
<1>2. /\ task' = [task EXCEPT ![r] = [j \in Input |-> Requeued(j)]]
      /\ UNCHANGED <<live, assets, run, order, making, crashed, tainted>>
  BY DEF RequeueErrorTasks, world, Orderly
<1> HIDE DEF Requeued
<1>3. \A s \in Run, j \in Input :
        task'[s][j] = IF s = r THEN Requeued(j) ELSE task[s][j]
  BY <1>2 DEF TypeInv, Types
<1> QED
  BY <1>1, <1>2, <1>3, OutsideAccounted

LEMMA StatusAccounted ==
  ASSUME TypeInv, TypeInv', CreationInv, NEW r \in Run, RunStatus(r)
  PROVE  CreationInv'
<1> DEFINE S == {task[r][i].status : i \in Input}
<1>1. /\ run[r].status # "none" /\ run' = [run EXCEPT ![r].status = DeriveEffectiveStatus(S)]
      /\ UNCHANGED <<live, assets, order, task, making, crashed, tainted>>
  BY DEF RunStatus, world, Orderly
<1>2. DeriveEffectiveStatus(S) # "none" /\ (DeriveEffectiveStatus(S) = "done" => S = {"done"})
  BY DEF DeriveEffectiveStatus
<1>3. /\ run'[r].status = DeriveEffectiveStatus(S)
      /\ \A s \in Run : run'[s].print = run[s].print
      /\ \A s \in Run \ {r} : run'[s] = run[s]
  BY <1>1 DEF TypeInv, Types, RunRow
<1>4. \A s \in Run : run'[s].status # "none" <=> run[s].status # "none"
  BY <1>1, <1>2, <1>3
<1>5. DoneIsFinal'
  <2> SUFFICES ASSUME NEW s \in Run, run'[s].status = "done", NEW i \in Input
               PROVE  task[s][i].status = "done"
    BY <1>1 DEF DoneIsFinal
  <2>1. CASE s = r
    BY <1>2, <1>3, <2>1
  <2>2. CASE s # r
    BY <1>3, <2>2 DEF CreationInv, DoneIsFinal
  <2> QED
    BY <2>1, <2>2
<1> HIDE DEF S
<1>6. Distinct' /\ Untouched' /\ OneDefinition'
  BY <1>1 DEF CreationInv, Distinct, Untouched, OneDefinition, Busy
<1>7. Held'
  <2> SUFFICES ASSUME NEW c \in Creator, Busy(c)'
               PROVE  HeldBy(c)'
    BY DEF Held
  <2>1. Busy(c) /\ HeldBy(c) /\ making[c].run \in Run
    BY <1>1, StartedRuns DEF CreationInv, Held, Busy, RunOf
  <2> QED
    BY <1>1, <1>3, <1>4, <2>1 DEF HeldBy
<1>8. Recorded'
  BY <1>1, <1>4 DEF CreationInv, Recorded
<1>9. AssetsAccounted'
  BY <1>1, <1>3 DEF CreationInv, AssetsAccounted, RunOf
<1> QED
  BY <1>5, <1>6, <1>7, <1>8, <1>9 DEF CreationInv

LEMMA NextAccounted ==
  ASSUME WorldAssumption, TypeInv, TypeInv', CreationInv, [Next]_vars
  PROVE  CreationInv'
<1>1. ASSUME NEW c \in Creator,
             \/ FreezeRunAssets(c) \/ BuildExecutionFingerprint(c)
             \/ EnumerateInputCandidates(c) \/ SelectIncrementalSourceRun(c)
             \/ \E i \in Input : \/ QueueInput(c, i) \/ MaterializeReusedOutput(c, i)
                                 \/ ValidateReusedOutput(c, i)
             \/ CreateRun(c) \/ InsertPlannedTasksForRun(c)
             \/ CreationFails(c) \/ Crash(c)
      PROVE  CreationInv'
  BY <1>1, FreezeAccounted, Preparations, PreparationsAccounted, CreateRunAccounted,
     InsertAccounted, FaultAccounted
<1>2. ASSUME NEW r \in Run,
             \/ \E i \in Input : BeginTask(r, i) \/ CompleteTask(r, i) \/ FailTask(r, i)
             \/ RequeueErrorTasks(r) \/ RunStatus(r)
      PROVE  CreationInv'
  BY <1>2, WorkerStepAccounted, RequeueAccounted, StatusAccounted
<1>3. CASE \/ EditDefinition
           \/ \E i \in Input : EditInput(i)
         \/ \E d \in Dir, n \in Name : DamageOutput(d, n)
  <2>1. /\ UNCHANGED <<assets, run, order, task, making, crashed>>
        /\ tainted \subseteq tainted'
        /\ live' = live \/ \A c \in Creator : At(c, "frozen") => RunOf(c) \in tainted'
    BY <1>3 DEF EditDefinition, EditInput, DamageOutput, Edit, NoFault, Lapse
  <2> QED
    BY <2>1, OutsideAccounted
<1>4. CASE UNCHANGED vars
  BY <1>4, OutsideAccounted DEF vars, world
<1> QED
  BY <1>1, <1>2, <1>3, <1>4 DEF Next

LEMMA InvTyped ==
  ASSUME TypeInv, CreationInv
  PROVE  CreationTypeOK
<1>1. \A r \in Run : Cardinality(assets[r]) <= 1
  <2> TAKE r \in Run
  <2>1. CASE assets[r] = {}
    BY <2>1, FS_EmptySet
  <2>2. ASSUME NEW d \in Definition, assets[r] = {d}
        PROVE  Cardinality(assets[r]) <= 1
    <3>1. Cardinality({d}) = 1
      BY FS_Singleton
    <3> QED
      BY <2>2, <3>1
  <2> QED
    BY <2>1, <2>2 DEF CreationInv, OneDefinition
<1> QED
  BY <1>1 DEF TypeInv, Types, CreationInv, Recorded, CreationTypeOK

LEMMA Invariance ==
  ASSUME WorldAssumption
  PROVE  Spec => [](TypeInv /\ CreationInv)
<1>1. Init => TypeInv /\ CreationInv
  BY InitTyped, InitAccounted
<1>2. TypeInv /\ CreationInv /\ [Next]_vars => (TypeInv /\ CreationInv)'
  BY NextTyped, NextAccounted
<1> QED
  BY <1>1, <1>2, PTL DEF Spec

(* The rows, files and plans stay what the code takes them for: a run id    *)
(* has at most one frozen definition, and the list by creation time holds   *)
(* exactly the runs that have a row.                                        *)
THEOREM CreationTyped ==
  ASSUME WorldAssumption
  PROVE  Spec => []CreationTypeOK
BY Invariance, InvTyped, PTL

(* With any number of commands, faults and edits: assets without a visible  *)
(* task belong to a command that is at work or was killed, and a run whose  *)
(* tasks are visible has its assets, which are those its fingerprint names  *)
(* unless the definition was edited between the two.                        *)
THEOREM AssetsAccountedAlways ==
  ASSUME WorldAssumption
  PROVE  Spec => []AssetsAccounted
<1>1. CreationInv => AssetsAccounted
  BY DEF CreationInv
<1> QED
  BY <1>1, Invariance, PTL

(* A run recorded as done keeps all of its tasks done, whatever commands,   *)
(* workers, retries and status queries do, and in whatever order.           *)
THEOREM DoneIsFinalAlways ==
  ASSUME WorldAssumption
  PROVE  Spec => []DoneIsFinal
<1>1. CreationInv => DoneIsFinal
  BY DEF CreationInv
<1> QED
  BY <1>1, Invariance, PTL

------------------------------------------------------------------------------
(* ReuseSound: a run that no lapse touched takes over only outputs that it  *)
(* would compute itself, as far as no two inputs write one file.  The       *)
(* invariant follows an output from the worker that writes it to the run    *)
(* that copies it, and on through any chain of runs.                        *)

Clean(r) == r \notin tainted
FileOf(r, i) == file[DirOf(r)][RelOutput[i]]
Right(r, i) == [definition |-> run[r].print, text |-> task[r][i].hash]
Promised(c, i) == [definition |-> making[c].print, text |-> making[c].hash[i]]

DirsDistinct == \A r, s \in Started : Clean(r) /\ DirOf(r) = DirOf(s) => r = s

(* A run that a command is creating is no source: it is not terminal.       *)
Unrecorded ==
  \A c \in Creator : Busy(c) =>
    run[making[c].run].status = IF making[c].phase = "created" THEN "queued" ELSE "none"

SourceFit(c) ==
  /\ run[making[c].source].print = making[c].print
  /\ \A d \in Creator : Busy(d) => making[d].run # making[c].source

SourceFits == \A c \in Creator : making[c].phase = "planning" => SourceFit(c)

Hashes(c) == making[c].phase \notin {"idle", "frozen", "printed"}

InputKept(r, i) ==
  /\ task[r][i].status \in {"queued", "running", "error"} => task[r][i].hash = text[i]
  /\ task[r][i].status = "running" => task[r][i].read = task[r][i].hash

InputsKept ==
  /\ \A r \in Run, i \in Input : Clean(r) => InputKept(r, i)
  /\ \A c \in Creator : Hashes(c) /\ Clean(making[c].run) => making[c].hash = text

(* Nothing spoils what command c does with input i. *)
Safe(c, i) == Alone(i) /\ Clean(making[c].run) /\ Clean(making[c].source)

PlanFit(c, i) ==
  /\ making[c].phase \in {"frozen", "printed", "hashed"} => making[c].plan[i] = "open"
  /\ Safe(c, i) =>
       /\ making[c].plan[i] = "copied" =>
            FileOf(making[c].run, i) \in {Garbage, Promised(c, i)}
       /\ making[c].plan[i] = "reuse" => FileOf(making[c].run, i) = Promised(c, i)

PlanFits == \A c \in Creator : Busy(c) => \A i \in Input : PlanFit(c, i)

OutputsRight ==
  \A r \in Run, i \in Input : Clean(r) /\ Alone(i) /\ task[r][i].status = "done" =>
    FileOf(r, i) \in {NoFile, Garbage, Right(r, i)}

FromNowhere ==
  \A r \in Run, i \in Input : task[r][i].status = "none" => task[r][i].from = None

ReuseInv ==
  /\ DirsDistinct /\ Unrecorded /\ SourceFits /\ InputsKept
  /\ PlanFits /\ OutputsRight /\ FromNowhere

LEMMA InitReuse ==
  ASSUME WorldAssumption, Init
  PROVE  ReuseInv
<1>1. DirsDistinct /\ OutputsRight /\ FromNowhere
  BY DEF Init, DirsDistinct, OutputsRight, FromNowhere, Started
<1>2. Unrecorded /\ SourceFits /\ PlanFits
  BY SomeTyped DEF Init, Unrecorded, SourceFits, PlanFits, PlanFit, Busy
<1>3. InputsKept
  BY SomeTyped DEF Init, InputsKept, InputKept, Hashes
<1> QED
  BY <1>1, <1>2, <1>3 DEF ReuseInv

LEMMA BusyRuns ==
  ASSUME TypeInv, CreationInv
  PROVE  /\ \A c \in Creator : Busy(c) =>
              /\ making[c].run \in Run /\ making[c].run \in Started
              /\ \A i \in Input : task[making[c].run][i].status = "none"
         /\ \A r \in Run, i \in Input : task[r][i].status # "none" => r \in Started
<1>1. \A c \in Creator : Busy(c) => making[c].run \in Run /\ making[c].run \in Started
  BY StartedRuns DEF TypeInv, CreatorsStarted, Busy, RunOf
<1> QED
  BY <1>1 DEF TypeInv, RunsStarted, CreationInv, Untouched

(* Writing an output of one run leaves the directories of the clean runs    *)
(* alone, and in its own one the files of other names.                      *)
LEMMA OthersFiles ==
  ASSUME TypeInv, DirsDistinct, NEW r \in Started, NEW i \in Input, NEW x,
         file' = [file EXCEPT ![DirOf(r)][RelOutput[i]] = x], chosen' = chosen
  PROVE  /\ \A s \in Started \ {r} : Clean(s) =>
              \A j \in Input : FileOf(s, j)' = FileOf(s, j)
         /\ FileOf(r, i)' = x
         /\ \A j \in Input \ {i} : Alone(j) => FileOf(r, j)' = FileOf(r, j)
<1> DEFINE n == RelOutput[i]
<1>1. /\ \A s \in Started : DirOf(s) \in Dir
      /\ file \in [Dir -> [Name -> Output \cup {NoFile, Garbage}]]
      /\ \A j \in Input : RelOutput[j] \in Name
  BY StartedRuns DEF TypeInv, Types, Name
<1>2. file' = [file EXCEPT ![DirOf(r)] = [file[DirOf(r)] EXCEPT ![n] = x]]
  BY <1>1
<1>3. \A s \in Started \ {r} : Clean(s) => DirOf(s) # DirOf(r)
  BY DEF DirsDistinct
<1>4. file'[DirOf(r)] = [file[DirOf(r)] EXCEPT ![n] = x]
  BY <1>1, <1>2
<1>5. \A s \in Started \ {r} : Clean(s) => file'[DirOf(s)] = file[DirOf(s)]
  BY <1>1, <1>2, <1>3
<1>6. \A s : DirOf(s)' = DirOf(s)
  BY DEF DirOf
<1>7. \A j \in Input \ {i} : Alone(j) => RelOutput[j] # n
  BY DEF Alone
<1> HIDE DEF n
<1>8. \A j \in Input \ {i} : Alone(j) =>
        file'[DirOf(r)][RelOutput[j]] = file[DirOf(r)][RelOutput[j]]
  BY <1>1, <1>4, <1>7
<1>9. file'[DirOf(r)][n] = x
  BY <1>1, <1>4 DEF n
<1> QED
  BY <1>5, <1>6, <1>8, <1>9 DEF FileOf, n

LEMMA FreezeReuse ==
  ASSUME WorldAssumption, TypeInv, CreationInv, ReuseInv,
         NEW c \in Creator, FreezeRunAssets(c)
  PROVE  ReuseInv'
<1>0. /\ Len(chosen) \in Nat /\ Len(chosen) < MaxRuns /\ chosen \in Seq(Dir)
      /\ Started = 1..Len(chosen)
  BY StartedRuns DEF FreezeRunAssets, Started, TypeInv, Types
<1>1. PICK r \in Run : r = Len(chosen) + 1
  BY <1>0, Bounds DEF Run
<1>2. /\ ~Busy(c)
      /\ making' = [making EXCEPT ![c] = [Idle EXCEPT !.phase = "frozen", !.run = r]]
      /\ UNCHANGED <<text, run, order, task, file>>
  BY <1>1 DEF FreezeRunAssets, At, Busy, world
<1>3. PICK d \in Dir : chosen' = Append(chosen, d) /\ tainted \subseteq tainted'
                      /\ \A s \in Started : chosen[s] = d => s \in tainted' /\ r \in tainted'
  BY <1>1 DEF FreezeRunAssets, Lapse, Sharers, Started
<1>4. /\ r \notin Started /\ Started' = Started \cup {r}
      /\ chosen'[r] = d /\ \A s \in Started : chosen'[s] = chosen[s]
  BY <1>0, <1>1, <1>3 DEF Started
<1>5. /\ making'[c].run = r /\ making'[c].phase = "frozen" /\ making'[c].plan = Idle.plan
      /\ \A e \in Creator \ {c} : making'[e] = making[e]
  BY <1>2, SomeTyped DEF TypeInv, Types, Making
<1>6. \A i \in Input : Idle.plan[i] = "open"
  BY DEF Idle
<1>7. run[r].status = "none" /\ \A i \in Input : task[r][i].status = "none"
  BY <1>4 DEF TypeInv, RunsStarted
<1>8. DirsDistinct'
  <2> SUFFICES ASSUME NEW a \in Started \cup {r}, NEW b \in Started \cup {r},
                      a \notin tainted', chosen'[a] = chosen'[b]
               PROVE  a = b
    BY <1>4 DEF DirsDistinct, DirOf, Clean
  <2>1. a \in Started /\ b \in Started => a = b
    BY <1>3, <1>4 DEF ReuseInv, DirsDistinct, DirOf, Clean
  <2>2. a = r /\ b \in Started => FALSE
    BY <1>3, <1>4
  <2>3. a \in Started /\ b = r => FALSE
    BY <1>3, <1>4
  <2> QED
    BY <2>1, <2>2, <2>3
<1>9. Unrecorded'
  BY <1>2, <1>5, <1>7 DEF ReuseInv, Unrecorded, Busy
<1>10. SourceFits'
  BY <1>2, <1>4, <1>5 DEF ReuseInv, SourceFits, SourceFit, Busy, TypeInv, SourcesStarted
<1>11. InputsKept'
  BY <1>2, <1>3, <1>5 DEF ReuseInv, InputsKept, InputKept, Hashes, Clean
<1>12. PlanFits'
  <2> SUFFICES ASSUME NEW e \in Creator, Busy(e)', NEW i \in Input
               PROVE  PlanFit(e, i)'
    BY DEF PlanFits
  <2>1. CASE e = c
    BY <1>5, <1>6, <2>1 DEF PlanFit
  <2>2. CASE e # c
    <3>1. /\ Busy(e) /\ making'[e] = making[e]
          /\ DirOf(making[e].run)' = DirOf(making[e].run)
      BY <1>4, <1>5, <2>2, BusyRuns DEF Busy, DirOf
    <3>2. PlanFit(e, i) /\ (Safe(e, i)' => Safe(e, i))
      BY <1>3, <3>1 DEF ReuseInv, PlanFits, Safe, Clean
    <3> QED
      BY <1>2, <3>1, <3>2 DEF PlanFit, Promised, FileOf
  <2> QED
    BY <2>1, <2>2
<1>13. OutputsRight'
  BY <1>2, <1>3, <1>4, BusyRuns DEF ReuseInv, OutputsRight, Right, FileOf, DirOf, Clean
<1>14. FromNowhere'
  BY <1>2 DEF ReuseInv, FromNowhere
<1> QED
  BY <1>8, <1>9, <1>10, <1>11, <1>12, <1>13, <1>14 DEF ReuseInv

(* Steps of a creator in memory, which may write to its own run's directory *)
(* and keep its source and its plan fitting.                                *)
LEMMA MemoryReuse ==
  ASSUME TypeInv, CreationInv, ReuseInv, NEW c \in Creator, NEW m \in Making,
         making' = [making EXCEPT ![c] = m],
         making[c].phase \notin {"idle", "created"}, m.phase \notin {"idle", "created"},
         m.run = making[c].run,
         UNCHANGED <<text, run, task, chosen, tainted>>,
         \A s \in Started \ {m.run} : Clean(s) =>
           \A i \in Input : FileOf(s, i)' = FileOf(s, i),
         SourceFits', m.phase \notin {"frozen", "printed"} /\ Clean(m.run) => m.hash = text,
         \A i \in Input : PlanFit(c, i)'
  PROVE  ReuseInv'
<1>1. /\ making'[c] = m /\ \A d \in Creator \ {c} : making'[d] = making[d]
      /\ \A d \in Creator : (Busy(d)' <=> Busy(d)) /\ making'[d].run = making[d].run
  BY DEF TypeInv, Types, Busy
<1>2. DirsDistinct' /\ FromNowhere'
  BY DEF ReuseInv, DirsDistinct, FromNowhere, Started, DirOf, Clean
<1>3. Unrecorded'
  BY <1>1 DEF ReuseInv, Unrecorded
<1>4. InputsKept'
  BY <1>1 DEF ReuseInv, InputsKept, InputKept, Hashes, Clean
<1>5. PlanFits'
  <2> SUFFICES ASSUME NEW e \in Creator \ {c}, Busy(e)', NEW i \in Input
               PROVE  PlanFit(e, i)'
    BY DEF PlanFits
  <2>1. Busy(e) /\ making'[e] = making[e] /\ making[e].run \in Started \ {m.run}
    BY <1>1, BusyRuns DEF CreationInv, Distinct, Busy
  <2>2. PlanFit(e, i)
    BY <2>1 DEF ReuseInv, PlanFits
  <2>3. /\ Safe(e, i)' <=> Safe(e, i)
        /\ Safe(e, i) => FileOf(making[e].run, i)' = FileOf(making[e].run, i)
        /\ making'[e].run = making[e].run
    BY <2>1 DEF Safe, Clean
  <2>4. Safe(e, i)' => FileOf(making[e].run, i)' = FileOf(making[e].run, i)
    BY <2>3
  <2> QED
    BY <2>1, <2>2, <2>3, <2>4 DEF PlanFit, Promised
<1>6. OutputsRight'
  <2> SUFFICES ASSUME NEW r \in Run, NEW i \in Input, Clean(r), Alone(i),
                      task[r][i].status = "done"
               PROVE  FileOf(r, i)' \in {NoFile, Garbage, Right(r, i)}
    BY DEF OutputsRight, Right, Clean
  <2>1. r \in Started \ {m.run}
    BY BusyRuns DEF Busy
  <2> QED
    BY <2>1 DEF ReuseInv, OutputsRight
<1> QED
  BY <1>2, <1>3, <1>4, <1>5, <1>6 DEF ReuseInv

(* What fits for the others goes on fitting. *)
LEMMA SourcesKept ==
  ASSUME TypeInv, ReuseInv, NEW c \in Creator, NEW m \in Making,
         making' = [making EXCEPT ![c] = m], m.phase # "idle" => Busy(c) /\ m.run = making[c].run,
         m.phase = "planning" => SourceFit(c)',
         \A s \in Run : (\A d \in Creator : Busy(d) => making[d].run # s)
                        => run'[s].print = run[s].print
  PROVE  SourceFits'
<1>1. /\ making'[c] = m /\ \A d \in Creator \ {c} : making'[d] = making[d]
      /\ \A d \in Creator : Busy(d)' => Busy(d) /\ making'[d].run = making[d].run
  BY DEF TypeInv, Types, Busy
<1> SUFFICES ASSUME NEW e \in Creator \ {c}, making'[e].phase = "planning"
             PROVE  SourceFit(e)'
  BY <1>1 DEF SourceFits
<1>2. SourceFit(e) /\ making[e].source \in Run
  BY <1>1, StartedRuns DEF ReuseInv, SourceFits, TypeInv, SourcesStarted
<1> QED
  BY <1>1, <1>2 DEF SourceFit

LEMMA PrintedReuse ==
  ASSUME TypeInv, CreationInv, ReuseInv, NEW c \in Creator, BuildExecutionFingerprint(c)
  PROVE  ReuseInv'
<1> DEFINE m == [making[c] EXCEPT !.phase = "printed", !.print = live]
<1>1. making[c] \in Making /\ live \in Definition
  BY DEF TypeInv, Types
<1>2. /\ m \in Making /\ m.phase = "printed" /\ m.run = making[c].run
      /\ m.plan = making[c].plan
  BY <1>1 DEF Making
<1>3. making' = [making EXCEPT ![c] = m] /\ making'[c] = m /\ making[c].phase = "frozen"
      /\ UNCHANGED <<text, run, task, file, chosen, tainted>>
  BY DEF BuildExecutionFingerprint, At, world, Orderly, TypeInv, Types
<1> HIDE DEF m
<1>4. \A i \in Input : PlanFit(c, i)'
  BY <1>2, <1>3 DEF PlanFit, ReuseInv, PlanFits, Busy
<1>5. SourceFits'
  BY <1>2, <1>3, SourcesKept DEF Busy
<1>6. \A s, i : FileOf(s, i)' = FileOf(s, i)
  BY <1>3 DEF FileOf, DirOf
<1> QED
  BY <1>2, <1>3, <1>4, <1>5, <1>6, MemoryReuse

LEMMA HashedReuse ==
  ASSUME TypeInv, CreationInv, ReuseInv, NEW c \in Creator, EnumerateInputCandidates(c)
  PROVE  ReuseInv'
<1> DEFINE m == [making[c] EXCEPT !.phase = "hashed", !.hash = text]
<1>1. making[c] \in Making /\ text \in [Input -> Text]
  BY DEF TypeInv, Types
<1>2. /\ m \in Making /\ m.phase = "hashed" /\ m.run = making[c].run
      /\ m.plan = making[c].plan /\ m.hash = text
  BY <1>1 DEF Making
<1>3. making' = [making EXCEPT ![c] = m] /\ making'[c] = m /\ making[c].phase = "printed"
      /\ UNCHANGED <<text, run, task, file, chosen, tainted>>
  BY DEF EnumerateInputCandidates, At, world, Orderly, TypeInv, Types
<1> HIDE DEF m
<1>4. \A i \in Input : PlanFit(c, i)'
  BY <1>2, <1>3 DEF PlanFit, ReuseInv, PlanFits, Busy
<1>5. SourceFits'
  BY <1>2, <1>3, SourcesKept DEF Busy
<1>6. \A s, i : FileOf(s, i)' = FileOf(s, i)
  BY <1>3 DEF FileOf, DirOf
<1> QED
  BY <1>2, <1>3, <1>4, <1>5, <1>6, MemoryReuse

LEMMA SourceReuse ==
  ASSUME TypeInv, CreationInv, ReuseInv, NEW c \in Creator, SelectIncrementalSourceRun(c)
  PROVE  ReuseInv'
<1>1. /\ making[c] \in Making /\ making[c].phase = "hashed"
      /\ UNCHANGED <<text, run, task, file, chosen, tainted>>
      /\ \A s, i : FileOf(s, i)' = FileOf(s, i)
  BY DEF SelectIncrementalSourceRun, TypeInv, Types, At, world, Orderly, FileOf, DirOf
<1>2. /\ Clean(making[c].run) => making[c].hash = text
      /\ \A i \in Input : making[c].plan[i] = "open"
  BY <1>1 DEF ReuseInv, InputsKept, Hashes, PlanFits, PlanFit, Busy
<1>3. CASE making' = [making EXCEPT ![c].phase = "planned",
                                    ![c].plan = [i \in Input |-> "queue"]]
  <2> DEFINE m == [making[c] EXCEPT !.phase = "planned", !.plan = [i \in Input |-> "queue"]]
  <2>1. /\ m \in Making /\ m.phase = "planned" /\ m.run = making[c].run
        /\ m.hash = making[c].hash /\ \A i \in Input : m.plan[i] = "queue"
    BY <1>1 DEF Making, Decision
  <2>2. making' = [making EXCEPT ![c] = m] /\ making'[c] = m
    BY <1>3 DEF TypeInv, Types
  <2> HIDE DEF m
  <2>3. \A i \in Input : PlanFit(c, i)'
    BY <2>1, <2>2 DEF PlanFit
  <2>4. SourceFits'
    BY <1>1, <2>1, <2>2, SourcesKept DEF Busy
  <2> QED
    BY <1>1, <1>2, <2>1, <2>2, <2>3, <2>4, MemoryReuse
<1>4. ASSUME NEW s \in FindLatestCompatibleTerminalRun(c) \cup Compatible(c),
             making' = [making EXCEPT ![c].phase = "planning", ![c].source = s]
      PROVE  ReuseInv'
  <2> DEFINE m == [making[c] EXCEPT !.phase = "planning", !.source = s]
  <2>1. /\ s \in Run /\ run[s].status \in {"done", "error"} /\ run[s].print = making[c].print
    BY DEF FindLatestCompatibleTerminalRun, Compatible
  <2>2. /\ m \in Making /\ m.phase = "planning" /\ m.run = making[c].run /\ m.source = s
        /\ m.hash = making[c].hash /\ m.print = making[c].print /\ m.plan = making[c].plan
    BY <1>1, <2>1 DEF Making
  <2>3. making' = [making EXCEPT ![c] = m] /\ making'[c] = m
        /\ \A d \in Creator : (Busy(d)' <=> Busy(d)) /\ making'[d].run = making[d].run
    BY <1>1, <1>4, <2>2 DEF TypeInv, Types, Busy
  <2> HIDE DEF m
  <2>4. \A d \in Creator : Busy(d) => making[d].run # s
    BY <2>1 DEF ReuseInv, Unrecorded
  <2>5. \A i \in Input : PlanFit(c, i)'
    BY <1>2, <2>2, <2>3 DEF PlanFit
  <2>6. SourceFit(c)'
    BY <1>1, <2>1, <2>2, <2>3, <2>4 DEF SourceFit
  <2>7. SourceFits'
    BY <1>1, <2>2, <2>3, <2>6, SourcesKept DEF Busy
  <2> QED
    BY <1>1, <1>2, <2>2, <2>3, <2>5, <2>7, MemoryReuse
<1> QED
  BY <1>3, <1>4 DEF SelectIncrementalSourceRun

(* A decision d on an input, which fits the files as they are afterwards.   *)
LEMMA DecideReuse ==
  ASSUME TypeInv, CreationInv, ReuseInv, NEW c \in Creator, NEW i \in Input, NEW d \in Decision,
         making[c].phase = "planning", Decide(c, i, d),
         UNCHANGED <<text, run, task, chosen, tainted>>,
         NEW r, r = making[c].run,
         \A s \in Started \ {r} : Clean(s) => \A j \in Input : FileOf(s, j)' = FileOf(s, j),
         \A j \in Input \ {i} : Alone(j) => FileOf(r, j)' = FileOf(r, j),
         d = "copied" /\ Safe(c, i) => FileOf(r, i)' \in {Garbage, Promised(c, i)},
         d = "reuse" /\ Safe(c, i) => FileOf(r, i)' = Promised(c, i)
  PROVE  ReuseInv'
<1> DEFINE m == [making[c] EXCEPT !.plan[i] = d]
<1>1. making[c] \in Making /\ making' = [making EXCEPT ![c] = m]
  BY DEF TypeInv, Types, Decide
<1>2. /\ m \in Making /\ m.phase = "planning" /\ m.run = making[c].run
      /\ m.source = making[c].source /\ m.print = making[c].print /\ m.hash = making[c].hash
      /\ m.plan[i] = d /\ \A j \in Input \ {i} : m.plan[j] = making[c].plan[j]
  BY <1>1 DEF Making
<1> HIDE DEF m
<1>3. /\ making'[c] = m
      /\ \A e \in Creator : (Busy(e)' <=> Busy(e)) /\ making'[e].run = making[e].run
  BY <1>1, <1>2 DEF TypeInv, Types, Busy
<1>4. Clean(m.run) => m.hash = text
  BY <1>2 DEF ReuseInv, InputsKept, Hashes
<1>5. \A j \in Input : PlanFit(c, j)'
  <2> SUFFICES ASSUME NEW j \in Input
               PROVE  PlanFit(c, j)'
    OBVIOUS
  <2>1. PlanFit(c, j)
    BY DEF ReuseInv, PlanFits, Busy
  <2>2. /\ Safe(c, j)' <=> Safe(c, j)
        /\ making'[c].run = r /\ Promised(c, j)' = Promised(c, j)
    BY <1>2, <1>3 DEF Safe, Clean, Promised
  <2>3. CASE j = i
    BY <1>2, <1>3, <2>2, <2>3 DEF PlanFit
  <2>4. CASE j # i
    <3>1. Safe(c, j) => FileOf(r, j)' = FileOf(r, j)
      BY <2>4 DEF Safe
    <3> QED
      BY <1>2, <1>3, <2>1, <2>2, <2>4, <3>1 DEF PlanFit
  <2> QED
    BY <2>3, <2>4
<1>6. SourceFit(c)'
  BY <1>2, <1>3 DEF SourceFit, ReuseInv, SourceFits
<1>7. SourceFits'
  BY <1>1, <1>2, <1>6, SourcesKept DEF Busy
<1> QED
  BY <1>1, <1>2, <1>4, <1>5, <1>7, MemoryReuse

LEMMA PlanReuse ==
  ASSUME TypeInv, CreationInv, ReuseInv, NEW c \in Creator, NEW i \in Input,
         \/ QueueInput(c, i) \/ MaterializeReusedOutput(c, i)
         \/ ValidateReusedOutput(c, i)
  PROVE  ReuseInv'
<1>0. PICK r \in Started : r = making[c].run
  BY BusyRuns DEF QueueInput, MaterializeReusedOutput, ValidateReusedOutput, TakenUp, At, Busy
<1>1. /\ making[c].phase = "planning" /\ UNCHANGED <<text, run, task, chosen, tainted>>
      /\ r = making[c].run /\ RunOf(c) = r
  BY <1>0 DEF QueueInput, MaterializeReusedOutput, ValidateReusedOutput, TakenUp, At,
     world, Orderly, RunOf
<1>2. CASE QueueInput(c, i)
  <2>1. Decide(c, i, "queue") /\ \A s, j : FileOf(s, j)' = FileOf(s, j)
    BY <1>1, <1>2 DEF QueueInput, FileOf, DirOf
  <2> QED
    BY <1>1, <2>1, DecideReuse DEF Decision
<1>3. CASE MaterializeReusedOutput(c, i)
  <2> DEFINE s == making[c].source
  <2>1. /\ Decide(c, i, "copied")
        /\ file' = [file EXCEPT ![DirOf(r)][RelOutput[i]] = Source(c, i)]
        /\ Source(c, i) # NoFile /\ Prior(c, i)
    BY <1>1, <1>3 DEF MaterializeReusedOutput
  <2>2. s \in Run /\ s \in Started
    BY <1>1, StartedRuns DEF TypeInv, SourcesStarted
  <2>3. /\ task[s][i].status = "done" /\ task[s][i].hash = making[c].hash[i]
        /\ run[s].print = making[c].print
    BY <1>1, <2>1 DEF Prior, ReuseInv, SourceFits, SourceFit
  <2>4. Safe(c, i) => Source(c, i) \in {Garbage, Promised(c, i)}
    BY <2>1, <2>2, <2>3 DEF Source, Safe, FileOf, ReuseInv, OutputsRight, Right, Promised
  <2>5. DirsDistinct
    BY DEF ReuseInv
  <2>6. /\ \A q \in Started \ {r} : Clean(q) =>
             \A j \in Input : FileOf(q, j)' = FileOf(q, j)
        /\ FileOf(r, i)' = Source(c, i)
        /\ \A j \in Input \ {i} : Alone(j) => FileOf(r, j)' = FileOf(r, j)
    BY <1>1, <2>1, <2>5, OthersFiles
  <2> QED
    BY <1>1, <2>1, <2>4, <2>6, DecideReuse DEF Decision
<1>4. CASE ValidateReusedOutput(c, i)
  <2>1. /\ making[c].plan[i] = "copied"
        /\ LET copy == FileOf(r, i)
           IN /\ Decide(c, i, IF copy = Garbage THEN "queue" ELSE "reuse")
              /\ file' = IF copy = Garbage
                         THEN [file EXCEPT ![DirOf(r)][RelOutput[i]] = NoFile] ELSE file
    BY <1>1, <1>4 DEF ValidateReusedOutput, FileOf
  <2>2. Safe(c, i) => FileOf(r, i) \in {Garbage, Promised(c, i)}
    BY <1>1, <2>1 DEF ReuseInv, PlanFits, PlanFit, Busy
  <2>3. CASE FileOf(r, i) = Garbage
    <3>1. Decide(c, i, "queue") /\ file' = [file EXCEPT ![DirOf(r)][RelOutput[i]] = NoFile]
      BY <2>1, <2>3
    <3>2. DirsDistinct
      BY DEF ReuseInv
    <3>3. /\ \A q \in Started \ {r} : Clean(q) =>
               \A j \in Input : FileOf(q, j)' = FileOf(q, j)
          /\ \A j \in Input \ {i} : Alone(j) => FileOf(r, j)' = FileOf(r, j)
      BY <1>1, <3>1, <3>2, OthersFiles
    <3> QED
      BY <1>1, <3>1, <3>3, DecideReuse DEF Decision
  <2>4. CASE FileOf(r, i) # Garbage
    <3>1. Decide(c, i, "reuse") /\ \A s, j : FileOf(s, j)' = FileOf(s, j)
      BY <1>1, <2>1, <2>4 DEF FileOf, DirOf
    <3> QED
      BY <1>1, <2>2, <2>4, <3>1, DecideReuse DEF Decision
  <2> QED
    BY <2>3, <2>4
<1> QED
  BY <1>2, <1>3, <1>4

LEMMA CreateRunReuse ==
  ASSUME TypeInv, CreationInv, ReuseInv, NEW c \in Creator, CreateRun(c)
  PROVE  ReuseInv'
<1> DEFINE r == making[c].run
<1> DEFINE m == [making[c] EXCEPT !.phase = "created"]
<1>1. /\ making[c].phase \in {"planning", "planned"} /\ RunOf(c) = r /\ Busy(c)
      /\ UNCHANGED <<text, task, file, chosen, tainted>>
  BY DEF CreateRun, At, world, Orderly, RunOf, Busy
<1>2. making[c] \in Making /\ r \in Run /\ \A i \in Input : task[r][i].status = "none"
  BY <1>1, BusyRuns DEF TypeInv, Types
<1>3. /\ m \in Making /\ m.phase = "created" /\ m.run = r
      /\ m.hash = making[c].hash /\ m.plan = making[c].plan /\ m.print = making[c].print
      /\ m.source = making[c].source
  BY <1>2 DEF Making
<1>4. /\ making' = [making EXCEPT ![c] = m] /\ making'[c] = m
      /\ \A d \in Creator \ {c} : making'[d] = making[d]
      /\ \A d \in Creator : (Busy(d)' <=> Busy(d)) /\ making'[d].run = making[d].run
  BY <1>1, <1>2, <1>3 DEF CreateRun, TypeInv, Types, Busy
<1>5. /\ run'[r].status = "queued" /\ \A s \in Run \ {r} : run'[s] = run[s]
  BY <1>1, <1>2 DEF CreateRun, TypeInv, Types
<1> HIDE DEF m
<1>6. DirsDistinct' /\ FromNowhere'
  BY <1>1 DEF ReuseInv, DirsDistinct, FromNowhere, Started, DirOf, Clean
<1>7. Unrecorded'
  <2> SUFFICES ASSUME NEW d \in Creator, Busy(d)
               PROVE  run'[making[d].run].status =
                        IF making'[d].phase = "created" THEN "queued" ELSE "none"
    BY <1>4 DEF Unrecorded
  <2>1. CASE d = c
    BY <1>3, <1>4, <1>5, <2>1
  <2>2. CASE d # c
    <3>1. making[d].run \in Run \ {r}
      BY <1>1, <2>2, BusyRuns DEF CreationInv, Distinct
    <3> QED
      BY <1>4, <1>5, <2>2, <3>1 DEF ReuseInv, Unrecorded
  <2> QED
    BY <2>1, <2>2
<1>8. InputsKept'
  BY <1>1, <1>3, <1>4 DEF ReuseInv, InputsKept, InputKept, Hashes, Clean
<1>9. SourceFits'
  <2>1. \A s \in Run : (\A d \in Creator : Busy(d) => making[d].run # s)
                       => run'[s].print = run[s].print
    BY <1>1, <1>5
  <2> QED
    BY <1>1, <1>3, <1>4, <2>1, SourcesKept
<1>10. PlanFits'
  <2> SUFFICES ASSUME NEW d \in Creator, Busy(d), NEW i \in Input
               PROVE  PlanFit(d, i)'
    BY <1>4 DEF PlanFits
  <2>1. PlanFit(d, i)
    BY DEF ReuseInv, PlanFits
  <2>2. CASE d = c
    BY <1>1, <1>3, <1>4, <2>1, <2>2 DEF PlanFit, Promised, Safe, Clean, FileOf, DirOf
  <2>3. CASE d # c
    BY <1>1, <1>4, <2>1, <2>3 DEF PlanFit, Promised, Safe, Clean, FileOf, DirOf
  <2> QED
    BY <2>2, <2>3
<1>11. OutputsRight'
  <2> SUFFICES ASSUME NEW s \in Run, NEW i \in Input, Clean(s), Alone(i),
                      task[s][i].status = "done"
               PROVE  FileOf(s, i) \in {NoFile, Garbage, Right(s, i)'}
    BY <1>1 DEF OutputsRight, FileOf, DirOf, Clean
  <2>1. s # r
    BY <1>2
  <2> QED
    BY <1>1, <1>5, <2>1 DEF ReuseInv, OutputsRight, Right
<1> QED
  BY <1>6, <1>7, <1>8, <1>9, <1>10, <1>11 DEF ReuseInv

(* When a command ends its work, what fits for the others goes on fitting.  *)
LEMMA OthersReuse ==
  ASSUME WorldAssumption, TypeInv, CreationInv, ReuseInv, NEW c \in Creator, Busy(c),
         making' = [making EXCEPT ![c] = Idle], UNCHANGED <<text, file, chosen>>,
         tainted \subseteq tainted',
         \A s \in Run \ {making[c].run} : run'[s] = run[s]
  PROVE  /\ DirsDistinct' /\ Unrecorded' /\ SourceFits' /\ PlanFits'
         /\ \A d \in Creator : Hashes(d)' /\ Clean(making[d].run)' => making'[d].hash = text'
<1>1. /\ ~Busy(c)' /\ making'[c].phase = "idle"
      /\ \A d \in Creator \ {c} : making'[d] = making[d]
  BY SomeTyped DEF Busy, TypeInv, Types
<1>2. \A d \in Creator : Busy(d)' =>
        Busy(d) /\ d # c /\ making[d].run \in Run \ {making[c].run}
  BY <1>1, BusyRuns DEF Busy, CreationInv, Distinct
<1>3. /\ DirsDistinct'
      /\ \A d \in Creator : Hashes(d)' /\ Clean(making[d].run)' => making'[d].hash = text'
  BY <1>1 DEF ReuseInv, DirsDistinct, InputsKept, Hashes, Started, DirOf, Clean
<1>4. Unrecorded'
  BY <1>1, <1>2 DEF ReuseInv, Unrecorded
<1>5. SourceFits'
  <2>1. Idle \in Making /\ Idle.phase = "idle"
    BY SomeTyped
  <2>2. \A s \in Run : (\A d \in Creator : Busy(d) => making[d].run # s)
                       => run'[s].print = run[s].print
    OBVIOUS
  <2> QED
    BY <2>1, <2>2, SourcesKept
<1>6. PlanFits'
  <2> SUFFICES ASSUME NEW d \in Creator, Busy(d)', NEW i \in Input
               PROVE  PlanFit(d, i)'
    BY DEF PlanFits
  <2>1. PlanFit(d, i) /\ making'[d] = making[d]
    BY <1>1, <1>2 DEF ReuseInv, PlanFits
  <2> QED
    BY <2>1 DEF PlanFit, Promised, Safe, Clean, FileOf, DirOf
<1> QED
  BY <1>3, <1>4, <1>5, <1>6

(* The rows that a command inserts. *)
LEMMA InsertedRows ==
  ASSUME TypeInv, CreationInv, NEW c \in Creator, InsertPlannedTasksForRun(c)
  PROVE  /\ Busy(c) /\ making[c].phase = "created" /\ making[c].run \in Run
         /\ \A s \in Run \ {making[c].run} : task'[s] = task[s] /\ run'[s] = run[s]
         /\ run'[making[c].run].print = making[c].print
         /\ \A i \in Input :
              LET new == task'[making[c].run][i]
                  reused == making[c].plan[i] = "reuse"
              IN /\ new.status = IF reused THEN "done" ELSE "queued"
                 /\ new.hash = making[c].hash[i]
                 /\ ~reused => new.from = None
<1> DEFINE r == making[c].run
<1>1. Busy(c) /\ making[c].phase = "created" /\ RunOf(c) = r
  BY DEF InsertPlannedTasksForRun, At, Busy, RunOf
<1>2. r \in Run /\ HeldBy(c)
  BY <1>1, BusyRuns DEF CreationInv, Held
<1>3. /\ \A s \in Run \ {r} : task'[s] = task[s] /\ run'[s] = run[s]
      /\ \A i \in Input : task'[r][i] = PlannedTask(c, i)
      /\ run'[r].print = run[r].print
  BY <1>1, <1>2 DEF InsertPlannedTasksForRun, TypeInv, Types, RunRow
<1>4. run[r].print = making[c].print
  BY <1>1, <1>2 DEF HeldBy
<1>5. \A i \in Input :
        LET new == task'[r][i]
            reused == making[c].plan[i] = "reuse"
        IN /\ new.status = IF reused THEN "done" ELSE "queued"
           /\ new.hash = making[c].hash[i]
           /\ ~reused => new.from = None
  <2> TAKE i \in Input
  <2>1. task[r][i] \in TaskRow
    BY <1>2 DEF TypeInv, Types
  <2> QED
    BY <1>1, <1>3, <2>1 DEF PlannedTask, TaskRow
<1> QED
  BY <1>1, <1>2, <1>3, <1>4, <1>5

LEMMA InsertReuse ==
  ASSUME WorldAssumption, TypeInv, CreationInv, ReuseInv, NEW c \in Creator,
         InsertPlannedTasksForRun(c)
  PROVE  ReuseInv'
<1>0. PICK r \in Run : r = making[c].run
  BY InsertedRows
<1>1. /\ Busy(c) /\ making[c].phase = "created" /\ r = making[c].run
      /\ making' = [making EXCEPT ![c] = Idle]
      /\ UNCHANGED <<text, file, chosen>> /\ tainted \subseteq tainted'
      /\ Clean(r)' => Clean(making[c].source)
  BY <1>0, InsertedRows DEF InsertPlannedTasksForRun, world, RunOf, Clean
<1>2. \A s \in Run \ {r} : task'[s] = task[s] /\ run'[s] = run[s]
  BY <1>1, InsertedRows
<1>3. \A i \in Input :
        /\ task'[r][i].status = IF making[c].plan[i] = "reuse" THEN "done" ELSE "queued"
        /\ task'[r][i].hash = making[c].hash[i] /\ run'[r].print = making[c].print
  BY <1>1, InsertedRows
<1>4. Clean(r) => making[c].hash = text
  BY <1>1 DEF ReuseInv, InputsKept, Hashes
<1>a. \A s : Clean(s)' => Clean(s)
  BY <1>1 DEF Clean
<1>5. /\ DirsDistinct' /\ Unrecorded' /\ SourceFits' /\ PlanFits'
      /\ \A d \in Creator : Hashes(d)' /\ Clean(making[d].run)' => making'[d].hash = text'
  BY <1>1, <1>2, OthersReuse
<1>6. InputsKept'
  <2>1. ASSUME NEW s \in Run, NEW i \in Input, Clean(s)
        PROVE  InputKept(s, i)'
    <3>1. CASE s = r
      BY <1>1, <1>3, <1>4, <2>1, <3>1 DEF InputKept
    <3>2. CASE s # r
      BY <1>1, <1>2, <2>1, <3>2 DEF ReuseInv, InputsKept, InputKept
    <3> QED
      BY <3>1, <3>2
  <2> QED
    BY <1>a, <1>5, <2>1 DEF InputsKept
<1>7. OutputsRight'
  <2> SUFFICES ASSUME NEW s \in Run, NEW i \in Input, Clean(s)', Alone(i),
                      task'[s][i].status = "done"
               PROVE  FileOf(s, i) \in {NoFile, Garbage, Right(s, i)'}
    BY <1>1 DEF OutputsRight, FileOf, DirOf
  <2>1. CASE s = r
    <3>1. making[c].plan[i] = "reuse"
      BY <1>3, <2>1
    <3>2. FileOf(r, i) = Promised(c, i)
      BY <1>1, <1>a, <2>1, <3>1 DEF ReuseInv, PlanFits, PlanFit, Safe
    <3> QED
      BY <1>3, <2>1, <3>2 DEF Right, Promised
  <2>2. CASE s # r
    BY <1>2, <1>a, <2>2 DEF ReuseInv, OutputsRight, Right
  <2> QED
    BY <2>1, <2>2
<1>8. FromNowhere'
  BY <1>2, <1>3 DEF ReuseInv, FromNowhere
<1> QED
  BY <1>5, <1>6, <1>7, <1>8 DEF ReuseInv

LEMMA FaultReuse ==
  ASSUME WorldAssumption, TypeInv, CreationInv, ReuseInv, NEW c \in Creator,
         CreationFails(c) \/ Crash(c)
  PROVE  ReuseInv'
<1>1. /\ Busy(c) /\ making' = [making EXCEPT ![c] = Idle]
      /\ UNCHANGED <<text, file, chosen, run, task, tainted>>
  BY DEF CreationFails, Crash, At, Busy, world, NoLapse
<1>2. /\ DirsDistinct' /\ Unrecorded' /\ SourceFits' /\ PlanFits'
      /\ \A d \in Creator : Hashes(d)' /\ Clean(making[d].run)' => making'[d].hash = text'
  BY <1>1, OthersReuse
<1>3. InputsKept' /\ FromNowhere'
  BY <1>1, <1>2 DEF ReuseInv, InputsKept, InputKept, Clean, FromNowhere
<1>4. OutputsRight'
  BY <1>1 DEF ReuseInv, OutputsRight, Right, FileOf, DirOf, Clean
<1> QED
  BY <1>2, <1>3, <1>4 DEF ReuseInv

(* Steps outside of creation: creators, directories and prints stay. *)
LEMMA OutsideReuse ==
  ASSUME TypeInv, CreationInv, ReuseInv,
         UNCHANGED <<making, chosen>>, tainted \subseteq tainted',
         \A s \in Run : run'[s].print = run[s].print,
         \A c \in Creator : Busy(c) => run'[making[c].run].status = run[making[c].run].status,
         \A c \in Creator : Busy(c) => \A s \in Started : s = making[c].run /\ Clean(s)' =>
           \A i \in Input : FileOf(s, i)' = FileOf(s, i)
  PROVE  DirsDistinct' /\ Unrecorded' /\ SourceFits' /\ PlanFits'
<1>1. DirsDistinct'
  BY DEF ReuseInv, DirsDistinct, Started, DirOf, Clean
<1>2. Unrecorded'
  BY DEF ReuseInv, Unrecorded, Busy
<1>3. SourceFits'
  <2>1. \A c \in Creator : making[c].phase = "planning" => making[c].source \in Run
    BY StartedRuns DEF TypeInv, SourcesStarted
  <2> QED
    BY <2>1 DEF ReuseInv, SourceFits, SourceFit, Busy
<1>4. PlanFits'
  <2> SUFFICES ASSUME NEW c \in Creator, Busy(c), NEW i \in Input
               PROVE  PlanFit(c, i)'
    BY DEF PlanFits, Busy
  <2>1. PlanFit(c, i) /\ making[c].run \in Started
    BY BusyRuns DEF ReuseInv, PlanFits
  <2>2. Safe(c, i)' => Safe(c, i) /\ FileOf(making[c].run, i)' = FileOf(making[c].run, i)
    BY <2>1 DEF Safe, Clean
  <2> QED
    BY <2>1, <2>2 DEF PlanFit, Promised
<1> QED
  BY <1>1, <1>2, <1>3, <1>4

(* A task changes only in its status and what was read for it. *)
Moved(r, i) ==
  /\ task'[r][i].hash = task[r][i].hash
  /\ \A s \in Run, j \in Input : s # r \/ j # i => task'[s][j] = task[s][j]

LEMMA Moves ==
  ASSUME TypeInv, NEW r \in Run, NEW i \in Input, NEW st, NEW x,
         task' = [task EXCEPT ![r][i].status = st, ![r][i].read = x]
  PROVE  /\ Moved(r, i)
         /\ task'[r][i].status = st /\ task'[r][i].read = x
<1>1. task \in [Run -> [Input -> TaskRow]]
  BY DEF TypeInv, Types
<1> QED
  BY <1>1 DEF TaskRow, Moved

LEMMA TaskReuse ==
  ASSUME TypeInv, CreationInv, ReuseInv, NEW r \in Run, NEW i \in Input, Moved(r, i),
         task[r][i].status # "none", task'[r][i].status # "none",
         Clean(r) /\ task'[r][i].status # "done" => task[r][i].hash = text[i],
         Clean(r) /\ task'[r][i].status = "running" => task'[r][i].read = task[r][i].hash,
         UNCHANGED <<text, making, run, chosen, tainted>>,
         \A s \in Started \ {r} : Clean(s) => \A j \in Input : FileOf(s, j)' = FileOf(s, j),
         \A j \in Input \ {i} : Alone(j) => FileOf(r, j)' = FileOf(r, j),
         Clean(r) /\ task'[r][i].status = "done" => FileOf(r, i)' = Right(r, i)
  PROVE  ReuseInv'
<1>1. /\ task'[r][i].hash = task[r][i].hash
      /\ \A s \in Run, j \in Input : s # r \/ j # i => task'[s][j] = task[s][j]
  BY DEF Moved
<1>2. \A c \in Creator : Busy(c) => making[c].run \in Started \ {r}
  BY BusyRuns
<1>a. \A s : Clean(s)' = Clean(s)
  BY DEF Clean
<1>3. DirsDistinct' /\ Unrecorded' /\ SourceFits' /\ PlanFits'
  BY <1>2, <1>a, OutsideReuse
<1>4. InputsKept'
  <2>1. ASSUME NEW s \in Run, NEW j \in Input, Clean(s)
        PROVE  InputKept(s, j)'
    <3>1. CASE s = r /\ j = i
      BY <1>1, <2>1, <3>1 DEF InputKept
    <3>2. CASE s # r \/ j # i
      <4>1. task'[s][j] = task[s][j]
        BY <1>1, <3>2
      <4> QED
        BY <2>1, <4>1 DEF ReuseInv, InputsKept, InputKept
    <3> QED
      BY <3>1, <3>2
  <2>2. \A c \in Creator : Hashes(c)' /\ Clean(making[c].run)' => making'[c].hash = text'
    BY DEF ReuseInv, InputsKept, Hashes, Clean
  <2> QED
    BY <1>a, <2>1, <2>2 DEF InputsKept
<1>5. FromNowhere'
  <2> SUFFICES ASSUME NEW s \in Run, NEW j \in Input, task'[s][j].status = "none"
               PROVE  task'[s][j].from = None
    BY DEF FromNowhere
  <2>1. s # r \/ j # i
    BY <1>1
  <2>2. task'[s][j] = task[s][j]
    BY <1>1, <2>1
  <2> QED
    BY <2>2 DEF ReuseInv, FromNowhere
<1>6. OutputsRight'
  <2> SUFFICES ASSUME NEW s \in Run, NEW j \in Input, Clean(s), Alone(j),
                      task'[s][j].status = "done"
               PROVE  FileOf(s, j)' \in {NoFile, Garbage, Right(s, j)'}
    BY <1>a DEF OutputsRight
  <2>1. CASE s = r /\ j = i
    BY <1>1, <2>1 DEF Right
  <2>2. CASE s # r \/ j # i
    <3>1. task[s][j].status = "done" /\ task'[s][j] = task[s][j]
      BY <1>1, <2>2
    <3>2. s \in Started
      BY <3>1, BusyRuns
    <3>3. FileOf(s, j)' = FileOf(s, j)
      BY <2>2, <3>2
    <3>4. FileOf(s, j) \in {NoFile, Garbage, Right(s, j)}
      BY <3>1 DEF ReuseInv, OutputsRight
    <3>5. Right(s, j)' = Right(s, j)
      BY <3>1 DEF Right
    <3> QED
      BY <3>3, <3>4, <3>5
  <2> QED
    BY <2>1, <2>2
<1> QED
  BY <1>3, <1>4, <1>5, <1>6 DEF ReuseInv

LEMMA WorkerReuse ==
  ASSUME WorldAssumption, TypeInv, CreationInv, ReuseInv,
         NEW r \in Run, NEW i \in Input,
         BeginTask(r, i) \/ CompleteTask(r, i) \/ FailTask(r, i)
  PROVE  ReuseInv'
<1>1. CASE BeginTask(r, i)
  <2>1. /\ task[r][i].status = "queued"
        /\ UNCHANGED <<text, file, making, run, chosen, tainted>>
        /\ \/ task' = [task EXCEPT ![r][i].status = "error", ![r][i].read = SomeText]
           \/ task' = [task EXCEPT ![r][i].status = "running", ![r][i].read = text[i]]
    BY <1>1 DEF BeginTask, EndTask, world, Orderly
  <2>2. Clean(r) => task[r][i].hash = text[i]
    BY <2>1 DEF ReuseInv, InputsKept, InputKept
  <2>3. /\ Moved(r, i) /\ task'[r][i].status \in {"error", "running"}
        /\ task'[r][i].status = "running" => task'[r][i].read = text[i]
    <3>1. CASE task' = [task EXCEPT ![r][i].status = "error", ![r][i].read = SomeText]
      <4>1. task \in [Run -> [Input -> TaskRow]]
        BY DEF TypeInv, Types
      <4> QED
        BY <3>1, <4>1 DEF TaskRow, Moved
    <3>2. CASE task' = [task EXCEPT ![r][i].status = "running", ![r][i].read = text[i]]
      <4>1. task \in [Run -> [Input -> TaskRow]]
        BY DEF TypeInv, Types
      <4> QED
        BY <3>2, <4>1 DEF TaskRow, Moved
    <3> QED
      BY <2>1, <3>1, <3>2
  <2>4. \A s, j : FileOf(s, j)' = FileOf(s, j)
    BY <2>1 DEF FileOf, DirOf
  <2> QED
    BY <2>1, <2>2, <2>3, <2>4, TaskReuse
<1>2. CASE CompleteTask(r, i)
  <2>1. /\ task[r][i].status = "running" /\ UNCHANGED <<text, making, run, chosen, tainted>>
        /\ task' = [task EXCEPT ![r][i].status = "done", ![r][i].read = SomeText]
    BY <1>2 DEF CompleteTask, EndTask, world, Orderly
  <2>2. PICK d \in assets[r] :
          file' = [file EXCEPT ![DirOf(r)][RelOutput[i]] =
                     [definition |-> d, text |-> task[r][i].read]]
    BY <1>2 DEF CompleteTask
  <2>3. Clean(r) => d = run[r].print /\ task[r][i].read = task[r][i].hash
    BY <2>1 DEF CreationInv, AssetsAccounted, ReuseInv, InputsKept, InputKept, Clean
  <2>4. r \in Started /\ DirsDistinct
    BY <2>1, BusyRuns DEF ReuseInv
  <2>5. Clean(r) => [definition |-> d, text |-> task[r][i].read] = Right(r, i)
    BY <2>3 DEF Right
  <2>6. /\ \A s \in Started \ {r} : Clean(s) =>
             \A j \in Input : FileOf(s, j)' = FileOf(s, j)
        /\ Clean(r) => FileOf(r, i)' = Right(r, i)
        /\ \A j \in Input \ {i} : Alone(j) => FileOf(r, j)' = FileOf(r, j)
    BY <2>1, <2>2, <2>4, <2>5, OthersFiles
  <2>7. Moved(r, i) /\ task'[r][i].status = "done"
    BY <2>1, Moves
  <2> QED
    BY <2>1, <2>6, <2>7, TaskReuse
<1>3. CASE FailTask(r, i)
  <2>1. /\ task[r][i].status = "running"
        /\ UNCHANGED <<text, file, making, run, chosen, tainted>>
        /\ \A s, j : FileOf(s, j)' = FileOf(s, j)
        /\ task' = [task EXCEPT ![r][i].status = "error", ![r][i].read = SomeText]
    BY <1>3 DEF FailTask, EndTask, world, Orderly, FileOf, DirOf
  <2>2. Clean(r) => task[r][i].hash = text[i]
    BY <2>1 DEF ReuseInv, InputsKept, InputKept
  <2>3. Moved(r, i) /\ task'[r][i].status = "error"
    BY <2>1, Moves
  <2> QED
    BY <2>1, <2>2, <2>3, TaskReuse
<1> QED
  BY <1>1, <1>2, <1>3

LEMMA RequeueReuse ==
  ASSUME TypeInv, CreationInv, ReuseInv, NEW r \in Run, RequeueErrorTasks(r)
  PROVE  ReuseInv'
<1>1. /\ UNCHANGED <<text, file, making, run, chosen, tainted>>
      /\ \A s, j : FileOf(s, j)' = FileOf(s, j)
      /\ task' = [task EXCEPT ![r] = [i \in Input |->
           IF task[r][i].status = "error" THEN [task[r][i] EXCEPT !.status = "queued"]
           ELSE task[r][i]]]
  BY DEF RequeueErrorTasks, world, Orderly, FileOf, DirOf
<1>2. \A s \in Run, i \in Input :
        \/ task'[s][i] = task[s][i]
        \/ /\ task[s][i].status = "error" /\ task'[s][i].status = "queued"
           /\ task'[s][i].hash = task[s][i].hash
  <2> TAKE s \in Run, i \in Input
  <2>1. task[s][i] \in TaskRow
    BY DEF TypeInv, Types
  <2>2. task'[s][i] = IF s = r /\ task[s][i].status = "error"
                      THEN [task[s][i] EXCEPT !.status = "queued"] ELSE task[s][i]
    BY <1>1 DEF TypeInv, Types
  <2> QED
    BY <2>1, <2>2 DEF TaskRow
<1>3. DirsDistinct' /\ Unrecorded' /\ SourceFits' /\ PlanFits'
  BY <1>1, OutsideReuse
<1>4. InputsKept'
  <2>1. \A s \in Run, j \in Input : Clean(s) => InputKept(s, j)'
    BY <1>1, <1>2 DEF ReuseInv, InputsKept, InputKept
  <2> QED
    BY <1>1, <2>1 DEF ReuseInv, InputsKept, Hashes, Clean
<1>5. FromNowhere'
  BY <1>2 DEF ReuseInv, FromNowhere
<1>6. OutputsRight'
  <2> SUFFICES ASSUME NEW s \in Run, NEW j \in Input, Clean(s), Alone(j),
                      task'[s][j].status = "done"
               PROVE  FileOf(s, j)' \in {NoFile, Garbage, Right(s, j)'}
    BY <1>1 DEF OutputsRight, Clean
  <2>1. task'[s][j] = task[s][j]
    BY <1>2
  <2> QED
    BY <1>1, <2>1 DEF ReuseInv, OutputsRight, Right
<1> QED
  BY <1>3, <1>4, <1>5, <1>6 DEF ReuseInv

LEMMA StatusReuse ==
  ASSUME WorldAssumption, TypeInv, CreationInv, ReuseInv, NEW r \in Run, RunStatus(r)
  PROVE  ReuseInv'
<1> DEFINE S == {task[r][i].status : i \in Input}
<1>1. /\ run[r].status # "none" /\ run' = [run EXCEPT ![r].status = DeriveEffectiveStatus(S)]
      /\ UNCHANGED <<text, task, file, making, chosen, tainted>>
      /\ \A s, j : FileOf(s, j)' = FileOf(s, j)
  BY DEF RunStatus, world, Orderly, FileOf, DirOf
<1>2. /\ \A s \in Run : run'[s].print = run[s].print
      /\ \A s \in Run \ {r} : run'[s] = run[s]
      /\ run'[r].status = DeriveEffectiveStatus(S)
  BY <1>1 DEF TypeInv, Types, RunRow
<1>3. \A c \in Creator : Busy(c) => run'[making[c].run].status = run[making[c].run].status
  <2> SUFFICES ASSUME NEW c \in Creator, Busy(c), making[c].run = r
               PROVE  run'[r].status = run[r].status
    BY <1>2, BusyRuns
  <2>1. run[r].status = "queued"
    BY <1>1 DEF ReuseInv, Unrecorded
  <2>2. S = {"none"}
    BY BusyRuns DEF WorldAssumption
  <2>3. DeriveEffectiveStatus({"none"}) = "queued"
    BY DEF DeriveEffectiveStatus
  <2> QED
    BY <1>2, <2>1, <2>2, <2>3
<1> HIDE DEF S
<1>4. DirsDistinct' /\ Unrecorded' /\ SourceFits' /\ PlanFits'
  BY <1>1, <1>2, <1>3, OutsideReuse
<1>5. InputsKept' /\ FromNowhere'
  BY <1>1 DEF ReuseInv, InputsKept, InputKept, FromNowhere, Hashes, Clean
<1>6. OutputsRight'
  <2> SUFFICES ASSUME NEW s \in Run, NEW j \in Input, Clean(s), Alone(j),
                      task[s][j].status = "done"
               PROVE  FileOf(s, j)' \in {NoFile, Garbage, Right(s, j)'}
    BY <1>1 DEF OutputsRight, Clean
  <2> QED
    BY <1>1, <1>2 DEF ReuseInv, OutputsRight, Right
<1> QED
  BY <1>4, <1>5, <1>6 DEF ReuseInv

LEMMA PeopleReuse ==
  ASSUME TypeInv, CreationInv, ReuseInv,
         \/ EditDefinition
         \/ \E i \in Input : EditInput(i)
         \/ \E d \in Dir, n \in Name : DamageOutput(d, n)
  PROVE  ReuseInv'
<1>1. UNCHANGED <<run, task, making, chosen>> /\ tainted \subseteq tainted'
  BY DEF EditDefinition, EditInput, DamageOutput, Edit, Lapse
<1>a. \A s : Clean(s)' => Clean(s)
  BY <1>1 DEF Clean
<1>2. FromNowhere'
  BY <1>1 DEF ReuseInv, FromNowhere
<1>3. CASE EditDefinition
  <2>1. text' = text /\ \A s, j : FileOf(s, j)' = FileOf(s, j)
    BY <1>1, <1>3 DEF EditDefinition, FileOf, DirOf
  <2>2. DirsDistinct' /\ Unrecorded' /\ SourceFits' /\ PlanFits'
    BY <1>1, <2>1, OutsideReuse
  <2>3. InputsKept'
    BY <1>1, <1>a, <2>1 DEF ReuseInv, InputsKept, InputKept, Hashes, Clean
  <2>4. OutputsRight'
    BY <1>1, <1>a, <2>1 DEF ReuseInv, OutputsRight, Right
  <2> QED
    BY <1>2, <2>2, <2>3, <2>4 DEF ReuseInv
<1>4. ASSUME NEW i \in Input, EditInput(i)
      PROVE  ReuseInv'
  <2>1. /\ \A s, j : FileOf(s, j)' = FileOf(s, j)
        /\ \A r \in Run : Hashed(r, i) => ~Clean(r)'
        /\ \A j \in Input \ {i} : text'[j] = text[j]
    BY <1>1, <1>4 DEF EditInput, Lapse, Clean, FileOf, DirOf, TypeInv, Types
  <2>2. \A c \in Creator : Hashes(c) => ~Clean(making[c].run)'
    <3> SUFFICES ASSUME NEW c \in Creator, Hashes(c)
                 PROVE  ~Clean(making[c].run)'
      OBVIOUS
    <3>1. RunOf(c) \in Run /\ RunOf(c) = making[c].run
      BY StartedRuns DEF Hashes, RunOf
    <3>2. Hashed(RunOf(c), i)
      BY DEF Hashed, Hashes, At
    <3> QED
      BY <1>1, <2>1, <3>1, <3>2 DEF Clean
  <2>3. \A r \in Run : Clean(r)' => task[r][i].status \notin {"queued", "running", "error"}
    BY <2>1 DEF Hashed
  <2>4. DirsDistinct' /\ Unrecorded' /\ SourceFits' /\ PlanFits'
    BY <1>1, <2>1, OutsideReuse
  <2>5. InputsKept'
    <3>1. ASSUME NEW s \in Run, NEW j \in Input, Clean(s)'
          PROVE  InputKept(s, j)'
      <4>1. CASE j = i
        BY <1>1, <2>3, <3>1, <4>1 DEF InputKept
      <4>2. CASE j # i
        BY <1>1, <1>a, <2>1, <3>1, <4>2 DEF ReuseInv, InputsKept, InputKept
      <4> QED
        BY <4>1, <4>2
    <3> QED
      BY <1>1, <2>2, <3>1 DEF InputsKept, Hashes, Clean
  <2>6. OutputsRight'
    BY <1>1, <1>a, <2>1 DEF ReuseInv, OutputsRight, Right
  <2> QED
    BY <1>2, <2>4, <2>5, <2>6 DEF ReuseInv
<1>5. ASSUME NEW n \in Name, NEW d \in Dir, DamageOutput(d, n)
      PROVE  ReuseInv'
  <2>1. text' = text
    BY <1>5 DEF DamageOutput
  <2>2. PICK x \in {NoFile, Garbage} : file' = [file EXCEPT ![d][n] = x]
    BY <1>5 DEF DamageOutput
  <2>3. \A e \in Dir, m \in Name :
          /\ file'[e][m] \in {file[e][m], NoFile, Garbage}
          /\ e # d => file'[e][m] = file[e][m]
    BY <2>2 DEF TypeInv, Types
  <2>4. \A s \in Started : DirOf(s) \in Dir /\ s \in Run
    BY StartedRuns
  <2>5. \A j \in Input : RelOutput[j] \in Name
    BY DEF Name
  <2>6. ASSUME NEW c \in Creator, Busy(c), Clean(making[c].run)'
        PROVE  \A j \in Input : FileOf(making[c].run, j)' = FileOf(making[c].run, j)
    <3> DEFINE r == making[c].run
    <3>1. r \in Started /\ RunOf(c) = r /\ r \notin tainted'
      BY <1>1, <2>6, BusyRuns DEF Clean, RunOf
    <3>2. DirOf(r) # d
      <4> SUFFICES ASSUME DirOf(r) = d
                   PROVE  FALSE
        OBVIOUS
      <4>1. r \in Sharers(d) /\ ~At(c, "idle")
        BY <2>6, <3>1 DEF Sharers, DirOf, Started, Busy, At
      <4>2. r \in tainted'
        BY <1>5, <3>1, <4>1 DEF DamageOutput, Lapse
      <4> QED
        BY <3>1, <4>2
    <3> QED
      BY <1>1, <2>3, <2>4, <2>5, <3>1, <3>2 DEF FileOf, DirOf
  <2>7. DirsDistinct' /\ Unrecorded' /\ SourceFits' /\ PlanFits'
    <3>1. \A c \in Creator : Busy(c) => \A s \in Started : s = making[c].run /\ Clean(s)' =>
            \A i \in Input : FileOf(s, i)' = FileOf(s, i)
      BY <1>1, <2>6 DEF FileOf, DirOf, Clean
    <3> QED
      BY <1>1, <3>1, OutsideReuse
  <2>8. InputsKept'
    BY <1>1, <1>a, <2>1 DEF ReuseInv, InputsKept, InputKept, Hashes, Clean
  <2>9. OutputsRight'
    <3> SUFFICES ASSUME NEW s \in Run, NEW j \in Input, Clean(s), Alone(j),
                        task[s][j].status = "done"
                 PROVE  FileOf(s, j)' \in {NoFile, Garbage, Right(s, j)}
      BY <1>1, <1>a DEF OutputsRight, Right
    <3>1. DirOf(s) \in Dir
      BY BusyRuns, StartedRuns
    <3>2. FileOf(s, j) \in {NoFile, Garbage, Right(s, j)}
      BY DEF ReuseInv, OutputsRight
    <3> QED
      BY <1>1, <2>3, <2>5, <3>1, <3>2 DEF FileOf, DirOf
  <2> QED
    BY <1>2, <2>7, <2>8, <2>9 DEF ReuseInv
<1> QED
  BY <1>3, <1>4, <1>5

LEMMA NextReuse ==
  ASSUME WorldAssumption, TypeInv, CreationInv, ReuseInv, [Next]_vars
  PROVE  ReuseInv'
<1>1. ASSUME NEW c \in Creator,
             \/ FreezeRunAssets(c) \/ BuildExecutionFingerprint(c)
             \/ EnumerateInputCandidates(c) \/ SelectIncrementalSourceRun(c)
             \/ \E i \in Input : \/ QueueInput(c, i) \/ MaterializeReusedOutput(c, i)
                                 \/ ValidateReusedOutput(c, i)
             \/ CreateRun(c) \/ InsertPlannedTasksForRun(c)
             \/ CreationFails(c) \/ Crash(c)
      PROVE  ReuseInv'
  BY <1>1, FreezeReuse, PrintedReuse, HashedReuse, SourceReuse, PlanReuse, CreateRunReuse,
     InsertReuse, FaultReuse
<1>2. ASSUME NEW r \in Run,
             \/ \E i \in Input : BeginTask(r, i) \/ CompleteTask(r, i) \/ FailTask(r, i)
             \/ RequeueErrorTasks(r) \/ RunStatus(r)
      PROVE  ReuseInv'
  BY <1>2, WorkerReuse, RequeueReuse, StatusReuse
<1>3. CASE UNCHANGED vars
  <2>1. /\ UNCHANGED <<run, task, making, chosen, text, file, tainted>>
        /\ \A s, j : FileOf(s, j)' = FileOf(s, j)
    BY <1>3 DEF vars, world, FileOf, DirOf
  <2>2. DirsDistinct' /\ Unrecorded' /\ SourceFits' /\ PlanFits'
    BY <2>1, OutsideReuse
  <2>3. InputsKept' /\ OutputsRight' /\ FromNowhere'
    BY <2>1 DEF ReuseInv, InputsKept, InputKept, Hashes, Clean, OutputsRight, Right,
                FromNowhere
  <2> QED
    BY <2>2, <2>3 DEF ReuseInv
<1> QED
  BY <1>1, <1>2, <1>3, PeopleReuse DEF Next

(* Only InsertPlannedTasksForRun makes a task of nothing. *)
LEMMA NewTasks ==
  ASSUME TypeInv, CreationInv, [Next]_vars,
         NEW r \in Run, NEW i \in Input,
         task[r][i].status = "none", task'[r][i].status # "none"
  PROVE  \E c \in Creator : InsertPlannedTasksForRun(c) /\ making[c].run = r
<1> SUFFICES ASSUME \A c \in Creator : ~(InsertPlannedTasksForRun(c) /\ making[c].run = r)
             PROVE  FALSE
  OBVIOUS
<1>1. ASSUME NEW c \in Creator, InsertPlannedTasksForRun(c)
      PROVE  FALSE
  BY <1>1, InsertedRows
<1>2. ASSUME NEW s \in Run, NEW j \in Input,
             BeginTask(s, j) \/ CompleteTask(s, j) \/ FailTask(s, j)
      PROVE  FALSE
  <2>1. /\ task[s][j].status # "none"
        /\ \/ EndTask(s, j, "done") \/ EndTask(s, j, "error")
           \/ task' = [task EXCEPT ![s][j].status = "running", ![s][j].read = text[j]]
    BY <1>2 DEF BeginTask, CompleteTask, FailTask
  <2>2. task \in [Run -> [Input -> TaskRow]]
    BY DEF TypeInv, Types
  <2>3. \A q \in Run, k \in Input : q # s \/ k # j => task'[q][k] = task[q][k]
    <3>1. CASE EndTask(s, j, "done") \/ EndTask(s, j, "error")
      BY <2>2, <3>1 DEF EndTask, TaskRow
    <3>2. CASE task' = [task EXCEPT ![s][j].status = "running", ![s][j].read = text[j]]
      BY <2>2, <3>2 DEF TaskRow
    <3> QED
      BY <2>1, <3>1, <3>2
  <2> QED
    BY <2>1, <2>3
<1>3. ASSUME NEW s \in Run, RequeueErrorTasks(s)
      PROVE  FALSE
  BY <1>3 DEF RequeueErrorTasks, TypeInv, Types
<1>4. CASE task' = task
  BY <1>4
<1>5. ASSUME NEW c \in Creator,
             \/ FreezeRunAssets(c) \/ BuildExecutionFingerprint(c)
             \/ EnumerateInputCandidates(c) \/ SelectIncrementalSourceRun(c)
             \/ (\E j \in Input : \/ QueueInput(c, j) \/ MaterializeReusedOutput(c, j)
                                 \/ ValidateReusedOutput(c, j))
             \/ CreateRun(c) \/ CreationFails(c) \/ Crash(c)
      PROVE  task' = task
  BY <1>5 DEF FreezeRunAssets, BuildExecutionFingerprint, EnumerateInputCandidates,
              SelectIncrementalSourceRun, QueueInput, MaterializeReusedOutput,
              ValidateReusedOutput, CreateRun, CreationFails, Crash
<1>6. ASSUME \/ \E s \in Run : RunStatus(s)
             \/ EditDefinition \/ \E j \in Input : EditInput(j)
             \/ \E d \in Dir, n \in Name : DamageOutput(d, n)
      PROVE  task' = task
  BY <1>6 DEF RunStatus, EditDefinition, EditInput, DamageOutput, Edit
<1> QED
  BY <1>1, <1>2, <1>3, <1>4, <1>5, <1>6 DEF Next, vars

LEMMA ReuseStep ==
  ASSUME TypeInv, CreationInv, ReuseInv, ReuseInv', [Next]_vars,
         NEW r \in Run, NEW i \in Input, NewlyReused(r, i), Alone(i), r \notin tainted'
  PROVE  ReusesRight(r, i)'
<1>1. task[r][i].status = "none" /\ task'[r][i].from # None
  BY DEF NewlyReused
<1>2. \A c \in Creator : InsertPlannedTasksForRun(c) /\ making[c].run = r =>
        making[c].plan[i] = "reuse"
  BY <1>1, InsertedRows
<1>3. task'[r][i].status # "none"
  BY <1>1 DEF ReuseInv, FromNowhere
<1>4. PICK c \in Creator : InsertPlannedTasksForRun(c) /\ making[c].run = r
  BY <1>1, <1>3, NewTasks
<1>5. /\ Busy(c) /\ run'[r].print = making[c].print
      /\ task'[r][i].hash = making[c].hash[i] /\ making[c].plan[i] = "reuse"
  BY <1>2, <1>4, InsertedRows
<1>6. Safe(c, i) /\ UNCHANGED <<file, chosen>>
  BY <1>4 DEF InsertPlannedTasksForRun, RunOf, Safe, Clean
<1>7. FileOf(r, i) = Promised(c, i)
  BY <1>4, <1>5, <1>6 DEF ReuseInv, PlanFits, PlanFit
<1> QED
  BY <1>5, <1>6, <1>7 DEF ReusesRight, Promised, FileOf, DirOf

(* Whatever people and other commands do: a run that no lapse has touched,  *)
(* and that took from none, takes over an output only when it is what the   *)
(* run's own definition gives for the input as it was hashed, from          *)
(* whichever run and through whatever chain, provided that no other input   *)
(* has the same output file.                                                *)
THEOREM ReuseSoundAlways ==
  ASSUME WorldAssumption
  PROVE  Spec => ReuseSound
<1>1. Init => ReuseInv
  BY InitReuse
<1>2. TypeInv /\ CreationInv /\ ReuseInv /\ [Next]_vars => ReuseInv'
  BY NextReuse
<1>3. TypeInv /\ CreationInv /\ ReuseInv /\ ReuseInv' /\ [Next]_vars =>
        [\A r \in Run, i \in Input :
           NewlyReused(r, i) /\ Alone(i) /\ r \notin tainted' => ReusesRight(r, i)']_vars
  BY ReuseStep
<1> QED
  BY <1>1, <1>2, <1>3, Invariance, PTL DEF Spec, ReuseSound
==============================================================================
