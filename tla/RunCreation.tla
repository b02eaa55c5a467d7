------------------------------ MODULE RunCreation ------------------------------
(***************************************************************************)
(* Creation of runs (cli.py, run_assets.py, incremental.py): a command      *)
(* freezes the definition it runs with, takes its fingerprint and the       *)
(* hashes of the inputs from the live files, copies outputs of an earlier   *)
(* run, and inserts first the run, then its tasks.  Each of these is a      *)
(* step of its own: other commands, workers, and people who edit files come *)
(* in between, and any step may raise or be the last one before a kill.     *)
(*                                                                          *)
(* A definition stands for everything the fingerprint covers (prompt,       *)
(* schema, model, codex settings, paths), a text for the bytes of an input, *)
(* and a hash for what was hashed.  Leases, retries and operator commands   *)
(* are in the other modules; here a worker takes, completes or fails tasks. *)
(***************************************************************************)
EXTENDS Naturals, Sequences, FiniteSets

CONSTANTS Creator,      \* processes that may execute a creating command
          Input,        \* relative paths of inputs
          RelOutput,    \* of each input: its path with the suffix of outputs
          Definition, Text, Dir,
          NoFile, Garbage,   \* a missing output, one that the schema rejects
          Lapses,       \* bound: which of the lapses below people commit
          MaxRuns,      \* bound: run ids
          MaxEdits,     \* bound: edits of the definition, inputs and outputs
          MaxFaults     \* bound: exceptions and kills during creation

ASSUME CreationAssumption ==
  /\ {MaxRuns, MaxEdits, MaxFaults} \subseteq Nat
  /\ Lapses \subseteq {"edit definition", "edit input", "touch output", "share directory"}
  /\ NoFile # Garbage

VARIABLES live,     \* the definition as it is on disk now
          text,     \* the inputs as they are on disk now
          assets,   \* var/run_assets: the frozen definition of each run
          run,      \* the rows of runs
          order,    \* run ids by created_at
          task,     \* the rows of tasks, by run and input
          file,     \* the output directories
          making,   \* what each creator holds in memory
          chosen,   \* the output directory each run id was started with
          crashed,  \* run ids whose creator was killed, or raised before the cleanup
          tainted,  \* ghost: runs that a lapse may have spoilt, or that took from one
          edits, faults

world == <<live, text, edits>>
vars == <<live, text, assets, run, order, task, file, making, chosen,
          crashed, tainted, edits, faults>>

Run == 1..MaxRuns
(* Inputs that differ in their suffix only have one output file. *)
Name == {RelOutput[i] : i \in Input}
None == 0
Output == [definition : Definition, text : Text]
Decision == {"open", "copied", "reuse", "queue"}

(* status "none": there is no such row. *)
RunRow == [status : {"none", "queued", "running", "done", "error"},
           print  : Definition]
TaskRow == [status : {"none", "queued", "running", "done", "error"},
            hash   : Text,   \* of the input when the run was created
            read   : Text,   \* what a running execution has read
            from   : Run \cup {None}]

(* Phases: idle, frozen, printed, hashed, planning, planned, created.       *)
Making == [phase  : {"idle", "frozen", "printed", "hashed", "planning",
                     "planned", "created"},
           run    : Run \cup {None},
           print  : Definition,
           hash   : [Input -> Text],
           source : Run \cup {None},
           plan   : [Input -> Decision]]

CreationTypeOK ==
  /\ live \in Definition
  /\ text \in [Input -> Text]
  /\ assets \in [Run -> SUBSET Definition]
  /\ \A r \in Run : Cardinality(assets[r]) <= 1
  /\ run \in [Run -> RunRow]
  /\ {order[k] : k \in 1..Len(order)} = {r \in Run : run[r].status # "none"}
  /\ task \in [Run -> [Input -> TaskRow]]
  /\ file \in [Dir -> [Name -> Output \cup {NoFile, Garbage}]]
  /\ making \in [Creator -> Making]
  /\ chosen \in Seq(Dir) /\ Len(chosen) <= MaxRuns
  /\ crashed \subseteq Run /\ tainted \subseteq Run
  /\ edits \in 0..MaxEdits /\ faults \in 0..MaxFaults

SomeDefinition == CHOOSE d \in Definition : TRUE
SomeText == CHOOSE s \in Text : TRUE
Idle == [phase |-> "idle", run |-> None, print |-> SomeDefinition,
         hash |-> [i \in Input |-> SomeText], source |-> None,
         plan |-> [i \in Input |-> "open"]]

Init ==
  /\ live = SomeDefinition
  /\ text = [i \in Input |-> SomeText]
  /\ assets = [r \in Run |-> {}]
  /\ run = [r \in Run |-> [status |-> "none", print |-> SomeDefinition]]
  /\ order = <<>>
  /\ task = [r \in Run |-> [i \in Input |->
               [status |-> "none", hash |-> SomeText, read |-> SomeText, from |-> None]]]
  /\ file = [d \in Dir |-> [n \in Name |-> NoFile]]
  /\ making = [c \in Creator |-> Idle]
  /\ chosen = <<>>
  /\ crashed = {} /\ tainted = {}
  /\ edits = 0 /\ faults = 0

------------------------------------------------------------------------------
(* Creating a run. *)

At(c, p) == making[c].phase = p
RunOf(c) == making[c].run
DirOf(r) == chosen[r]
NoFault == UNCHANGED <<crashed, faults>>
NoLapse == UNCHANGED tainted
Orderly == UNCHANGED <<crashed, faults, tainted>>

(* Lapses are what people do that the program does not see: it spoils the   *)
(* runs of S.                                                               *)
Lapse(lapse, S) ==
  /\ S # {} => lapse \in Lapses
  /\ tainted' = tainted \cup S

Sharers(d) == {s \in 1..Len(chosen) : chosen[s] = d}

(* The assets are staged and moved into place under a new run id.  Nobody   *)
(* looks whether another run has the same output directory.                 *)
FreezeRunAssets(c) ==
  /\ At(c, "idle")
  /\ Len(chosen) < MaxRuns
  /\ LET r == Len(chosen) + 1
     IN /\ assets' = [assets EXCEPT ![r] = {live}]
        /\ making' = [making EXCEPT ![c] = [Idle EXCEPT !.phase = "frozen", !.run = r]]
  /\ \E d \in Dir :
       /\ Lapse("share directory",
                IF Sharers(d) = {} THEN {} ELSE Sharers(d) \cup {Len(chosen) + 1})
       /\ chosen' = Append(chosen, d)
  /\ UNCHANGED <<world, run, order, task, file>>
  /\ NoFault

(* The live files are hashed, not the frozen copies.                        *)
BuildExecutionFingerprint(c) ==
  /\ At(c, "frozen")
  /\ making' = [making EXCEPT ![c].phase = "printed", ![c].print = live]
  /\ UNCHANGED <<world, assets, run, order, task, file, chosen>>
  /\ Orderly

EnumerateInputCandidates(c) ==
  /\ At(c, "printed")
  /\ making' = [making EXCEPT ![c].phase = "hashed", ![c].hash = text]
  /\ UNCHANGED <<world, assets, run, order, task, file, chosen>>
  /\ Orderly

(* A source is terminal by its last persisted status, and has the same      *)
(* pipeline and fingerprint.                                                *)
Compatible(c) ==
  {r \in Run : run[r].status \in {"done", "error"} /\ run[r].print = making[c].print}

FindLatestCompatibleTerminalRun(c) ==
  {r \in Compatible(c) :
     \A j, k \in 1..Len(order) : order[j] = r /\ order[k] \in Compatible(c) => k <= j}

(* Without --incremental everything is queued; with it the latest           *)
(* compatible run is the source, or the one that --incremental-from names.  *)
SelectIncrementalSourceRun(c) ==
  /\ At(c, "hashed")
  /\ \/ making' = [making EXCEPT ![c].phase = "planned",
                                 ![c].plan = [i \in Input |-> "queue"]]
     \/ /\ FindLatestCompatibleTerminalRun(c) = {}
        /\ making' = [making EXCEPT ![c].phase = "planned",
                                    ![c].plan = [i \in Input |-> "queue"]]
     \/ \E s \in FindLatestCompatibleTerminalRun(c) \cup Compatible(c) :
          making' = [making EXCEPT ![c].phase = "planning", ![c].source = s]
  /\ UNCHANGED <<world, assets, run, order, task, file, chosen>>
  /\ Orderly

(* Mutant: an earlier output of the same input is enough. *)
PriorByPath(c, i) == task[making[c].source][i].status = "done"

(* There is a prior success for the input, and its hash has not changed.    *)
Prior(c, i) ==
  LET t == task[making[c].source][i]
  IN t.status = "done" /\ t.hash = making[c].hash[i]

Source(c, i) == file[DirOf(making[c].source)][RelOutput[i]]

Decide(c, i, d) == making' = [making EXCEPT ![c].plan[i] = d]

(* The inputs are taken up one after the other. *)
TakenUp(c, i) ==
  /\ At(c, "planning") /\ making[c].plan[i] = "open"
  /\ \A j \in Input : making[c].plan[j] # "copied"

QueueInput(c, i) ==
  /\ TakenUp(c, i)
  /\ ~Prior(c, i) \/ Source(c, i) = NoFile
  /\ Decide(c, i, "queue")
  /\ UNCHANGED <<world, assets, run, order, task, file, chosen>>
  /\ Orderly

(* The output is copied next to its destination and moved there.            *)
MaterializeReusedOutput(c, i) ==
  /\ TakenUp(c, i)
  /\ Prior(c, i) /\ Source(c, i) # NoFile
  /\ file' = [file EXCEPT ![DirOf(RunOf(c))][RelOutput[i]] = Source(c, i)]
  /\ Decide(c, i, "copied")
  /\ UNCHANGED <<world, assets, run, order, task, chosen>>
  /\ Orderly

(* The copy is validated against the schema, and removed if it fails.       *)
ValidateReusedOutput(c, i) ==
  /\ At(c, "planning") /\ making[c].plan[i] = "copied"
  /\ LET copy == file[DirOf(RunOf(c))][RelOutput[i]]
     IN /\ copy # NoFile
        /\ Decide(c, i, IF copy = Garbage THEN "queue" ELSE "reuse")
        /\ file' = IF copy = Garbage
                   THEN [file EXCEPT ![DirOf(RunOf(c))][RelOutput[i]] = NoFile] ELSE file
  /\ UNCHANGED <<world, assets, run, order, task, chosen>>
  /\ Orderly

CreateRun(c) ==
  /\ \/ At(c, "planned")
     \/ At(c, "planning") /\ \A i \in Input : making[c].plan[i] \in {"reuse", "queue"}
  /\ run' = [run EXCEPT ![RunOf(c)] = [status |-> "queued", print |-> making[c].print]]
  /\ order' = Append(order, RunOf(c))
  /\ making' = [making EXCEPT ![c].phase = "created"]
  /\ UNCHANGED <<world, assets, task, file, chosen>>
  /\ Orderly

PlannedTask(c, i) ==
  [task[RunOf(c)][i] EXCEPT
     !.status = IF making[c].plan[i] = "reuse" THEN "done" ELSE "queued",
     !.hash   = making[c].hash[i],
     !.from   = IF making[c].plan[i] = "reuse" THEN making[c].source ELSE None]

(* Mutant: the tasks are committed while creation may still fail. *)
InsertTasksEarly(c) ==
  /\ At(c, "created")
  /\ task' = [task EXCEPT ![RunOf(c)] = [i \in Input |-> PlannedTask(c, i)]]
  /\ UNCHANGED <<world, assets, run, order, file, making, chosen>>
  /\ Orderly

(* The tasks and the run's first status are one commit. *)
InsertPlannedTasksForRun(c) ==
  /\ At(c, "created")
  /\ task' = [task EXCEPT ![RunOf(c)] = [i \in Input |-> PlannedTask(c, i)]]
  /\ run' = [run EXCEPT ![RunOf(c)].status =
               IF \A i \in Input : making[c].plan[i] = "reuse" THEN "done" ELSE "queued"]
  /\ making' = [making EXCEPT ![c] = Idle]
  /\ tainted' = tainted \cup (IF making[c].source \in tainted THEN {RunOf(c)} ELSE {})
  /\ UNCHANGED <<world, assets, order, file, chosen>>
  /\ NoFault

(* A step raises (a file that cannot be read, an --incremental-from that is *)
(* not compatible, a copy that has vanished, a locked database): the assets *)
(* are removed; copied outputs stay, and so does a run row that is in.      *)
CreationFails(c) ==
  /\ ~At(c, "idle")
  /\ faults < MaxFaults /\ faults' = faults + 1
  /\ assets' = [assets EXCEPT ![RunOf(c)] = {}]
  /\ making' = [making EXCEPT ![c] = Idle]
  /\ UNCHANGED <<world, run, order, task, file, chosen, crashed>>
  /\ NoLapse

(* A kill; or the database cannot be opened once the assets are frozen,      *)
(* which comes before the block that would clean up.                        *)
Crash(c) ==
  /\ ~At(c, "idle")
  /\ faults < MaxFaults /\ faults' = faults + 1
  /\ crashed' = crashed \cup {RunOf(c)}
  /\ making' = [making EXCEPT ![c] = Idle]
  /\ UNCHANGED <<world, assets, run, order, task, file, chosen>>
  /\ NoLapse

------------------------------------------------------------------------------
(* The life of the run afterwards. *)

EndTask(r, i, status) ==
  task' = [task EXCEPT ![r][i].status = status, ![r][i].read = SomeText]

(* A worker executes with the frozen assets, and errs without them.  The    *)
(* input is read now: nobody compares it with the hash in the row.          *)
BeginTask(r, i) ==
  /\ task[r][i].status = "queued"
  /\ IF assets[r] = {} THEN EndTask(r, i, "error")
     ELSE task' = [task EXCEPT ![r][i].status = "running", ![r][i].read = text[i]]
  /\ UNCHANGED <<world, assets, run, order, file, making, chosen>>
  /\ Orderly

CompleteTask(r, i) ==
  /\ task[r][i].status = "running"
  /\ \E d \in assets[r] :
       file' = [file EXCEPT ![DirOf(r)][RelOutput[i]] =
                  [definition |-> d, text |-> task[r][i].read]]
  /\ EndTask(r, i, "done")
  /\ UNCHANGED <<world, assets, run, order, making, chosen>>
  /\ Orderly

FailTask(r, i) ==
  /\ task[r][i].status = "running"
  /\ EndTask(r, i, "error")
  /\ UNCHANGED <<world, assets, run, order, file, making, chosen>>
  /\ Orderly

(* retry-errors: the persisted status of the run stays what it was.         *)
RequeueErrorTasks(r) ==
  /\ \E i \in Input : task[r][i].status = "error"
  /\ task' = [task EXCEPT ![r] = [i \in Input |->
       IF task[r][i].status = "error" THEN [task[r][i] EXCEPT !.status = "queued"]
       ELSE task[r][i]]]
  /\ UNCHANGED <<world, assets, run, order, file, making, chosen>>
  /\ Orderly

(* Mutant: a run none of whose tasks is open is finished. *)
DeriveStatusNoneOpen(S) ==
  IF S \subseteq {"none", "done"} THEN "done"
  ELSE IF S = {"queued"} THEN "queued"
  ELSE IF S \cap {"queued", "running"} = {} THEN "error" ELSE "running"

(* derive_effective_status of an active run, from the statuses of its tasks. *)
DeriveEffectiveStatus(S) ==
  IF S \in {{"none"}, {"queued"}} THEN "queued"
  ELSE IF S = {"done"} THEN "done"
  ELSE IF S \cap {"queued", "running"} = {} THEN "error" ELSE "running"

(* Mutant: a run id without a row gets one. *)
RunStatusUpserts(r) ==
  /\ run' = [run EXCEPT ![r].status =
               DeriveEffectiveStatus({task[r][i].status : i \in Input})]
  /\ UNCHANGED <<world, assets, order, task, file, making, chosen>>
  /\ Orderly

RunStatus(r) ==
  /\ run[r].status # "none"
  /\ run' = [run EXCEPT ![r].status =
               DeriveEffectiveStatus({task[r][i].status : i \in Input})]
  /\ UNCHANGED <<world, assets, order, task, file, making, chosen>>
  /\ Orderly

------------------------------------------------------------------------------
(* People. *)

Hashed(r, i) ==
  \/ \E c \in Creator : RunOf(c) = r /\ ~At(c, "frozen") /\ ~At(c, "printed")
  \/ task[r][i].status \in {"queued", "running", "error"}

Edit ==
  /\ edits < MaxEdits
  /\ edits' = edits + 1
  /\ UNCHANGED <<assets, run, order, task, making, chosen>>
  /\ NoFault

(* The lapses: the definition is edited between its freezing and its        *)
(* hashing; an input that has been hashed, before the task is done; an      *)
(* output, in the directory of a run that a command is creating.            *)
EditDefinition ==
  /\ Lapse("edit definition", {RunOf(c) : c \in {e \in Creator : At(e, "frozen")}})
  /\ live' \in Definition \ {live}
  /\ Edit
  /\ UNCHANGED <<text, file>>

EditInput(i) ==
  /\ Lapse("edit input", {r \in Run : Hashed(r, i)})
  /\ \E s \in Text \ {text[i]} : text' = [text EXCEPT ![i] = s]
  /\ Edit
  /\ UNCHANGED <<live, file>>

DamageOutput(d, n) ==
  /\ Lapse("touch output",
           {r \in Sharers(d) : \E c \in Creator : ~At(c, "idle") /\ RunOf(c) = r})
  /\ file[d][n] # NoFile
  /\ \E damaged \in {NoFile, Garbage} \ {file[d][n]} :
       file' = [file EXCEPT ![d][n] = damaged]
  /\ Edit
  /\ UNCHANGED <<live, text>>

Next ==
  \/ \E c \in Creator :
       \/ FreezeRunAssets(c) \/ BuildExecutionFingerprint(c)
       \/ EnumerateInputCandidates(c) \/ SelectIncrementalSourceRun(c)
       \/ \E i \in Input : \/ QueueInput(c, i) \/ MaterializeReusedOutput(c, i)
                           \/ ValidateReusedOutput(c, i)
       \/ CreateRun(c) \/ InsertPlannedTasksForRun(c)
       \/ CreationFails(c) \/ Crash(c)
  \/ \E r \in Run :
       \/ \E i \in Input : BeginTask(r, i) \/ CompleteTask(r, i) \/ FailTask(r, i)
       \/ RequeueErrorTasks(r) \/ RunStatus(r)
  \/ EditDefinition
  \/ \E i \in Input : EditInput(i)
  \/ \E d \in Dir, n \in Name : DamageOutput(d, n)

Spec == Init /\ [][Next]_vars
------------------------------------------------------------------------------
(* What a task that was not executed stands for: the output that its own    *)
(* run's definition gives for the input as it was hashed.                   *)
ReusesRight(r, i) ==
  file[DirOf(r)][RelOutput[i]] = [definition |-> run[r].print, text |-> task[r][i].hash]

NewlyReused(r, i) == task[r][i].status = "none" /\ task'[r][i].from # None

(* docs/01-cli-and-command-contracts: "Reuse safety requires both           *)
(* `input_hash` equality and matching `runs.execution_fingerprint`; hash-only *)
(* reuse is forbidden."  Taken at its word: whenever a run takes over an    *)
(* output, the file in its own directory is what it would compute itself.   *)
ReuseRight ==
  [][\A r \in Run, i \in Input : NewlyReused(r, i) => ReusesRight(r, i)']_vars

(* What the code does keep of it: an input whose output file no other input *)
(* writes is reused right by every run that no lapse has touched, through   *)
(* any chain of reuse, whatever befell the other runs and inputs, with      *)
(* failed, killed and concurrent commands in between.                       *)
Alone(i) == \A j \in Input : RelOutput[j] = RelOutput[i] => j = i

ReuseSound ==
  [][\A r \in Run, i \in Input :
       NewlyReused(r, i) /\ Alone(i) /\ r \notin tainted' => ReusesRight(r, i)']_vars

(* Assets without a run are those of a command that is at work or was       *)
(* killed; a run that workers can see tasks of has its assets, and they are *)
(* the ones its fingerprint names unless the definition was edited between  *)
(* the two.                                                                 *)
AssetsAccounted ==
  /\ \A r \in Run : assets[r] # {} =>
       \/ \E i \in Input : task[r][i].status # "none"
       \/ \E c \in Creator : RunOf(c) = r
       \/ r \in crashed
  /\ \A r \in Run, i \in Input : task[r][i].status # "none" =>
       /\ assets[r] # {}
       /\ r \notin tainted => assets[r] = {run[r].print}

(* A run that is recorded as done has tasks, and all of them are done, for  *)
(* ever: a half created run never becomes one, nor the source of reuse.     *)
DoneIsFinal ==
  \A r \in Run : run[r].status = "done" =>
    \A i \in Input : task[r][i].status = "done"
==============================================================================
