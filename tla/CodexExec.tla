------------------------------- MODULE CodexExec -------------------------------
(***************************************************************************)
(* The wrapper around the codex command (codex_exec.py) and its log.  A     *)
(* call lets codex write a temporary file next to the output, waits for it  *)
(* or kills it at the timeout, moves the file to the output if anything is  *)
(* in it, and appends a row to codex_exec_activity.csv, which all threads   *)
(* and processes share and which is rewritten when its header is old.  A row    *)
(* carries the whole prompt: it is written out in parts, and a kill or a    *)
(* full disk may leave a part of it, to which the next row is glued.        *)
(*                                                                          *)
(* Two callers use it: the worker loops, with a staging path that belongs   *)
(* to the claim, and the command "one", with the path its user gave, where  *)
(* an earlier output may lie.  Killing codex kills only the process that    *)
(* was started: what that one started may go on and write its file later.   *)
(***************************************************************************)
EXTENDS Naturals, Sequences, FiniteSets

CONSTANTS Caller,
          One,          \* the callers that are the command "one"
          NoCaller,
          MaxCalls,     \* bound: calls of codex
          MaxFaults     \* bound: kills and OS errors, failed backups apart

ASSUME ExecAssumption ==
  /\ One \subseteq Caller
  /\ NoCaller \notin Caller
  /\ {MaxCalls, MaxFaults} \subseteq Nat

VARIABLES call,      \* what each caller does
          calls,     \* the calls made so far
          fate,      \* the codex process of each call
          temp,      \* the temporary file of each call
          file,      \* the output paths: 0 is that of "one", the others are staged
          log,       \* codex_exec_activity.csv
          lock,      \* who holds _USAGE_LOG_LOCK and the flock
          backup,    \* the rows in *.legacy-*.csv
          told,      \* the call after which the last "one" said that it wrote its
                     \* output; 0 while it has not
          written,   \* the rows written after a line end (for the properties only)
          unsaved,   \* the rows that backups failed to keep (likewise)
          missed,    \* the calls whose row an OS error kept out (likewise)
          stopped,   \* the calls that ended in the middle of a line (likewise)
          strays,    \* the calls that were killed or raised (likewise)
          faults

vars == <<call, calls, fate, temp, file, log, lock, backup, told,
          written, unsaved, missed, stopped, strays, faults>>

Call == 1..MaxCalls

(* Call 0 stands for whatever happened before. *)
Content == [call : 0..MaxCalls, quality : {"absent", "broken", "good"}]
Absent == [call |-> 0, quality |-> "absent"]

(* A broken row is part of one, or one glued to a part, of that call.       *)
Row == [call : 0..MaxCalls, shape : {"legacy", "current", "broken"}]

(* One row may be longer than csv reads (131072).  The last line may lack   *)
(* its end, or end inside a quoted cell, which the next lines then go on.   *)
Log == [header : {"none", "legacy", "current"},
        rows   : Seq(Row),
        long   : BOOLEAN,
        torn   : {"no", "line", "cell"}]

Empty == [header |-> "none", rows |-> <<>>, long |-> FALSE, torn |-> "no"]

(* Phases: idle; running; ended, expired (the process has ended, or was     *)
(* killed); settled (the temporary file is dealt with); locked, truncated,  *)
(* writing (in the log); returned; raised; rejecting ("one" found the       *)
(* payload bad).                                                            *)
CallState == [phase  : {"idle", "running", "ended", "expired", "settled", "locked",
                        "truncated", "writing", "returned", "raised", "rejecting"},
              id     : 0..MaxCalls,
              ok     : BOOLEAN,
              base   : Log]    \* what is to be in the log before the call's own row

Idle == [phase |-> "idle", id |-> 0, ok |-> FALSE, base |-> Empty]

ExecTypeOK ==
  /\ call \in [Caller -> CallState]
  /\ calls \in 0..MaxCalls
  /\ fate \in [Call -> {"none", "running", "exited", "killed", "orphan"}]
  /\ temp \in [Call -> {"absent", "empty", "broken", "good"}]
  /\ file \in [0..MaxCalls -> Content]
  /\ log \in Log
  /\ lock \in Caller \cup {NoCaller}
  /\ {c \in Caller : call[c].phase \in {"locked", "truncated", "writing"}} = {lock} \ {NoCaller}
  /\ backup \subseteq 0..MaxCalls /\ written \subseteq 0..MaxCalls
  /\ unsaved \subseteq 0..MaxCalls /\ missed \cup stopped \subseteq Call
  /\ told \in 0..MaxCalls /\ strays \subseteq Call
  /\ faults \in 0..MaxFaults

(* The log may be missing, current, or one with an old header and rows of   *)
(* both kinds.                                                              *)
Init ==
  /\ call = [c \in Caller |-> Idle]
  /\ calls = 0
  /\ fate = [k \in Call |-> "none"]
  /\ temp = [k \in Call |-> "absent"]
  /\ file \in {[p \in 0..MaxCalls |-> Absent],
               [p \in 0..MaxCalls |-> IF p = 0 THEN [Absent EXCEPT !.quality = "good"]
                                      ELSE Absent]}
  /\ log \in {Empty}
             \cup {[Empty EXCEPT !.header = "current",
                                 !.rows = <<[call |-> 0, shape |-> "current"]>>]}
             \cup {[Empty EXCEPT !.header = "legacy", !.rows = <<[call |-> 0, shape |-> s]>>] :
                     s \in {"legacy", "current"}}
             \cup {[Empty EXCEPT !.header = "legacy", !.long = TRUE,
                                 !.rows = <<[call |-> 0, shape |-> "legacy"]>>]}
  /\ lock = NoCaller
  /\ backup = {} /\ told = 0 /\ unsaved = {} /\ missed = {} /\ stopped = {} /\ strays = {}
  /\ written = {log.rows[n].call : n \in 1..Len(log.rows)}
  /\ faults = 0

------------------------------------------------------------------------------
At(c, p) == call[c].phase = p
Goto(c, p) == call' = [call EXCEPT ![c].phase = p]
Id(c) == call[c].id
Path(c) == IF c \in One THEN 0 ELSE Id(c)

rowVars == <<backup, written, unsaved, missed, stopped>>
logVars == <<log, lock, rowVars>>
NoFault == UNCHANGED <<strays, faults>>
Fault == faults < MaxFaults /\ faults' = faults + 1

(* The command is started with an empty temporary file, or cannot be        *)
(* started, and the file stays.                                             *)
RunCodexCommand(c) ==
  /\ At(c, "idle")
  /\ calls < MaxCalls
  /\ calls' = calls + 1
  /\ temp' = [temp EXCEPT ![calls + 1] = "empty"]
  /\ \/ /\ call' = [call EXCEPT ![c] = [Idle EXCEPT !.phase = "running", !.id = calls + 1]]
        /\ fate' = [fate EXCEPT ![calls + 1] = "running"]
        /\ NoFault
     \/ /\ call' = [call EXCEPT ![c] = [Idle EXCEPT !.phase = "raised", !.id = calls + 1]]
        /\ Fault
        /\ strays' = strays \cup {calls + 1}
        /\ UNCHANGED fate
  /\ told' = IF c \in One THEN 0 ELSE told
  /\ UNCHANGED <<logVars, file>>

(* codex writes its last message, in part or in full; so does a process it  *)
(* left behind, which makes the file anew when it has been removed.         *)
CodexWrites(k) ==
  /\ \/ fate[k] = "running" /\ temp[k] # "good"
     \/ fate[k] = "orphan" /\ temp[k] \in {"absent", "empty"}
  /\ \E q \in {"broken", "good"} : temp' = [temp EXCEPT ![k] = q]
  /\ UNCHANGED <<logVars, call, calls, fate, file, told>>
  /\ NoFault

CodexExits(c) ==
  /\ At(c, "running")
  /\ fate' = [fate EXCEPT ![Id(c)] = "exited"]
  /\ Goto(c, "ended")
  /\ UNCHANGED <<logVars, calls, temp, file, told>>
  /\ NoFault

(* TimeoutExpired: the process was killed, perhaps not all it had started.  *)
TimesOut(c) ==
  /\ At(c, "running")
  /\ \E f \in {"killed", "orphan"} : fate' = [fate EXCEPT ![Id(c)] = f]
  /\ Goto(c, "expired")
  /\ UNCHANGED <<logVars, calls, temp, file, told>>
  /\ NoFault

(* Mutant: a payload that was there at the timeout is taken. *)
TakeTempAfterTimeout(c) ==
  /\ At(c, "expired")
  /\ file' = IF temp[Id(c)] \in {"broken", "good"}
             THEN [file EXCEPT ![Path(c)] = [call |-> Id(c), quality |-> temp[Id(c)]]]
             ELSE file
  /\ temp' = [temp EXCEPT ![Id(c)] = "absent"]
  /\ Goto(c, "settled")
  /\ UNCHANGED <<logVars, calls, fate, told>>
  /\ NoFault

DropTempAfterTimeout(c) ==
  /\ At(c, "expired")
  /\ temp' = [temp EXCEPT ![Id(c)] = "absent"]
  /\ Goto(c, "settled")
  /\ UNCHANGED <<logVars, calls, fate, file, told>>
  /\ NoFault

(* Mutant: a temporary file without a payload is forgotten. *)
TakePayloadOnly(c) ==
  /\ At(c, "ended")
  /\ LET payload == temp[Id(c)] \in {"broken", "good"}
     IN /\ file' = IF payload
                   THEN [file EXCEPT ![Path(c)] = [call |-> Id(c), quality |-> temp[Id(c)]]]
                   ELSE file
        /\ temp' = IF payload THEN [temp EXCEPT ![Id(c)] = "absent"] ELSE temp
        /\ call' = [call EXCEPT ![c].phase = "settled", ![c].ok = payload]
  /\ UNCHANGED <<logVars, calls, fate, told>>
  /\ NoFault

(* A payload counts whatever the exit code; without one the call has failed *)
(* and the output path is not touched.                                      *)
TakePayload(c) ==
  /\ At(c, "ended")
  /\ LET payload == temp[Id(c)] \in {"broken", "good"}
     IN /\ file' = IF payload
                   THEN [file EXCEPT ![Path(c)] = [call |-> Id(c), quality |-> temp[Id(c)]]]
                   ELSE file
        /\ call' = [call EXCEPT ![c].phase = "settled", ![c].ok = payload]
  /\ temp' = [temp EXCEPT ![Id(c)] = "absent"]
  /\ UNCHANGED <<logVars, calls, fate, told>>
  /\ NoFault

(* Moving or removing the temporary file raises, or a look at codex's own    *)
(* session files does, after a timeout when the file is gone already.       *)
CallRaises(c) ==
  /\ call[c].phase \in {"ended", "expired", "settled"}
  /\ Goto(c, "raised")
  /\ Fault
  /\ strays' = IF At(c, "settled") THEN strays ELSE strays \cup {Id(c)}
  /\ UNCHANGED <<logVars, calls, fate, temp, file, told>>

------------------------------------------------------------------------------
(* The log. *)

callVars == <<calls, fate, temp, file, told>>

(* Mutant: the lock is one of the process, the callers are not. *)
OpenLogAnyway(c) ==
  /\ At(c, "settled")
  /\ lock' = c
  /\ call' = [call EXCEPT ![c].phase = "locked", ![c].base = log]
  /\ UNCHANGED <<callVars, log, rowVars>>
  /\ NoFault

OpenLog(c) ==
  /\ At(c, "settled")
  /\ lock = NoCaller
  /\ lock' = c
  /\ call' = [call EXCEPT ![c].phase = "locked", ![c].base = log]
  /\ UNCHANGED <<callVars, log, rowVars>>
  /\ NoFault

Whole(rows) == {n \in 1..Len(rows) : rows[n].shape # "broken"}
CallsOf(rows) == {rows[n].call : n \in Whole(rows)}
Logged == CallsOf(log.rows)

(* A backup fails silently, and one of the same second as an earlier one    *)
(* takes its name.                                                          *)
Backup ==
  \E kept \in SUBSET {backup, Logged} :
    /\ backup' = UNION kept
    /\ unsaved' = unsaved \cup ((backup \cup Logged) \ UNION kept)

(* Mutant: the rows are written back as they were read. *)
MigrateHeaderOnly(c) ==
  /\ At(c, "locked")
  /\ log.header = "legacy"
  /\ call' = [call EXCEPT ![c].phase = "truncated",
                          ![c].base = [Empty EXCEPT !.header = "current", !.rows = log.rows]]
  /\ log' = Empty
  /\ Backup
  /\ UNCHANGED <<callVars, lock, written, missed, stopped>>
  /\ NoFault

Migrated(rows) ==
  [n \in 1..Len(rows) |->
     [rows[n] EXCEPT !.shape = IF rows[n].shape = "broken" THEN "broken" ELSE "current"]]

(* The rows are read and mapped to the current schema by their length, a    *)
(* backup is made, the file is truncated.  A row that csv cannot read       *)
(* raises csv.Error, which is no OSError and leaves the call.               *)
MigrateUsageLogSchema(c) ==
  /\ At(c, "locked")
  /\ log.header = "legacy"
  /\ IF log.long
     THEN /\ Goto(c, "raised")
          /\ lock' = NoCaller
          /\ UNCHANGED <<log, backup, unsaved>>
     ELSE /\ call' = [call EXCEPT ![c].phase = "truncated",
                         ![c].base = [Empty EXCEPT !.header = "current",
                                                   !.rows = Migrated(log.rows)]]
          /\ log' = Empty
          /\ Backup
          /\ UNCHANGED lock
  /\ UNCHANGED <<callVars, written, missed, stopped>>
  /\ NoFault

(* What a write may leave so far: in an empty file part of the header, or   *)
(* the header with or without its line end and some rows; then part of a    *)
(* row.                                                                     *)
CutHeader == [Empty EXCEPT !.header = "legacy"]
CutRow(rows, k) ==
  {[header |-> "current", rows |-> Append(rows, [call |-> k, shape |-> "broken"]),
    long |-> FALSE, torn |-> t] : t \in {"line", "cell"}}

FreshParts(rows, k) ==
  {CutHeader, [Empty EXCEPT !.header = "current", !.torn = "line"]}
  \cup UNION {{[Empty EXCEPT !.header = "current", !.rows = SubSeq(rows, 1, n)]}
              \cup CutRow(SubSeq(rows, 1, n), k) : n \in 0..Len(rows)}

(* What is glued to a header makes another header of it.                    *)
AppendedParts(base, k) ==
  IF base.torn = "no" THEN CutRow(base.rows, k)
  ELSE IF base.rows = <<>> THEN {CutHeader}
  ELSE {[base EXCEPT !.torn = t] : t \in {"no", "line", "cell"}}

FlushPart(c) ==
  /\ \/ At(c, "locked") /\ log.header # "legacy"
     \/ At(c, "truncated")
  /\ Goto(c, "writing")
  /\ LET base == call[c].base
     IN log' \in IF At(c, "truncated") \/ base.header = "none"
                 THEN FreshParts(base.rows, Id(c)) ELSE AppendedParts(base, Id(c))
  /\ UNCHANGED <<callVars, lock, rowVars>>
  /\ NoFault

(* The file when the row has been written: glued to a torn line it is lost,  *)
(* and an open cell may stay open.                                          *)
Completed(base, k) ==
  IF base.torn = "no"
  THEN {[header |-> "current", rows |-> Append(base.rows, [call |-> k, shape |-> "current"]),
         long |-> FALSE, torn |-> "no"]}
  ELSE IF base.rows = <<>> THEN {CutHeader, [CutHeader EXCEPT !.long = TRUE]}
  ELSE {[base EXCEPT !.torn = t] : t \in {"no", base.torn} \ {"line"}}

AppendUsageRow(c) ==
  /\ \/ At(c, "locked") /\ log.header # "legacy"
     \/ At(c, "truncated") \/ At(c, "writing")
  /\ log' \in Completed(call[c].base, Id(c))
  /\ written' = IF call[c].base.torn = "no" THEN written \cup {Id(c)} ELSE written
  /\ lock' = NoCaller
  /\ call' = [call EXCEPT ![c].phase = "returned", ![c].base = Empty]
  /\ UNCHANGED <<callVars, backup, unsaved, missed, stopped>>
  /\ NoFault

(* The writer of a line that has no end yet does not come back to it.       *)
Stops(c) ==
  stopped' = IF At(c, "writing") /\ log.torn # "no" THEN stopped \cup {Id(c)} ELSE stopped

(* "Usage logging must not break task execution": an OSError is swallowed.  *)
LogFails(c) ==
  /\ call[c].phase \in {"settled", "locked", "truncated", "writing"}
  /\ call' = [call EXCEPT ![c].phase = "returned", ![c].base = Empty]
  /\ lock' = IF lock = c THEN NoCaller ELSE lock
  /\ missed' = missed \cup {Id(c)}
  /\ Stops(c)
  /\ Fault
  /\ UNCHANGED <<callVars, log, backup, written, unsaved, strays>>

------------------------------------------------------------------------------
(* The callers. *)

(* A worker moves a valid payload away and unlinks the rest: its staging    *)
(* path is empty afterwards.  (FarmWorkers has the promotion.)              *)
LeaveStaging(c) ==
  /\ c \notin One
  /\ call[c].phase \in {"returned", "raised"}
  /\ file' = [file EXCEPT ![Path(c)] = Absent]
  /\ call' = [call EXCEPT ![c] = Idle]
  /\ UNCHANGED <<logVars, calls, fate, temp, told>>
  /\ NoFault

(* Mutant: the payload of a call that went well is not validated. *)
OneAccepts(c) ==
  /\ c \in One
  /\ call[c].phase \in {"returned", "raised"}
  /\ IF At(c, "returned") /\ call[c].ok
     THEN told' = Id(c) /\ call' = [call EXCEPT ![c] = Idle]
     ELSE call' = [call EXCEPT ![c] = Idle] /\ UNCHANGED told
  /\ UNCHANGED <<logVars, calls, fate, temp, file>>
  /\ NoFault

(* "one" validates what lies at its path when codex went well, and exits.   *)
OneValidates(c) ==
  /\ c \in One
  /\ call[c].phase \in {"returned", "raised"}
  /\ IF At(c, "returned") /\ call[c].ok /\ file[0].quality # "absent"
     THEN IF file[0].quality = "good"
          THEN told' = Id(c) /\ call' = [call EXCEPT ![c] = Idle]
          ELSE Goto(c, "rejecting") /\ UNCHANGED told
     ELSE call' = [call EXCEPT ![c] = Idle] /\ UNCHANGED told
  /\ UNCHANGED <<logVars, calls, fate, temp, file>>
  /\ NoFault

(* After the forensics bundle the payload is removed. *)
OneRejects(c) ==
  /\ At(c, "rejecting")
  /\ file' = [file EXCEPT ![0] = Absent]
  /\ call' = [call EXCEPT ![c] = Idle]
  /\ UNCHANGED <<logVars, calls, fate, temp, told>>
  /\ NoFault

(* The calling process is killed; codex is not. *)
Crash(c) ==
  /\ ~At(c, "idle")
  /\ Fault
  /\ strays' = strays \cup {Id(c)}
  /\ call' = [call EXCEPT ![c] = Idle]
  /\ fate' = IF At(c, "running") THEN [fate EXCEPT ![Id(c)] = "orphan"] ELSE fate
  /\ lock' = IF lock = c THEN NoCaller ELSE lock
  /\ Stops(c)
  /\ UNCHANGED <<calls, temp, file, log, backup, told, written, unsaved, missed>>

Next ==
  \/ \E c \in Caller :
       \/ RunCodexCommand(c) \/ CodexExits(c) \/ TimesOut(c)
       \/ DropTempAfterTimeout(c) \/ TakePayload(c) \/ CallRaises(c)
       \/ OpenLog(c) \/ MigrateUsageLogSchema(c) \/ FlushPart(c)
       \/ AppendUsageRow(c) \/ LogFails(c)
       \/ LeaveStaging(c) \/ OneValidates(c) \/ OneRejects(c)
       \/ Crash(c)
  \/ \E k \in Call : CodexWrites(k)

Spec == Init /\ [][Next]_vars
------------------------------------------------------------------------------
(* An output path never gets the payload of a call that timed out or whose  *)
(* caller was killed while codex ran, however late codex writes it.         *)
OnlyEndedCallsPublish ==
  \A p \in 0..MaxCalls : file[p].call # 0 =>
    /\ fate[file[p].call] = "exited"
    /\ p \in {0, file[p].call}

(* A temporary file belongs to a call under way, unless a call was killed   *)
(* or raised, or a process that codex started outlived it.                  *)
TempsAccounted ==
  \A k \in Call : temp[k] # "absent" =>
    \/ \E c \in Caller : Id(c) = k
    \/ k \in strays \/ fate[k] = "orphan"

(* docs/07-analytics: "One row is appended per `run_codex_exec(...)` call." *)
(* An OS error, a kill, and a row longer than csv reads keep a row out; and *)
(* a line that a call left without its end takes others with it.            *)
OneRowPerCall ==
  \A c \in Caller : At(c, "returned") => Id(c) \in written

(* What the code does keep of it: a row is left out only by an OS error in  *)
(* its own call or after a call that stopped in the middle of a line; and   *)
(* (docs/07: "migrated in place" with "a timestamped backup before          *)
(* rewrite") no row that was written is lost or there twice, whoever logs   *)
(* at the same time, is killed or finds the disk full at whatever byte,     *)
(* unless the backup failed or was overwritten.                             *)
LogKeepsRows ==
  /\ \A c \in Caller : At(c, "returned") =>
       Id(c) \in written \cup missed \/ stopped # {}
  /\ written \subseteq Logged \cup backup \cup unsaved
  /\ \A m, n \in Whole(log.rows) : log.rows[m].call = log.rows[n].call => m = n

(* Readers take the columns from the header: a row has another shape only   *)
(* if its writer stopped in the middle of it, or is at it.                  *)
HeaderTellsRows ==
  \A n \in 1..Len(log.rows) :
    LET row == log.rows[n]
    IN /\ log.header # "legacy" => row.shape # "legacy"
       /\ row.shape = "broken" =>
            row.call \in stopped \/ \E c \in Caller : At(c, "writing") /\ Id(c) = row.call

(* When the last "one" said that it wrote its output, its own valid payload *)
(* is there, until another "one" with that path has started.                *)
OneToldTruth == told # 0 => file[0] = [call |-> told, quality |-> "good"]
==============================================================================
