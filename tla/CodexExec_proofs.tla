--------------------------- MODULE CodexExec_proofs ---------------------------
(***************************************************************************)
(* Theorems about CodexExec for any number of callers and calls and for    *)
(* every log that Init allows.                                             *)
(*                                                                         *)
(* Types and the call ids come first.  On them rest two invariants: one    *)
(* relates the callers, the codex processes and the files, the other the   *)
(* callers and the log, which only the holder of the lock touches.         *)
(***************************************************************************)
EXTENDS CodexExec, SequenceTheorems, TLAPS

(* A caller that is not idle has a call of its own, which was made.         *)
Ids ==
  /\ \A c \in Caller : IF At(c, "idle") THEN call[c] = Idle ELSE Id(c) \in 1..calls
  /\ \A c, d \in Caller : ~At(c, "idle") /\ Id(c) = Id(d) => c = d
  /\ \A c \in Caller : At(c, "rejecting") => c \in One

TypeInv == ExecTypeOK /\ Ids

Phase == {"idle", "running", "ended", "expired", "settled", "locked", "truncated",
          "writing", "returned", "raised", "rejecting"}

------------------------------------------------------------------------------
(* What a step does to the caller's own record. *)

LEMMA EmptyType == /\ Empty \in Log /\ Empty.header = "none" /\ Empty.rows = <<>>
                   /\ Empty.long = FALSE /\ Empty.torn = "no"
BY EmptySeq DEF Empty, Log

LEMMA IdleType == Idle \in CallState /\ Idle.phase = "idle" /\ Idle.id = 0
                  /\ Idle.ok = FALSE /\ Idle.base = Empty
<1>1. 0 \in 0..MaxCalls
  BY ExecAssumption
<1> QED
  BY <1>1, EmptyType DEF Idle, CallState

(* The caller's record after a step; all others stay as they are.           *)
Becomes(c, phase, id, ok, base) ==
  /\ call'[c].phase = phase /\ call'[c].id = id
  /\ call'[c].ok = ok /\ call'[c].base = base
  /\ \A d \in Caller : d # c => call'[d] = call[d]

Typed == call' \in [Caller -> CallState]

LEMMA GotoBecomes ==
  ASSUME ExecTypeOK, NEW c \in Caller, NEW p, Goto(c, p)
  PROVE  /\ Becomes(c, p, Id(c), call[c].ok, call[c].base)
         /\ p \in Phase => Typed
<1>1. call \in [Caller -> CallState] /\ call' = [call EXCEPT ![c].phase = p]
  BY DEF ExecTypeOK, Goto
<1>2. call[c] \in CallState
  BY <1>1
<1> DEFINE q == [call[c] EXCEPT !.phase = p]
<1>3. call' = [call EXCEPT ![c] = q]
  BY <1>1
<1>4. /\ q.phase = p /\ q.id = call[c].id /\ q.ok = call[c].ok /\ q.base = call[c].base
      /\ p \in Phase => q \in CallState
  BY <1>2 DEF CallState, Phase
<1> HIDE DEF q
<1>5. call'[c] = q /\ \A d \in Caller : d # c => call'[d] = call[d]
  BY <1>1, <1>3
<1>6. Becomes(c, p, Id(c), call[c].ok, call[c].base)
  BY <1>4, <1>5 DEF Becomes, Id
<1>7. p \in Phase => Typed
  BY <1>1, <1>3, <1>4 DEF Typed
<1> QED
  BY <1>6, <1>7

LEMMA IdleBecomes ==
  ASSUME ExecTypeOK, NEW c \in Caller, call' = [call EXCEPT ![c] = Idle]
  PROVE  call'[c] = Idle /\ Becomes(c, "idle", 0, FALSE, Empty) /\ Typed
<1>1. call'[c] = Idle /\ \A d \in Caller : d # c => call'[d] = call[d]
  BY DEF ExecTypeOK
<1>2. Typed
  BY IdleType DEF ExecTypeOK, Typed
<1> QED
  BY <1>1, <1>2, IdleType DEF Becomes

(* A new call, running or not started.                                      *)
LEMMA RunBecomes ==
  ASSUME ExecTypeOK, NEW c \in Caller, RunCodexCommand(c)
  PROVE  /\ \/ Becomes(c, "running", calls + 1, FALSE, Empty)
               /\ fate' = [fate EXCEPT ![calls + 1] = "running"] /\ UNCHANGED strays
            \/ Becomes(c, "raised", calls + 1, FALSE, Empty)
               /\ strays' = strays \cup {calls + 1} /\ UNCHANGED fate
         /\ Typed
         /\ calls + 1 \in Call /\ calls' = calls + 1
<1>1. calls \in Nat /\ MaxCalls \in Nat /\ calls + 1 \in 1..MaxCalls
  BY ExecAssumption DEF ExecTypeOK, RunCodexCommand
<1>2. ASSUME NEW p \in {"running", "raised"},
             call' = [call EXCEPT ![c] = [Idle EXCEPT !.phase = p, !.id = calls + 1]]
      PROVE  Becomes(c, p, calls + 1, FALSE, Empty) /\ Typed
  <2> DEFINE q == [Idle EXCEPT !.phase = p, !.id = calls + 1]
  <2>1. q.phase = p /\ q.id = calls + 1 /\ q.ok = FALSE /\ q.base = Empty
    BY DEF Idle
  <2>2. q \in CallState
    <3> DEFINE n == calls + 1
    <3>1. n \in 0..MaxCalls
      BY <1>1
    <3>2. q = [Idle EXCEPT !.phase = p, !.id = n]
      OBVIOUS
    <3> HIDE DEF n, q
    <3> QED
      BY <3>1, <3>2, IdleType DEF CallState
  <2>3. call' = [call EXCEPT ![c] = q]
    BY <1>2
  <2> HIDE DEF q
  <2> QED
    BY <2>1, <2>2, <2>3 DEF ExecTypeOK, Becomes, Typed
<1> QED
  BY <1>1, <1>2 DEF RunCodexCommand, Call, NoFault

------------------------------------------------------------------------------
(* Every step. *)

(* The step of a caller, from phase to phase.                               *)
Next1(c) ==
  \/ RunCodexCommand(c) \/ CodexExits(c) \/ TimesOut(c)
  \/ DropTempAfterTimeout(c) \/ TakePayload(c) \/ CallRaises(c)
  \/ OpenLog(c) \/ MigrateUsageLogSchema(c) \/ FlushPart(c)
  \/ AppendUsageRow(c) \/ LogFails(c)
  \/ LeaveStaging(c) \/ OneValidates(c) \/ OneRejects(c)
  \/ Crash(c)

LEMMA NextSplit ==
  ASSUME [Next]_vars
  PROVE  \/ \E c \in Caller : Next1(c)
         \/ \E k \in Call : CodexWrites(k)
         \/ UNCHANGED vars
BY DEF Next, Next1

(* The caller's record after each of its steps.                             *)
LEMMA PayloadBecomes ==
  ASSUME ExecTypeOK, NEW c \in Caller, TakePayload(c)
  PROVE  /\ Becomes(c, "settled", Id(c), temp[Id(c)] \in {"broken", "good"}, call[c].base)
         /\ Typed
<1> DEFINE payload == temp[Id(c)] \in {"broken", "good"}
<1>1. payload \in BOOLEAN
  OBVIOUS
<1>2. call' = [call EXCEPT ![c].phase = "settled", ![c].ok = payload]
  BY DEF TakePayload
<1> HIDE DEF payload
<1>3. PICK o \in BOOLEAN : o = payload
  BY <1>1
<1>4. call' = [call EXCEPT ![c].phase = "settled", ![c].ok = o]
  BY <1>2, <1>3
<1>5. Becomes(c, "settled", Id(c), o, call[c].base) /\ Typed
  <2>1. call \in [Caller -> CallState] /\ call[c] \in CallState
    BY DEF ExecTypeOK
  <2> DEFINE q == [call[c] EXCEPT !.phase = "settled", !.ok = o]
  <2>2. q \in CallState
    BY <2>1 DEF CallState
  <2>3. q.phase = "settled" /\ q.base = call[c].base /\ q.id = call[c].id /\ q.ok = o
    BY <2>1 DEF CallState
  <2>4. call' = [call EXCEPT ![c] = q]
    BY <2>1, <1>4
  <2> HIDE DEF q
  <2> QED
    BY <2>1, <2>2, <2>3, <2>4 DEF Becomes, Id, Typed
<1> QED
  BY <1>5, <1>3 DEF payload

LEMMA RowsBecome ==
  ASSUME ExecTypeOK, NEW c \in Caller, NEW p \in Phase, NEW r \in Log,
         call' = [call EXCEPT ![c].phase = p, ![c].base = r]
  PROVE  Becomes(c, p, Id(c), call[c].ok, r) /\ Typed
<1>1. call \in [Caller -> CallState] /\ call[c] \in CallState
  BY DEF ExecTypeOK
<1> DEFINE q == [call[c] EXCEPT !.phase = p, !.base = r]
<1>2. q \in CallState
  BY <1>1 DEF CallState, Phase
<1>3. q.phase = p /\ q.base = r /\ q.id = call[c].id /\ q.ok = call[c].ok
  BY <1>1 DEF CallState
<1>4. call' = [call EXCEPT ![c] = q]
  BY <1>1
<1> HIDE DEF q
<1> QED
  BY <1>1, <1>2, <1>3, <1>4 DEF Becomes, Id, Typed

(* The rows as a migration maps them: the same calls, none of old shape.    *)
LEMMA MigratedRows ==
  ASSUME NEW rows \in Seq(Row)
  PROVE  /\ Migrated(rows) \in Seq(Row) /\ Len(Migrated(rows)) = Len(rows)
         /\ \A n \in 1..Len(rows) :
              /\ Migrated(rows)[n].shape = IF rows[n].shape = "broken" THEN "broken" ELSE "current"
              /\ Migrated(rows)[n].call = rows[n].call
<1>1. Len(rows) \in Nat /\ \A n \in 1..Len(rows) : rows[n] \in Row
  BY LenProperties, ElementOfSeq
<1>2. \A n \in 1..Len(rows) : Migrated(rows)[n] \in Row
  BY <1>1 DEF Migrated, Row
<1>3. Migrated(rows) \in [1..Len(rows) -> Row]
  BY <1>2 DEF Migrated
<1>4. Migrated(rows) \in Seq(Row)
  BY <1>1, <1>3, SeqDef
<1>5. Len(Migrated(rows)) = Len(rows)
  BY <1>1, <1>4, LenProperties DEF Migrated
<1>6. \A n \in 1..Len(rows) :
        /\ Migrated(rows)[n].shape = IF rows[n].shape = "broken" THEN "broken" ELSE "current"
        /\ Migrated(rows)[n].call = rows[n].call
  BY <1>1 DEF Migrated, Row
<1> QED
  BY <1>4, <1>5, <1>6

(* What the caller that migrates the log is to write. *)
NewBase == [Empty EXCEPT !.header = "current", !.rows = Migrated(log.rows)]

LEMMA NewBaseTyped ==
  ASSUME log \in Log
  PROVE  /\ NewBase \in Log /\ NewBase.header = "current" /\ NewBase.torn = "no"
         /\ NewBase.rows = Migrated(log.rows)
<1>1. Migrated(log.rows) \in Seq(Row)
  BY MigratedRows DEF Log
<1> DEFINE rows == Migrated(log.rows)
<1>2. rows \in Seq(Row)
  BY <1>1
<1> HIDE DEF rows
<1>3. NewBase = [Empty EXCEPT !.header = "current", !.rows = rows]
  BY DEF NewBase, rows
<1>4. NewBase \in Log /\ NewBase.header = "current" /\ NewBase.torn = "no" /\ NewBase.rows = rows
  BY <1>2, <1>3, EmptyType DEF Log
<1> QED
  BY <1>4 DEF rows

------------------------------------------------------------------------------
(* Types, and whose call is whose. *)


IdleOrKept(c) ==
  \/ call'[c] = Idle
  \/ ~At(c, "idle") /\ call'[c].phase # "idle" /\ call'[c].id = Id(c)

LEMMA MoveKeepsIds ==
  ASSUME TypeInv, NEW c \in Caller, Typed, calls' = calls, IdleOrKept(c),
         \A d \in Caller : d # c => call'[d] = call[d],
         call'[c].phase = "rejecting" => c \in One
  PROVE  Ids'
<1>1. call' \in [Caller -> CallState] /\ call \in [Caller -> CallState]
  BY DEF TypeInv, ExecTypeOK, Typed
<1>2. ASSUME NEW d \in Caller
      PROVE  /\ IF call'[d].phase = "idle" THEN call'[d] = Idle ELSE call'[d].id \in 1..calls
             /\ call'[d].phase # "idle" => call[d].phase # "idle" /\ call'[d].id = call[d].id
             /\ call'[d].phase = "rejecting" => d \in One
  BY IdleType DEF TypeInv, Ids, IdleOrKept, At, Id
<1>3. call'[c].phase = "idle" => call'[c].id = 0
  BY <1>2, IdleType
<1>4. \A d, e \in Caller : call'[d].phase # "idle" /\ call'[d].id = call'[e].id => d = e
  <2> SUFFICES ASSUME NEW d \in Caller, NEW e \in Caller,
                      call'[d].phase # "idle", call'[d].id = call'[e].id
               PROVE  d = e
    OBVIOUS
  <2>1. call[d].phase # "idle" /\ call'[d].id = call[d].id /\ call[d].id \in 1..calls
    BY <1>2 DEF TypeInv, Ids, At, Id
  <2>2. call'[e].phase # "idle"
    <3>1. call'[e].phase = "idle" => call'[e].id = 0
      BY <1>2, IdleType
    <3> QED
      BY <2>1, <3>1
  <2>3. call[e].id = call'[e].id
    BY <1>2, <2>2
  <2> QED
    BY <2>1, <2>3 DEF TypeInv, Ids, At, Id
<1> QED
  BY <1>2, <1>4 DEF Ids, At, Id

LEMMA RunKeepsIds ==
  ASSUME TypeInv, NEW c \in Caller, RunCodexCommand(c)
  PROVE  Ids'
<1>1. /\ call'[c].phase \in {"running", "raised"} /\ call'[c].id = calls + 1
      /\ \A d \in Caller : d # c => call'[d] = call[d]
      /\ calls' = calls + 1 /\ calls \in Nat
  <2>1. ExecTypeOK /\ calls \in Nat
    BY ExecAssumption DEF TypeInv, ExecTypeOK
  <2> QED
    BY <2>1, RunBecomes DEF Becomes
<1>2. ASSUME NEW d \in Caller, d # c
      PROVE  /\ call'[d].id \in 0..calls
             /\ IF call'[d].phase = "idle" THEN call'[d] = Idle ELSE call'[d].id \in 1..calls
             /\ call'[d].phase = "rejecting" => d \in One
  <2>1. /\ IF call[d].phase = "idle" THEN call[d] = Idle ELSE call[d].id \in 1..calls
        /\ call[d].phase = "rejecting" => d \in One
    BY DEF TypeInv, Ids, At, Id
  <2>2. call[d].id \in 0..calls
    BY <2>1, <1>1, IdleType
  <2> QED
    BY <1>2, <2>1, <2>2, <1>1
<1>3. \A d, e \in Caller : call'[d].phase # "idle" /\ call'[d].id = call'[e].id => d = e
  <2> SUFFICES ASSUME NEW d \in Caller, NEW e \in Caller,
                      call'[d].phase # "idle", call'[d].id = call'[e].id
               PROVE  d = e
    OBVIOUS
  <2>1. CASE d # c /\ e # c
    BY <2>1, <1>1 DEF TypeInv, Ids, At, Id
  <2>2. CASE d # c /\ e = c
    BY <2>2, <1>1, <1>2
  <2>3. CASE d = c /\ e # c
    BY <2>3, <1>1, <1>2
  <2> QED
    BY <2>1, <2>2, <2>3
<1>4. \A d \in Caller :
        /\ IF call'[d].phase = "idle" THEN call'[d] = Idle ELSE call'[d].id \in 1..calls'
        /\ call'[d].phase = "rejecting" => d \in One
  BY <1>1, <1>2
<1> QED
  BY <1>3, <1>4 DEF Ids, At, Id

(* The caller's record and the ids, whatever the step.                      *)
LEMMA MoveTyped ==
  ASSUME TypeInv, NEW c \in Caller, Next1(c)
  PROVE  Typed /\ Ids'
<1>0. ExecTypeOK /\ log \in Log /\ NewBase \in Log /\ Empty \in Log /\ call[c] \in CallState
  BY EmptyType, NewBaseTyped DEF TypeInv, ExecTypeOK
<1>1. ASSUME NEW p \in Phase \ {"idle", "rejecting"}, Goto(c, p), ~At(c, "idle"), calls' = calls
      PROVE  Typed /\ Ids'
  <2>1. Becomes(c, p, Id(c), call[c].ok, call[c].base) /\ Typed
    BY <1>0, <1>1, GotoBecomes
  <2> QED
    BY <2>1, <1>1, MoveKeepsIds DEF Becomes, IdleOrKept
<1>2. ASSUME NEW p \in Phase \ {"idle", "rejecting"}, NEW r \in Log, ~At(c, "idle"),
             call' = [call EXCEPT ![c].phase = p, ![c].base = r], calls' = calls
      PROVE  Typed /\ Ids'
  <2>1. Becomes(c, p, Id(c), call[c].ok, r) /\ Typed
    BY <1>0, <1>2, RowsBecome
  <2> QED
    BY <2>1, <1>2, MoveKeepsIds DEF Becomes, IdleOrKept
<1>3. ASSUME call' = [call EXCEPT ![c] = Idle], calls' = calls
      PROVE  Typed /\ Ids'
  <2>1. call'[c] = Idle /\ Becomes(c, "idle", 0, FALSE, Empty) /\ Typed
    BY <1>0, <1>3, IdleBecomes
  <2> QED
    BY <2>1, <1>3, MoveKeepsIds DEF Becomes, IdleOrKept
<1>4. CASE RunCodexCommand(c)
  BY <1>4, <1>0, RunBecomes, RunKeepsIds
<1>5. CASE CodexExits(c) \/ TimesOut(c) \/ DropTempAfterTimeout(c) \/ CallRaises(c)
  BY <1>5, <1>1 DEF CodexExits, TimesOut, DropTempAfterTimeout, CallRaises, At, Phase
<1>6. CASE TakePayload(c)
  <2>1. Becomes(c, "settled", Id(c), temp[Id(c)] \in {"broken", "good"}, call[c].base) /\ Typed
    BY <1>0, <1>6, PayloadBecomes
  <2>2. ~At(c, "idle") /\ calls' = calls
    BY <1>6 DEF TakePayload, At
  <2> QED
    BY <2>1, <2>2, MoveKeepsIds DEF Becomes, IdleOrKept
<1>7. CASE MigrateUsageLogSchema(c)
  <2>1. ~At(c, "idle") /\ calls' = calls
    BY <1>7 DEF MigrateUsageLogSchema, At, callVars
  <2>2. CASE Goto(c, "raised")
    BY <2>1, <2>2, <1>1 DEF Phase
  <2>3. CASE call' = [call EXCEPT ![c].phase = "truncated", ![c].base = NewBase]
    BY <1>0, <2>1, <2>3, <1>2 DEF Phase
  <2> QED
    BY <1>7, <2>2, <2>3 DEF MigrateUsageLogSchema, NewBase
<1>8. CASE OpenLog(c) \/ FlushPart(c)
  BY <1>8, <1>0, <1>1, <1>2 DEF OpenLog, FlushPart, At, Phase, callVars
<1>9. CASE AppendUsageRow(c) \/ LogFails(c)
  BY <1>9, <1>2, <1>0 DEF AppendUsageRow, LogFails, At, Phase, callVars
<1>10. CASE LeaveStaging(c) \/ OneRejects(c) \/ Crash(c)
  BY <1>10, <1>3 DEF LeaveStaging, OneRejects, Crash
<1>11. CASE OneValidates(c)
  <2>1. calls' = calls
    BY <1>11 DEF OneValidates
  <2>2. CASE Goto(c, "rejecting")
    <3>1. ~At(c, "idle") /\ c \in One
      BY <1>11 DEF OneValidates, At
    <3>2. Becomes(c, "rejecting", Id(c), call[c].ok, call[c].base) /\ Typed
      BY <1>0, <2>2, GotoBecomes DEF Phase
    <3> QED
      BY <3>1, <3>2, <2>1, MoveKeepsIds DEF Becomes, IdleOrKept
  <2>3. CASE call' = [call EXCEPT ![c] = Idle]
    BY <2>1, <2>3, <1>3
  <2> QED
    BY <1>11, <2>2, <2>3 DEF OneValidates
<1> QED
  BY <1>4, <1>5, <1>6, <1>7, <1>8, <1>9, <1>10, <1>11 DEF Next1

(* The lock is held by the caller that works in the log.                    *)
Holders == {c \in Caller : call[c].phase \in {"locked", "truncated", "writing"}}

LEMMA LockFollows ==
  ASSUME TypeInv, NEW c \in Caller, Next1(c)
  PROVE  lock' \in Caller \cup {NoCaller} /\ Holders' = {lock'} \ {NoCaller}
<1>1. /\ ExecTypeOK /\ NoCaller \notin Caller /\ lock \in Caller \cup {NoCaller}
      /\ \A d \in Caller : call[d].phase \in {"locked", "truncated", "writing"} <=> d = lock
  BY ExecAssumption DEF TypeInv, ExecTypeOK
<1>2. SUFFICES /\ lock' \in Caller \cup {NoCaller}
               /\ \A d \in Caller : call'[d].phase \in {"locked", "truncated", "writing"} <=> d = lock'
  BY <1>1 DEF Holders
<1>3. SUFFICES /\ \A d \in Caller : d # c => call'[d] = call[d]
               /\ \/ /\ call'[c].phase \in {"locked", "truncated", "writing"} <=>
                          call[c].phase \in {"locked", "truncated", "writing"}
                     /\ lock' = lock
                  \/ /\ call'[c].phase \in {"locked", "truncated", "writing"}
                     /\ lock = NoCaller /\ lock' = c
                  \/ /\ call'[c].phase \notin {"locked", "truncated", "writing"}
                     /\ lock = c /\ lock' = NoCaller
                  \/ /\ call'[c].phase \notin {"locked", "truncated", "writing"}
                     /\ lock # c /\ lock' = lock
  BY <1>1
<1>4. \A p : Goto(c, p) => Becomes(c, p, Id(c), call[c].ok, call[c].base)
  BY <1>1, GotoBecomes
<1>5. call' = [call EXCEPT ![c] = Idle] => Becomes(c, "idle", 0, FALSE, Empty)
  BY <1>1, IdleBecomes
<1>6. \A p \in Phase, r \in Log :
        call' = [call EXCEPT ![c].phase = p, ![c].base = r]
          => Becomes(c, p, Id(c), call[c].ok, r)
  BY <1>1, RowsBecome
<1>7. log \in Log /\ NewBase \in Log /\ Empty \in Log
  BY EmptyType, NewBaseTyped DEF TypeInv, ExecTypeOK
<1>8. CASE RunCodexCommand(c)
  <2>1. lock' = lock /\ call[c].phase = "idle"
    BY <1>8 DEF RunCodexCommand, logVars, At
  <2>2. Becomes(c, "running", calls + 1, FALSE, Empty) \/ Becomes(c, "raised", calls + 1, FALSE, Empty)
    BY <1>8, <1>1, RunBecomes
  <2> QED
    BY <2>1, <2>2 DEF Becomes
<1>9. CASE CodexExits(c) \/ TimesOut(c) \/ DropTempAfterTimeout(c) \/ CallRaises(c)
  BY <1>9, <1>4 DEF CodexExits, TimesOut, DropTempAfterTimeout, CallRaises, logVars, At, Becomes
<1>10. CASE TakePayload(c)
  <2>1. lock' = lock /\ call[c].phase = "ended"
    BY <1>10 DEF TakePayload, logVars, At
  <2>2. Becomes(c, "settled", Id(c), temp[Id(c)] \in {"broken", "good"}, call[c].base)
    BY <1>10, <1>1, PayloadBecomes
  <2> QED
    BY <2>1, <2>2 DEF Becomes
<1>11. CASE OpenLog(c)
  <2>1. lock = NoCaller /\ lock' = c /\ Becomes(c, "locked", Id(c), call[c].ok, log)
    BY <1>11, <1>6, <1>7 DEF OpenLog, Phase
  <2> QED
    BY <2>1 DEF Becomes
<1>12. CASE MigrateUsageLogSchema(c)
  <2>1. call[c].phase = "locked" /\ lock = c
    BY <1>12, <1>1 DEF MigrateUsageLogSchema, At
  <2>2. CASE Goto(c, "raised") /\ lock' = NoCaller
    BY <2>1, <2>2, <1>4 DEF Becomes
  <2>3. CASE /\ call' = [call EXCEPT ![c].phase = "truncated", ![c].base = NewBase]
             /\ lock' = lock
    BY <2>1, <2>3, <1>6, <1>7 DEF Becomes, Phase
  <2> QED
    BY <1>12, <2>2, <2>3 DEF MigrateUsageLogSchema, NewBase
<1>13. CASE FlushPart(c)
  BY <1>13, <1>4 DEF FlushPart, At, Becomes
<1>14. CASE AppendUsageRow(c)
  <2>1. lock = c /\ lock' = NoCaller
    BY <1>14, <1>1 DEF AppendUsageRow, At
  <2>2. Becomes(c, "returned", Id(c), call[c].ok, Empty)
    BY <1>14, <1>6, <1>7 DEF AppendUsageRow, Phase
  <2> QED
    BY <2>1, <2>2 DEF Becomes
<1>15. CASE LogFails(c)
  <2>1. lock' = IF lock = c THEN NoCaller ELSE lock
    BY <1>15 DEF LogFails
  <2>2. Becomes(c, "returned", Id(c), call[c].ok, Empty)
    BY <1>15, <1>6, <1>7 DEF LogFails, Phase
  <2> QED
    BY <2>1, <2>2 DEF Becomes
<1>16. CASE LeaveStaging(c) \/ OneRejects(c)
  BY <1>16, <1>5 DEF LeaveStaging, OneRejects, logVars, At, Becomes
<1>17. CASE OneValidates(c)
  <2>1. lock' = lock /\ call[c].phase \in {"returned", "raised"}
    BY <1>17 DEF OneValidates, logVars
  <2>2. Becomes(c, "rejecting", Id(c), call[c].ok, call[c].base) \/ Becomes(c, "idle", 0, FALSE, Empty)
    BY <1>17, <1>4, <1>5 DEF OneValidates
  <2> QED
    BY <2>1, <2>2 DEF Becomes
<1>18. CASE Crash(c)
  BY <1>18, <1>5 DEF Crash, Becomes
<1> QED
  BY <1>8, <1>9, <1>10, <1>11, <1>12, <1>13, <1>14, <1>15, <1>16, <1>17, <1>18 DEF Next1

LEMMA IdCalled ==
  ASSUME TypeInv, NEW c \in Caller, ~At(c, "idle")
  PROVE  Id(c) \in Call /\ Id(c) \in 1..calls /\ calls \in 0..MaxCalls /\ MaxCalls \in Nat
BY ExecAssumption DEF TypeInv, ExecTypeOK, Ids, Call

(* The processes, the files and the counters.                               *)
FilesTyped ==
  /\ calls \in 0..MaxCalls
  /\ fate \in [Call -> {"none", "running", "exited", "killed", "orphan"}]
  /\ temp \in [Call -> {"absent", "empty", "broken", "good"}]
  /\ file \in [0..MaxCalls -> Content]
  /\ told \in 0..MaxCalls /\ strays \subseteq Call
  /\ faults \in 0..MaxFaults

LEMMA FilesStayTyped ==
  ASSUME TypeInv, NEW c \in Caller, Next1(c)
  PROVE  FilesTyped'
<1>1. FilesTyped /\ MaxFaults \in Nat /\ MaxCalls \in Nat
  BY ExecAssumption DEF TypeInv, ExecTypeOK, FilesTyped
<1>2. Fault => faults' \in 0..MaxFaults
  BY <1>1 DEF Fault, FilesTyped
<1>3. NoFault => strays' = strays /\ faults' = faults
  BY DEF NoFault
<1>4. CASE RunCodexCommand(c)
  <2>1. calls + 1 \in Call /\ calls' = calls + 1 /\ calls' \in 0..MaxCalls
    BY <1>1, <1>4 DEF RunCodexCommand, FilesTyped, Call
  <2> DEFINE n == calls + 1
  <2>2. /\ temp' = [temp EXCEPT ![n] = "empty"]
        /\ fate' = fate \/ fate' = [fate EXCEPT ![n] = "running"]
        /\ strays' = strays \/ strays' = strays \cup {n}
        /\ faults' \in 0..MaxFaults
        /\ told' = 0 \/ told' = told
        /\ file' = file
    BY <1>1, <1>2, <1>3, <1>4 DEF RunCodexCommand, FilesTyped
  <2>3. n \in Call
    BY <2>1
  <2> HIDE DEF n
  <2> QED
    BY <1>1, <2>1, <2>2, <2>3 DEF FilesTyped
<1>5. ASSUME ~At(c, "idle"), calls' = calls
      PROVE  /\ temp' = temp \/ temp' = [temp EXCEPT ![Id(c)] = "absent"]
             /\ \/ fate' = fate
                \/ \E f \in {"exited", "killed", "orphan"} : fate' = [fate EXCEPT ![Id(c)] = f]
             /\ \/ file' = file
                \/ file' = [file EXCEPT ![Path(c)] = [call |-> Id(c), quality |-> temp[Id(c)]]]
                    /\ temp[Id(c)] # "empty"
                \/ \E p \in {0, Id(c)} : file' = [file EXCEPT ![p] = Absent]
             /\ told' = told \/ told' = Id(c)
             /\ strays' = strays \/ strays' = strays \cup {Id(c)}
             /\ faults' \in 0..MaxFaults
             => FilesTyped'
  <2>1. Id(c) \in Call /\ Id(c) \in 0..MaxCalls /\ Path(c) \in 0..MaxCalls /\ 0 \in 0..MaxCalls
    BY <1>5, <1>1, IdCalled DEF Path, Call
  <2>2. temp[Id(c)] \in {"absent", "empty", "broken", "good"}
    BY <2>1, <1>1 DEF FilesTyped
  <2> SUFFICES
        ASSUME temp' = temp \/ temp' = [temp EXCEPT ![Id(c)] = "absent"],
               \/ fate' = fate
               \/ \E f \in {"exited", "killed", "orphan"} : fate' = [fate EXCEPT ![Id(c)] = f],
               \/ file' = file
               \/ file' = [file EXCEPT ![Path(c)] = [call |-> Id(c), quality |-> temp[Id(c)]]]
                   /\ temp[Id(c)] # "empty"
               \/ \E p \in {0, Id(c)} : file' = [file EXCEPT ![p] = Absent],
               told' = told \/ told' = Id(c),
               strays' = strays \/ strays' = strays \cup {Id(c)},
               faults' \in 0..MaxFaults
        PROVE  FilesTyped'
    OBVIOUS
  <2>3. temp' \in [Call -> {"absent", "empty", "broken", "good"}]
        /\ fate' \in [Call -> {"none", "running", "exited", "killed", "orphan"}]
    BY <1>1, <2>1 DEF FilesTyped
  <2>4. file' \in [0..MaxCalls -> Content]
    <3>1. Absent \in Content /\ file \in [0..MaxCalls -> Content]
      <4>1. Absent \in Content
        BY <2>1 DEF Absent, Content
      <4> QED
        BY <1>1, <4>1 DEF FilesTyped
    <3>2. temp[Id(c)] # "empty" => [call |-> Id(c), quality |-> temp[Id(c)]] \in Content
      BY <2>1, <2>2 DEF Content
    <3> QED
      BY <3>1, <3>2, <2>1
  <2> QED
    BY <1>1, <1>5, <2>1, <2>3, <2>4 DEF FilesTyped
<1>6. CASE CodexExits(c) \/ TimesOut(c) \/ DropTempAfterTimeout(c) \/ CallRaises(c)
  BY <1>1, <1>2, <1>3, <1>5, <1>6
  DEF CodexExits, TimesOut, DropTempAfterTimeout, CallRaises, At, FilesTyped
<1>7. CASE TakePayload(c)
  BY <1>1, <1>3, <1>5, <1>7 DEF TakePayload, At, FilesTyped
<1>8. CASE OpenLog(c) \/ MigrateUsageLogSchema(c) \/ FlushPart(c) \/ AppendUsageRow(c) \/ LogFails(c)
  <2>1. UNCHANGED <<calls, fate, temp, file, told, strays>> /\ faults' \in 0..MaxFaults
    BY <1>1, <1>2, <1>3, <1>8
    DEF OpenLog, MigrateUsageLogSchema, FlushPart, AppendUsageRow, LogFails, callVars, FilesTyped
  <2> QED
    BY <1>1, <2>1 DEF FilesTyped
<1>9. CASE LeaveStaging(c) \/ OneValidates(c) \/ OneRejects(c)
  BY <1>1, <1>3, <1>5, <1>9
  DEF LeaveStaging, OneValidates, OneRejects, At, Path, FilesTyped
<1>10. CASE Crash(c)
  BY <1>1, <1>2, <1>5, <1>10 DEF Crash, FilesTyped
<1> QED
  BY <1>4, <1>6, <1>7, <1>8, <1>9, <1>10 DEF Next1

(* The log, its backups and the sets of rows.                               *)
LogTyped ==
  /\ log \in Log
  /\ backup \subseteq 0..MaxCalls /\ written \subseteq 0..MaxCalls
  /\ unsaved \subseteq 0..MaxCalls /\ missed \cup stopped \subseteq Call

LEMMA LoggedTyped ==
  ASSUME LogTyped
  PROVE  /\ Logged \subseteq 0..MaxCalls /\ log.rows \in Seq(Row) /\ Len(log.rows) \in Nat
         /\ \A n \in 1..Len(log.rows) : log.rows[n] \in Row
<1>1. log.rows \in Seq(Row)
  BY DEF LogTyped, Log
<1>2. Len(log.rows) \in Nat /\ \A n \in 1..Len(log.rows) : log.rows[n] \in Row
  BY <1>1, LenProperties, ElementOfSeq
<1> QED
  BY <1>1, <1>2 DEF Logged, CallsOf, Whole, Row

(* A sequence with one more row.                                            *)
LEMMA OneMore ==
  ASSUME NEW rows \in Seq(Row), NEW row \in Row
  PROVE  /\ Append(rows, row) \in Seq(Row) /\ Len(Append(rows, row)) = Len(rows) + 1
         /\ Append(rows, row)[Len(rows) + 1] = row /\ Len(rows) \in Nat
         /\ \A n \in 1..Len(rows) : Append(rows, row)[n] = rows[n]
BY AppendProperties, LenProperties

(* What is in the log while the own row is not whole: the rows of the base, *)
(* or a beginning of them, and perhaps a line that is broken.               *)
Begins(rows, base, k) ==
  \E n \in 0..Len(base) :
    /\ Len(rows) \in {n, n + 1} /\ \A m \in 1..n : rows[m] = base[m]
    /\ Len(rows) = n + 1 => rows[n + 1] = [call |-> k, shape |-> "broken"]

StartsLike(rows, base) ==
  \A n \in 1..Len(rows) : n \in 1..Len(base) /\ rows[n] = base[n]

LEMMA CutRowTyped ==
  ASSUME NEW rows \in Seq(Row), NEW k \in 0..MaxCalls, NEW l \in CutRow(rows, k)
  PROVE  /\ l \in Log /\ l.header = "current" /\ l.torn # "no"
         /\ Len(l.rows) = Len(rows) + 1 /\ Len(rows) \in Nat
         /\ l.rows[Len(rows) + 1] = [call |-> k, shape |-> "broken"]
         /\ \A n \in 1..Len(rows) : l.rows[n] = rows[n]
<1> DEFINE row == [call |-> k, shape |-> "broken"]
<1>1. row \in Row
  BY DEF Row
<1>2. PICK t \in {"line", "cell"} :
        l = [header |-> "current", rows |-> Append(rows, row), long |-> FALSE, torn |-> t]
  BY DEF CutRow
<1> HIDE DEF row
<1> DEFINE more == Append(rows, row)
<1>3. /\ more \in Seq(Row) /\ Len(more) = Len(rows) + 1
      /\ more[Len(rows) + 1] = row /\ Len(rows) \in Nat
      /\ \A n \in 1..Len(rows) : more[n] = rows[n]
  BY <1>1, OneMore
<1>4. l = [header |-> "current", rows |-> more, long |-> FALSE, torn |-> t]
  BY <1>2
<1> HIDE DEF more
<1>5. l \in Log /\ l.header = "current" /\ l.torn # "no" /\ l.rows = more
  BY <1>3, <1>4 DEF Log
<1> QED
  BY <1>3, <1>5 DEF row

LEMMA FreshTyped ==
  ASSUME NEW rows \in Seq(Row), NEW k \in 0..MaxCalls, NEW l \in FreshParts(rows, k)
  PROVE  /\ l \in Log /\ Begins(l.rows, rows, k)
         /\ l.header \in {"legacy", "current"}
         /\ l.torn = "no" => StartsLike(l.rows, rows)
<1>0. Len(rows) \in Nat /\ Len(<<>>) = 0 /\ <<>> \in Seq(Row)
  BY LenProperties, EmptySeq
<1>1. CASE l \in {CutHeader, [Empty EXCEPT !.header = "current", !.torn = "line"]}
  <2>1. l \in Log /\ l.rows = <<>> /\ l.header \in {"legacy", "current"}
    <3>1. CASE l = CutHeader
      BY <3>1, EmptyType DEF CutHeader, Log
    <3>2. CASE l = [Empty EXCEPT !.header = "current", !.torn = "line"]
      BY <3>2, EmptyType DEF Log
    <3> QED
      BY <1>1, <3>1, <3>2
  <2>2. Begins(<<>>, rows, k)
    <3>1. 0 \in 0..Len(rows) /\ \A m \in 1..0 : FALSE
      BY <1>0
    <3> QED
      BY <1>0, <3>1 DEF Begins
  <2>3. StartsLike(<<>>, rows)
    BY <1>0 DEF StartsLike
  <2> QED
    BY <2>1, <2>2, <2>3
<1>2. ASSUME NEW n \in 0..Len(rows),
             l \in {[Empty EXCEPT !.header = "current", !.rows = SubSeq(rows, 1, n)]}
                   \cup CutRow(SubSeq(rows, 1, n), k)
      PROVE  /\ l \in Log /\ Begins(l.rows, rows, k) /\ l.header = "current"
             /\ l.torn = "no" => StartsLike(l.rows, rows)
  <2> DEFINE part == SubSeq(rows, 1, n)
  <2>1. part \in Seq(Row) /\ Len(part) = n /\ \A i \in 1..n : part[i] = rows[i]
    <3>1. \A i \in 1..n : i \in 1..Len(rows)
      BY <1>0
    <3> QED
      BY <1>0, <3>1, SubSeqProperties
  <2>2. l = [Empty EXCEPT !.header = "current", !.rows = part] \/ l \in CutRow(part, k)
    BY <1>2
  <2> HIDE DEF part
  <2>3. CASE l = [Empty EXCEPT !.header = "current", !.rows = part]
    <3>1. l \in Log /\ l.header = "current" /\ l.rows = part
      BY <2>1, <2>3, EmptyType DEF Log
    <3>2. StartsLike(part, rows)
      BY <1>0, <2>1 DEF StartsLike
    <3> QED
      BY <1>0, <2>1, <3>1, <3>2 DEF Begins
  <2>4. CASE l \in CutRow(part, k)
    <3>1. /\ l \in Log /\ l.header = "current" /\ l.torn # "no" /\ Len(l.rows) = n + 1
          /\ l.rows[n + 1] = [call |-> k, shape |-> "broken"]
          /\ \A i \in 1..n : l.rows[i] = part[i]
      BY <2>1, <2>4, CutRowTyped
    <3> QED
      BY <2>1, <3>1 DEF Begins
  <2> QED
    BY <2>2, <2>3, <2>4
<1> QED
  BY <1>1, <1>2 DEF FreshParts

LEMMA AppendedTyped ==
  ASSUME NEW base \in Log, NEW k \in 0..MaxCalls, NEW l \in AppendedParts(base, k)
  PROVE  /\ l \in Log /\ Begins(l.rows, base.rows, k) /\ StartsLike(base.rows, l.rows)
         /\ base.header = "current" => l.header \in {"legacy", "current"}
         /\ l.torn = "no" => StartsLike(l.rows, base.rows)
<1>0. /\ base.rows \in Seq(Row) /\ Len(base.rows) \in Nat
      /\ Len(base.rows) \in 0..Len(base.rows)
  BY LenProperties DEF Log
<1>1. CASE base.torn = "no"
  <2>1. l \in CutRow(base.rows, k)
    BY <1>1 DEF AppendedParts
  <2>2. /\ l \in Log /\ l.header = "current" /\ l.torn # "no"
        /\ Len(l.rows) = Len(base.rows) + 1
        /\ l.rows[Len(base.rows) + 1] = [call |-> k, shape |-> "broken"]
        /\ \A i \in 1..Len(base.rows) : l.rows[i] = base.rows[i]
    BY <1>0, <2>1, CutRowTyped
  <2>3. StartsLike(base.rows, l.rows)
    BY <1>0, <2>2 DEF StartsLike
  <2> QED
    BY <1>0, <2>2, <2>3 DEF Begins
<1>2. CASE base.torn # "no" /\ base.rows = <<>>
  <2>1. l = CutHeader
    BY <1>2 DEF AppendedParts
  <2>2. l \in Log /\ l.rows = <<>> /\ l.header = "legacy" /\ l.torn = "no"
    BY <2>1, EmptyType DEF CutHeader, Log
  <2> QED
    BY <1>0, <1>2, <2>2 DEF Begins, StartsLike
<1>3. CASE base.torn # "no" /\ base.rows # <<>>
  <2>1. PICK t \in {"no", "line", "cell"} : l = [base EXCEPT !.torn = t]
    BY <1>3 DEF AppendedParts
  <2>2. l \in Log /\ l.rows = base.rows /\ l.header = base.header
    BY <2>1 DEF Log
  <2> QED
    BY <1>0, <2>2 DEF Begins, StartsLike
<1> QED
  BY <1>1, <1>2, <1>3

(* The log when the row has been written: with the row, or as it was.       *)
LEMMA CompletedTyped ==
  ASSUME NEW base \in Log, NEW k \in 0..MaxCalls, NEW l \in Completed(base, k)
  PROVE  /\ l \in Log
         /\ base.torn = "no" =>
              /\ l.header = "current" /\ l.torn = "no"
              /\ Len(l.rows) = Len(base.rows) + 1 /\ Len(base.rows) \in Nat
              /\ l.rows[Len(base.rows) + 1] = [call |-> k, shape |-> "current"]
              /\ \A n \in 1..Len(base.rows) : l.rows[n] = base.rows[n]
         /\ base.torn # "no" => l.rows = base.rows /\ (l.header = "none" => base.header = "none")
<1>0. base.rows \in Seq(Row)
  BY DEF Log
<1>1. CASE base.torn = "no"
  <2> DEFINE row == [call |-> k, shape |-> "current"]
  <2>1. row \in Row
    BY DEF Row
  <2>2. l = [header |-> "current", rows |-> Append(base.rows, row), long |-> FALSE, torn |-> "no"]
    BY <1>1 DEF Completed
  <2> HIDE DEF row
  <2> DEFINE more == Append(base.rows, row)
  <2>3. /\ more \in Seq(Row) /\ Len(more) = Len(base.rows) + 1
        /\ more[Len(base.rows) + 1] = row /\ Len(base.rows) \in Nat
        /\ \A n \in 1..Len(base.rows) : more[n] = base.rows[n]
    BY <1>0, <2>1, OneMore
  <2>4. l = [header |-> "current", rows |-> more, long |-> FALSE, torn |-> "no"]
    BY <2>2
  <2> HIDE DEF more
  <2>5. l \in Log /\ l.header = "current" /\ l.torn = "no" /\ l.rows = more
    BY <2>3, <2>4 DEF Log
  <2> QED
    BY <1>1, <2>3, <2>5 DEF row
<1>2. CASE base.torn # "no" /\ base.rows = <<>>
  <2>1. l \in {CutHeader, [CutHeader EXCEPT !.long = TRUE]}
    BY <1>2 DEF Completed
  <2>2. l \in Log /\ l.rows = <<>> /\ l.header = "legacy"
    BY <2>1, EmptyType DEF CutHeader, Log
  <2> QED
    BY <1>2, <2>2
<1>3. CASE base.torn # "no" /\ base.rows # <<>>
  <2>1. PICK t \in {"no", "cell"} : l = [base EXCEPT !.torn = t]
    BY <1>3 DEF Completed, Log
  <2> QED
    BY <1>3, <2>1 DEF Log
<1> QED
  BY <1>1, <1>2, <1>3

(* The holder of the lock, what it is to write, and what it does.           *)
LEMMA InTheLog ==
  ASSUME TypeInv, NEW c \in Caller, call[c].phase \in {"locked", "truncated", "writing"}
  PROVE  /\ lock = c /\ Id(c) \in Call /\ Id(c) \in 0..MaxCalls /\ Id(c) \in 0..calls
         /\ call[c].base \in Log /\ call[c].base.rows \in Seq(Row)
         /\ \A d \in Caller : d # c => call[d].phase \notin {"locked", "truncated", "writing"}
<1>1. ExecTypeOK /\ call[c] \in CallState /\ ~At(c, "idle")
  BY DEF TypeInv, ExecTypeOK, At
<1>2. Id(c) \in Call /\ Id(c) \in 0..MaxCalls /\ Id(c) \in 0..calls
  BY <1>1, IdCalled DEF Call
<1> QED
  BY <1>1, <1>2 DEF ExecTypeOK, CallState, Log

LEMMA LogStaysTyped ==
  ASSUME TypeInv, NEW c \in Caller, Next1(c)
  PROVE  LogTyped'
<1>1. LogTyped /\ Logged \subseteq 0..MaxCalls
  BY LoggedTyped DEF TypeInv, ExecTypeOK, LogTyped
<1>2. UNCHANGED <<log, backup, written, unsaved, missed, stopped>> => LogTyped'
  BY <1>1 DEF LogTyped
<1>3. CASE RunCodexCommand(c) \/ CodexExits(c) \/ TimesOut(c) \/ DropTempAfterTimeout(c)
           \/ TakePayload(c) \/ CallRaises(c) \/ OpenLog(c)
  BY <1>2, <1>3 DEF RunCodexCommand, CodexExits, TimesOut, DropTempAfterTimeout,
                    TakePayload, CallRaises, OpenLog, logVars, rowVars
<1>4. CASE MigrateUsageLogSchema(c)
  <2>1. log' = log \/ log' = Empty
    BY <1>4 DEF MigrateUsageLogSchema
  <2>2. UNCHANGED <<backup, unsaved>> \/ Backup
    BY <1>4 DEF MigrateUsageLogSchema
  <2>3. backup' \cup unsaved' \subseteq 0..MaxCalls
    BY <1>1, <2>2 DEF Backup, LogTyped
  <2>4. UNCHANGED <<written, missed, stopped>>
    BY <1>4 DEF MigrateUsageLogSchema
  <2> QED
    BY <1>1, <2>1, <2>3, <2>4, EmptyType DEF LogTyped
<1>5. CASE FlushPart(c)
  <2>1. log' \in Log
    <3>1. call[c].phase \in {"locked", "truncated", "writing"}
      BY <1>5 DEF FlushPart, At
    <3>2. call[c].base \in Log /\ call[c].base.rows \in Seq(Row) /\ Id(c) \in 0..MaxCalls
      BY <3>1, InTheLog
    <3>3. log' \in FreshParts(call[c].base.rows, Id(c)) => log' \in Log
      BY <3>2, FreshTyped
    <3>4. log' \in AppendedParts(call[c].base, Id(c)) => log' \in Log
      BY <3>2, AppendedTyped
    <3> QED
      BY <1>5, <3>3, <3>4 DEF FlushPart
  <2> QED
    BY <1>1, <1>5, <2>1 DEF FlushPart, LogTyped, rowVars
<1>6. CASE AppendUsageRow(c)
  <2>1. call[c].phase \in {"locked", "truncated", "writing"}
    BY <1>6 DEF AppendUsageRow, At
  <2>2. call[c].base \in Log /\ Id(c) \in 0..MaxCalls
    BY <2>1, InTheLog
  <2>3. log' \in Log
    BY <1>6, <2>2, CompletedTyped DEF AppendUsageRow
  <2>4. UNCHANGED <<backup, unsaved, missed, stopped>> /\ written' \subseteq written \cup {Id(c)}
    BY <1>6 DEF AppendUsageRow
  <2> QED
    BY <1>1, <2>2, <2>3, <2>4 DEF LogTyped
<1>7. CASE LogFails(c) \/ Crash(c)
  <2>1. ~At(c, "idle")
    BY <1>7 DEF LogFails, Crash, At
  <2>2. Id(c) \in Call
    BY <2>1, IdCalled
  <2>3. /\ UNCHANGED <<log, backup, written, unsaved>>
        /\ missed' \subseteq missed \cup {Id(c)} /\ stopped' \subseteq stopped \cup {Id(c)}
    BY <1>7 DEF LogFails, Crash, Stops
  <2> QED
    BY <1>1, <2>2, <2>3 DEF LogTyped
<1>8. CASE LeaveStaging(c) \/ OneValidates(c) \/ OneRejects(c)
  BY <1>2, <1>8 DEF LeaveStaging, OneValidates, OneRejects, logVars, rowVars
<1> QED
  BY <1>3, <1>4, <1>5, <1>6, <1>7, <1>8 DEF Next1

LEMMA WriteTyped ==
  ASSUME TypeInv, NEW k \in Call, CodexWrites(k)
  PROVE  TypeInv'
<1>1. PICK q \in {"broken", "good"} : temp' = [temp EXCEPT ![k] = q]
  BY DEF CodexWrites
<1>2. temp' \in [Call -> {"absent", "empty", "broken", "good"}]
  BY <1>1 DEF TypeInv, ExecTypeOK
<1>3. UNCHANGED <<call, calls, fate, file, log, lock, backup, told, written, unsaved,
                  missed, stopped, strays, faults>>
  BY DEF CodexWrites, logVars, rowVars, NoFault
<1>4. ExecTypeOK'
  BY <1>2, <1>3 DEF TypeInv, ExecTypeOK
<1>5. Ids'
  BY <1>3 DEF TypeInv, Ids, At, Id
<1> QED
  BY <1>4, <1>5 DEF TypeInv

LEMMA TypeStep ==
  ASSUME TypeInv, [Next]_vars
  PROVE  TypeInv'
<1>1. ASSUME NEW c \in Caller, Next1(c)
      PROVE  TypeInv'
  <2>1. Typed /\ Ids'
    BY <1>1, MoveTyped
  <2>2. lock' \in Caller \cup {NoCaller}
        /\ {d \in Caller : call'[d].phase \in {"locked", "truncated", "writing"}} = {lock'} \ {NoCaller}
    BY <1>1, LockFollows DEF Holders
  <2>3. FilesTyped' /\ LogTyped'
    BY <1>1, FilesStayTyped, LogStaysTyped
  <2>4. ExecTypeOK'
    BY <2>1, <2>2, <2>3 DEF ExecTypeOK, Typed, FilesTyped, LogTyped
  <2> QED
    BY <2>1, <2>4 DEF TypeInv
<1>2. ASSUME UNCHANGED vars
      PROVE  TypeInv'
  <2>1. ExecTypeOK'
    BY <1>2 DEF TypeInv, ExecTypeOK, vars
  <2>2. Ids'
    BY <1>2 DEF TypeInv, Ids, At, Id, vars
  <2> QED
    BY <2>1, <2>2 DEF TypeInv
<1> QED
  BY <1>1, <1>2, WriteTyped, NextSplit

(* The logs of Init: none, or one row of before.                            *)
LEMMA FirstLog ==
  ASSUME Init
  PROVE  /\ LogTyped /\ log.torn = "no"
         /\ Len(log.rows) \in {0, 1}
         /\ \A n \in 1..Len(log.rows) :
              /\ n = 1 /\ log.rows[n].call = 0 /\ log.rows[n].shape # "broken"
              /\ log.header # "legacy" => log.rows[n].shape = "current"
<1>1. 0 \in 0..MaxCalls /\ MaxCalls \in Nat
  BY ExecAssumption
<1>2. PICK h \in {"legacy", "current"}, s \in {"legacy", "current"}, l \in BOOLEAN :
        /\ \/ log = Empty
           \/ log = [header |-> h, rows |-> <<[call |-> 0, shape |-> s]>>, long |-> l,
                     torn |-> "no"]
        /\ h = "legacy" \/ s = "current"
  BY DEF Init, Empty
<1> DEFINE row == [call |-> 0, shape |-> s]
<1>3. row \in Row /\ row.call = 0 /\ row.shape = s
  BY <1>1 DEF Row
<1> HIDE DEF row
<1>4. <<row>> \in Seq(Row) /\ Len(<<row>>) = 1 /\ <<row>>[1] = row
  BY <1>3
<1>5. CASE log = Empty
  <2>1. Len(log.rows) = 0 /\ log \in Log /\ log.torn = "no"
    BY <1>5, EmptyType, EmptySeq
  <2>2. \A n \in 1..Len(log.rows) : FALSE
    BY <2>1
  <2>3. Logged = {}
    BY <2>2 DEF Logged, CallsOf, Whole
  <2> QED
    BY <1>1, <2>1, <2>2, <2>3 DEF LogTyped, Init, Logged, CallsOf, Whole
<1>6. CASE log = [header |-> h, rows |-> <<row>>, long |-> l, torn |-> "no"]
  <2> DEFINE rows == <<row>>
  <2>1. rows \in Seq(Row) /\ Len(rows) = 1 /\ rows[1] = row
    BY <1>4
  <2>2. log = [header |-> h, rows |-> rows, long |-> l, torn |-> "no"]
    BY <1>6
  <2> HIDE DEF rows
  <2>3. log \in Log /\ log.header = h /\ log.rows = rows /\ log.torn = "no"
    BY <2>1, <2>2 DEF Log
  <2>4. \A n \in 1..Len(log.rows) : n = 1 /\ log.rows[n] = row
    <3>1. Len(log.rows) = 1 /\ log.rows[1] = row
      BY <2>1, <2>3
    <3>2. \A n \in 1..1 : n = 1
      OBVIOUS
    <3> QED
      BY <3>1, <3>2
  <2>5. \A n \in 1..Len(log.rows) : log.rows[n].call = 0
    BY <1>3, <2>4
  <2>6. written \subseteq {0} /\ backup = {} /\ unsaved = {} /\ missed = {} /\ stopped = {}
    BY <2>5 DEF Init
  <2> QED
    BY <1>1, <1>2, <1>3, <2>1, <2>3, <2>4, <2>6 DEF LogTyped
<1> QED
  BY <1>2, <1>5, <1>6 DEF row

LEMMA InitTyped == Init => TypeInv
<1> SUFFICES ASSUME Init PROVE TypeInv
  OBVIOUS
<1>1. 0 \in 0..MaxCalls /\ MaxCalls \in Nat /\ NoCaller \notin Caller /\ 0 \in 0..MaxFaults
  BY ExecAssumption
<1>2. Absent \in Content /\ [Absent EXCEPT !.quality = "good"] \in Content
  BY <1>1 DEF Absent, Content
<1>3. call = [c \in Caller |-> Idle] /\ lock = NoCaller
  BY DEF Init
<1>4. /\ call \in [Caller -> CallState]
      /\ {c \in Caller : call[c].phase \in {"locked", "truncated", "writing"}} = {lock} \ {NoCaller}
  BY <1>3, IdleType
<1>5. file \in [0..MaxCalls -> Content]
  BY <1>2 DEF Init
<1>6. LogTyped
  BY FirstLog
<1>7. ExecTypeOK
  BY <1>1, <1>3, <1>4, <1>5, <1>6 DEF Init, ExecTypeOK, LogTyped
<1>8. Ids
  BY <1>3, IdleType DEF Ids, At, Id
<1> QED
  BY <1>7, <1>8 DEF TypeInv

LEMMA TypeAlways == Spec => []TypeInv
BY InitTyped, TypeStep, PTL DEF Spec

(* Every caller's record, the files and the log have their types, and the  *)
(* lock of the log has at most one holder, which is the caller that works  *)
(* in it.                                                                  *)
THEOREM ExecTyped == Spec => []ExecTypeOK
BY TypeAlways, PTL DEF TypeInv

------------------------------------------------------------------------------
(* Processes and temporary files: what is written late is never moved.      *)

(* Codex runs exactly for the callers that wait for it, unless it was       *)
(* killed or left behind; the calls to come have left nothing.              *)
FateInv ==
  /\ \A c \in Caller :
       /\ ~At(c, "idle") => (At(c, "running") <=> fate[Id(c)] = "running")
       /\ At(c, "ended") => fate[Id(c)] = "exited"
  /\ \A k \in Call : fate[k] = "running" => \E c \in Caller : Id(c) = k
  /\ \A k \in Call : k > calls => fate[k] = "none" /\ temp[k] = "absent"

DealtWith(k) == temp[k] = "absent" \/ k \in strays \/ fate[k] = "orphan"

(* Once the caller has dealt with its temporary file the call may end.      *)
TempInv ==
  \A c \in Caller :
    call[c].phase \notin {"idle", "running", "ended", "expired"} => DealtWith(Id(c))

PublishInv == FateInv /\ TempInv /\ OnlyEndedCallsPublish /\ TempsAccounted

(* A step of c changes the process and the temporary file of its own call.  *)
OwnCall(c) ==
  /\ calls' = calls /\ strays \subseteq strays'
  /\ \A k \in Call : k # Id(c) => fate'[k] = fate[k] /\ temp'[k] = temp[k]
  /\ temp'[Id(c)] \in {temp[Id(c)], "absent"}
  /\ \A d \in Caller : d # c => call'[d] = call[d]
  /\ IdleOrKept(c)

LEMMA OwnCallKeepsFate ==
  ASSUME TypeInv, FateInv, TempInv, TempsAccounted, NEW c \in Caller, ~At(c, "idle"), OwnCall(c),
         fate[Id(c)] = "running" \/ fate'[Id(c)] = fate[Id(c)],
         fate'[Id(c)] = "running" => call'[c].phase = "running",
         call'[c].phase = "running" => fate'[Id(c)] = "running",
         call'[c].phase = "ended" => fate'[Id(c)] = "exited",
         call'[c].phase \notin {"running", "ended", "expired"} =>
           temp'[Id(c)] = "absent" \/ Id(c) \in strays' \/ fate'[Id(c)] = "orphan"
  PROVE  FateInv' /\ TempInv' /\ TempsAccounted'
<1> DEFINE j == Id(c)
<1>1. j \in Call /\ j \in 1..calls /\ calls \in Nat
  BY IdCalled DEF TypeInv, ExecTypeOK, Call
<1>2. \A d \in Caller : d # c /\ ~At(d, "idle") => Id(d) # j /\ Id(d) \in Call
  BY IdCalled DEF TypeInv, Ids
<1>3. call'[c].phase # "idle" => call'[c].id = j
  BY IdleType DEF IdleOrKept, OwnCall
<1>4. \A d \in Caller : d # c => call'[d] = call[d]
  BY DEF OwnCall
<1>5. ASSUME NEW d \in Caller
      PROVE  /\ call'[d].phase # "idle" =>
                  (call'[d].phase = "running" <=> fate'[call'[d].id] = "running")
             /\ call'[d].phase = "ended" => fate'[call'[d].id] = "exited"
             /\ call'[d].phase \notin {"idle", "running", "ended", "expired"} =>
                  \/ temp'[call'[d].id] = "absent" \/ call'[d].id \in strays'
                  \/ fate'[call'[d].id] = "orphan"
  <2>1. CASE d = c
    BY <2>1, <1>3
  <2>2. CASE d # c
    BY <2>2, <1>2, <1>4 DEF FateInv, TempInv, DealtWith, OwnCall, At, Id
  <2> QED
    BY <2>1, <2>2
<1>6. ASSUME NEW k \in Call, NEW d \in Caller, k # j, Id(d) = k
      PROVE  \E e \in Caller : call'[e].id = k
  BY <1>4, <1>6 DEF Id
<1>7. ASSUME NEW k \in Call, fate'[k] = "running"
      PROVE  \E e \in Caller : call'[e].id = k
  BY <1>3, <1>6, <1>7 DEF FateInv, OwnCall
<1>8. ASSUME NEW k \in Call, k > calls'
      PROVE  fate'[k] = "none" /\ temp'[k] = "absent"
  BY <1>1, <1>8 DEF FateInv, OwnCall
<1>9. ASSUME NEW k \in Call, temp'[k] # "absent"
      PROVE  \/ \E e \in Caller : call'[e].id = k
             \/ k \in strays' \/ fate'[k] = "orphan"
  <2>1. CASE k # j
    BY <2>1, <1>6, <1>9 DEF TempsAccounted, OwnCall
  <2>2. CASE k = j /\ call'[c].phase = "idle"
    BY <2>2, <1>9
  <2>3. CASE k = j /\ call'[c].phase # "idle"
    BY <2>3, <1>3
  <2> QED
    BY <2>1, <2>2, <2>3
<1> QED
  BY <1>5, <1>7, <1>8, <1>9 DEF FateInv, TempInv, TempsAccounted, DealtWith, At, Id

LEMMA RunKeepsFate ==
  ASSUME TypeInv, FateInv, TempInv, TempsAccounted, NEW c \in Caller, RunCodexCommand(c)
  PROVE  FateInv' /\ TempInv' /\ TempsAccounted'
<1> DEFINE j == calls + 1
<1>1. /\ j \in Call /\ calls' = j /\ calls \in Nat /\ call'[c].id = j
      /\ \/ call'[c].phase = "running" /\ fate' = [fate EXCEPT ![j] = "running"] /\ strays' = strays
         \/ call'[c].phase = "raised" /\ fate' = fate /\ strays' = strays \cup {j}
      /\ \A d \in Caller : d # c => call'[d] = call[d]
  <2>1. ExecTypeOK /\ calls \in Nat
    BY ExecAssumption DEF TypeInv, ExecTypeOK
  <2> QED
    BY <2>1, RunBecomes DEF Becomes
<1>2. /\ temp' = [temp EXCEPT ![j] = "empty"] /\ At(c, "idle")
      /\ temp \in [Call -> {"absent", "empty", "broken", "good"}]
      /\ fate \in [Call -> {"none", "running", "exited", "killed", "orphan"}]
  BY DEF RunCodexCommand, TypeInv, ExecTypeOK
<1>3. \A k \in Call : k # j => fate'[k] = fate[k] /\ temp'[k] = temp[k]
  BY <1>1, <1>2
<1>4. fate[j] = "none" /\ fate'[j] = IF call'[c].phase = "running" THEN "running" ELSE "none"
  BY <1>1, <1>2 DEF FateInv
<1>5. \A d \in Caller : d # c /\ ~At(d, "idle") => Id(d) \in Call /\ Id(d) # j
  BY <1>1, IdCalled DEF TypeInv, ExecTypeOK
<1>6. call[c].id = 0 /\ 0 \notin Call
  BY <1>2, IdleType DEF TypeInv, Ids, Call
<1> HIDE DEF j
<1>7. ASSUME NEW d \in Caller
      PROVE  /\ call'[d].phase # "idle" =>
                  (call'[d].phase = "running" <=> fate'[call'[d].id] = "running")
             /\ call'[d].phase = "ended" => fate'[call'[d].id] = "exited"
             /\ call'[d].phase \notin {"idle", "running", "ended", "expired"} =>
                  \/ temp'[call'[d].id] = "absent" \/ call'[d].id \in strays'
                  \/ fate'[call'[d].id] = "orphan"
  <2>1. CASE d = c
    BY <2>1, <1>1, <1>4
  <2>2. CASE d # c
    BY <2>2, <1>1, <1>3, <1>5 DEF FateInv, TempInv, DealtWith, At, Id
  <2> QED
    BY <2>1, <2>2
<1>8. ASSUME NEW k \in Call, NEW d \in Caller, Id(d) = k
      PROVE  \E e \in Caller : call'[e].id = k
  BY <1>1, <1>6, <1>8 DEF Id
<1>9. \A k \in Call : fate'[k] = "running" => \E e \in Caller : call'[e].id = k
  BY <1>1, <1>3, <1>8 DEF FateInv
<1>10. \A k \in Call : k > calls' => fate'[k] = "none" /\ temp'[k] = "absent"
  <2>1. \A k \in Call : k > j => k > calls /\ k # j
    BY <1>1 DEF j, Call
  <2> QED
    BY <1>1, <1>3, <2>1 DEF FateInv
<1>11. \A k \in Call : temp'[k] # "absent" =>
          \/ \E e \in Caller : call'[e].id = k
          \/ k \in strays' \/ fate'[k] = "orphan"
  BY <1>1, <1>3, <1>8 DEF TempsAccounted
<1> QED
  BY <1>7, <1>9, <1>10, <1>11 DEF FateInv, TempInv, TempsAccounted, DealtWith, At, Id

LEMMA WriteKeepsFate ==
  ASSUME TypeInv, FateInv, TempInv, TempsAccounted, NEW k \in Call, CodexWrites(k)
  PROVE  FateInv' /\ TempInv' /\ TempsAccounted'
<1>1. /\ UNCHANGED <<call, calls, fate, strays>> /\ fate[k] \in {"running", "orphan"}
      /\ temp \in [Call -> {"absent", "empty", "broken", "good"}]
  BY DEF CodexWrites, NoFault, TypeInv, ExecTypeOK
<1>2. PICK q \in {"broken", "good"} : temp' = [temp EXCEPT ![k] = q]
  BY DEF CodexWrites
<1>3. \A i \in Call : i # k => temp'[i] = temp[i]
  BY <1>1, <1>2
<1>4. \A c \in Caller : ~At(c, "idle") => Id(c) \in Call
  BY IdCalled
<1>5. FateInv'
  BY <1>1, <1>3 DEF FateInv, At, Id
<1>6. TempInv'
  <2> SUFFICES ASSUME NEW c \in Caller,
                      call[c].phase \notin {"idle", "running", "ended", "expired"}
               PROVE  temp'[Id(c)] = "absent" \/ Id(c) \in strays \/ fate[Id(c)] = "orphan"
    BY <1>1 DEF TempInv, DealtWith, Id
  <2>1. Id(c) \in Call /\ fate[Id(c)] # "running"
    BY <1>4 DEF FateInv, At
  <2> QED
    BY <1>1, <1>3, <2>1 DEF TempInv, DealtWith
<1>7. TempsAccounted'
  BY <1>1, <1>3 DEF TempsAccounted, FateInv, Id
<1> QED
  BY <1>5, <1>6, <1>7

LEMMA FateStep ==
  ASSUME TypeInv, FateInv, TempInv, TempsAccounted, NEW c \in Caller, Next1(c)
  PROVE  FateInv' /\ TempInv' /\ TempsAccounted'
<1>1. /\ ExecTypeOK
      /\ temp \in [Call -> {"absent", "empty", "broken", "good"}]
      /\ fate \in [Call -> {"none", "running", "exited", "killed", "orphan"}]
      /\ log \in Log /\ NewBase \in Log /\ Empty \in Log
  BY EmptyType, NewBaseTyped DEF TypeInv, ExecTypeOK
<1>2. ~At(c, "idle") =>
        /\ Id(c) \in Call
        /\ At(c, "running") <=> fate[Id(c)] = "running"
        /\ At(c, "ended") => fate[Id(c)] = "exited"
        /\ call[c].phase \notin {"idle", "running", "ended", "expired"} => DealtWith(Id(c))
  BY IdCalled DEF FateInv, TempInv
<1>3. \A p : Goto(c, p) => Becomes(c, p, Id(c), call[c].ok, call[c].base)
  BY <1>1, GotoBecomes
<1>4. call' = [call EXCEPT ![c] = Idle] => call'[c] = Idle /\ Becomes(c, "idle", 0, FALSE, Empty)
  BY <1>1, IdleBecomes
<1>5. \A p \in Phase, r \in Log :
        call' = [call EXCEPT ![c].phase = p, ![c].base = r]
          => Becomes(c, p, Id(c), call[c].ok, r)
  BY <1>1, RowsBecome
<1>6. CASE RunCodexCommand(c)
  BY <1>6, RunKeepsFate
<1>7. CASE CodexExits(c) \/ TimesOut(c)
  <2>1. PICK f \in {"exited", "killed", "orphan"}, p \in {"ended", "expired"} :
          /\ fate' = [fate EXCEPT ![Id(c)] = f] /\ Goto(c, p)
          /\ f = "exited" \/ p = "expired"
    BY <1>7 DEF CodexExits, TimesOut
  <2>2. At(c, "running") /\ UNCHANGED <<calls, temp, strays>>
    BY <1>7 DEF CodexExits, TimesOut, NoFault
  <2>3. ~At(c, "idle")
    BY <2>2 DEF At
  <2>4. OwnCall(c) /\ call'[c].phase = p /\ fate'[Id(c)] = f
    BY <1>1, <1>2, <1>3, <2>1, <2>2, <2>3 DEF OwnCall, Becomes, IdleOrKept
  <2> QED
    BY <1>2, <2>1, <2>2, <2>3, <2>4, OwnCallKeepsFate
<1>8. CASE DropTempAfterTimeout(c) \/ TakePayload(c)
  <2>1. /\ temp' = [temp EXCEPT ![Id(c)] = "absent"] /\ UNCHANGED <<calls, fate, strays>>
        /\ ~At(c, "idle") /\ ~At(c, "running")
    BY <1>8 DEF DropTempAfterTimeout, TakePayload, At, NoFault
  <2>2. call'[c].phase = "settled" /\ call'[c].id = Id(c)
        /\ \A d \in Caller : d # c => call'[d] = call[d]
    BY <1>1, <1>3, <1>8, PayloadBecomes DEF DropTempAfterTimeout, Becomes
  <2>3. OwnCall(c) /\ temp'[Id(c)] = "absent" /\ fate' = fate
    BY <1>1, <1>2, <2>1, <2>2 DEF OwnCall, IdleOrKept
  <2> QED
    BY <1>2, <2>1, <2>2, <2>3, OwnCallKeepsFate
<1>9. ASSUME UNCHANGED <<calls, fate, temp>>, ~At(c, "idle"),
             \A d \in Caller : d # c => call'[d] = call[d], IdleOrKept(c),
             \/ strays' = strays /\ call[c].phase \notin {"idle", "running", "ended", "expired"}
                /\ call'[c].phase \notin {"running", "ended", "expired"}
             \/ strays' = strays \cup {Id(c)} /\ call'[c].phase \in {"idle", "raised"}
                /\ ~At(c, "running")
      PROVE  FateInv' /\ TempInv' /\ TempsAccounted'
  <2>1. OwnCall(c)
    BY <1>9 DEF OwnCall
  <2>2. call'[c].phase \notin {"running", "ended", "expired"} /\ ~At(c, "running")
    BY <1>9 DEF At
  <2>3. temp'[Id(c)] = "absent" \/ Id(c) \in strays' \/ fate'[Id(c)] = "orphan"
    BY <1>2, <1>9 DEF DealtWith
  <2> QED
    BY <1>2, <1>9, <2>1, <2>2, <2>3, OwnCallKeepsFate
<1>10. CASE CallRaises(c)
  <2>1. UNCHANGED <<calls, fate, temp>> /\ call[c].phase \in {"ended", "expired", "settled"}
        /\ strays' = (IF At(c, "settled") THEN strays ELSE strays \cup {Id(c)})
        /\ Goto(c, "raised")
    BY <1>10 DEF CallRaises
  <2> QED
    BY <2>1, <1>3, <1>9 DEF Becomes, IdleOrKept, At
<1>11. CASE OpenLog(c) \/ FlushPart(c)
  <2>1. /\ UNCHANGED <<calls, fate, temp, strays>>
        /\ call[c].phase \in {"settled", "locked", "truncated"}
    BY <1>11 DEF OpenLog, FlushPart, callVars, NoFault, At
  <2>2. PICK p \in {"locked", "writing"}, r \in Log : Becomes(c, p, Id(c), call[c].ok, r)
    <3>1. call[c].base \in Log
      BY <1>1 DEF ExecTypeOK, CallState
    <3> QED
      BY <1>1, <1>3, <1>5, <1>11, <3>1 DEF OpenLog, FlushPart, Phase
  <2> QED
    BY <2>1, <2>2, <1>9 DEF Becomes, IdleOrKept, At
<1>12. CASE MigrateUsageLogSchema(c)
  <2>1. UNCHANGED <<calls, fate, temp, strays>> /\ At(c, "locked")
    BY <1>12 DEF MigrateUsageLogSchema, callVars, NoFault
  <2>2. CASE Goto(c, "raised")
    BY <2>1, <2>2, <1>3, <1>9 DEF Becomes, IdleOrKept, At
  <2>3. CASE call' = [call EXCEPT ![c].phase = "truncated", ![c].base = NewBase]
    <3>1. Becomes(c, "truncated", Id(c), call[c].ok, NewBase)
      BY <1>1, <2>1, <2>3, <1>5 DEF Phase
    <3> QED
      BY <2>1, <3>1, <1>9 DEF Becomes, IdleOrKept, At
  <2> QED
    BY <1>12, <2>2, <2>3 DEF MigrateUsageLogSchema, NewBase
<1>14. CASE AppendUsageRow(c) \/ LogFails(c)
  <2>1. UNCHANGED <<calls, fate, temp, strays>>
        /\ call[c].phase \in {"settled", "locked", "truncated", "writing"}
        /\ call' = [call EXCEPT ![c].phase = "returned", ![c].base = Empty]
    BY <1>14 DEF AppendUsageRow, LogFails, callVars, NoFault, At
  <2>2. Becomes(c, "returned", Id(c), call[c].ok, Empty)
    BY <2>1, <1>1, <1>5 DEF Phase
  <2> QED
    BY <2>1, <2>2, <1>9 DEF Becomes, IdleOrKept, At
<1>15. CASE LeaveStaging(c) \/ OneValidates(c) \/ OneRejects(c)
  <2>1. /\ UNCHANGED <<calls, fate, temp, strays>>
        /\ call[c].phase \in {"returned", "raised", "rejecting"}
        /\ call' = [call EXCEPT ![c] = Idle] \/ Goto(c, "rejecting")
    BY <1>15 DEF LeaveStaging, OneValidates, OneRejects, NoFault, At
  <2>2. CASE call' = [call EXCEPT ![c] = Idle]
    <3>1. /\ call'[c] = Idle /\ call'[c].phase = "idle"
          /\ \A d \in Caller : d # c => call'[d] = call[d]
      BY <2>2, <1>4, IdleType DEF Becomes
    <3>2. ~At(c, "idle") /\ call[c].phase \notin {"idle", "running", "ended", "expired"}
      BY <2>1 DEF At
    <3> QED
      BY <2>1, <3>1, <3>2, <1>9 DEF IdleOrKept
  <2>3. CASE Goto(c, "rejecting")
    <3>1. /\ call'[c].phase = "rejecting" /\ call'[c].id = Id(c)
          /\ \A d \in Caller : d # c => call'[d] = call[d]
      BY <2>3, <1>3 DEF Becomes
    <3>2. ~At(c, "idle") /\ call[c].phase \notin {"idle", "running", "ended", "expired"}
      BY <2>1 DEF At
    <3> QED
      BY <2>1, <3>1, <3>2, <1>9 DEF IdleOrKept
  <2> QED
    BY <2>1, <2>2, <2>3
<1>16. CASE Crash(c)
  <2>1. /\ UNCHANGED <<calls, temp>> /\ ~At(c, "idle") /\ strays' = strays \cup {Id(c)}
        /\ call'[c] = Idle /\ \A d \in Caller : d # c => call'[d] = call[d]
        /\ fate' = IF At(c, "running") THEN [fate EXCEPT ![Id(c)] = "orphan"] ELSE fate
    BY <1>4, <1>16 DEF Crash, Becomes
  <2>2. CASE ~At(c, "running")
    BY <2>1, <2>2, <1>9, IdleType DEF IdleOrKept
  <2>3. CASE At(c, "running")
    <3>1. OwnCall(c) /\ fate'[Id(c)] = "orphan" /\ call'[c].phase = "idle"
      BY <1>1, <1>2, <2>1, <2>3, IdleType DEF OwnCall, IdleOrKept
    <3> QED
      BY <1>2, <2>1, <2>3, <3>1, OwnCallKeepsFate
  <2> QED
    BY <2>2, <2>3
<1> QED
  BY <1>6, <1>7, <1>8, <1>10, <1>11, <1>12, <1>14, <1>15, <1>16 DEF Next1

(* A path gets its file from a call that has ended, and the process of a    *)
(* call that has ended never runs again.                                    *)
LEMMA PublishStep ==
  ASSUME TypeInv, FateInv, OnlyEndedCallsPublish, NEW c \in Caller, Next1(c)
  PROVE  OnlyEndedCallsPublish'
<1>1. /\ fate \in [Call -> {"none", "running", "exited", "killed", "orphan"}]
      /\ file \in [0..MaxCalls -> Content]
  BY DEF TypeInv, ExecTypeOK
<1>2. \A p \in 0..MaxCalls : file[p].call # 0 => file[p].call \in Call
  BY <1>1 DEF Content, Call
<1>3. ~At(c, "idle") =>
        /\ Id(c) \in Call /\ Path(c) \in 0..MaxCalls
        /\ At(c, "running") => fate[Id(c)] = "running"
        /\ At(c, "ended") => fate[Id(c)] = "exited"
  BY IdCalled DEF FateInv, Path, Call
<1>4. ASSUME NEW k \in Call, fate[k] = "exited"
      PROVE  fate'[k] = "exited"
  <2>1. CASE RunCodexCommand(c)
    <3>1. fate' = fate \/ fate' = [fate EXCEPT ![calls + 1] = "running"]
      BY <2>1 DEF RunCodexCommand
    <3>2. calls + 1 \in Call => fate[calls + 1] = "none"
      BY ExecAssumption DEF FateInv, TypeInv, ExecTypeOK
    <3> QED
      BY <1>1, <1>4, <3>1, <3>2
  <2>2. CASE CodexExits(c) \/ TimesOut(c) \/ Crash(c)
    <3>1. \/ fate' = fate
          \/ At(c, "running") /\ \E f \in {"exited", "killed", "orphan"} :
               fate' = [fate EXCEPT ![Id(c)] = f]
      BY <2>2 DEF CodexExits, TimesOut, Crash
    <3> QED
      BY <1>1, <1>3, <1>4, <3>1 DEF At
  <2>3. CASE ~(RunCodexCommand(c) \/ CodexExits(c) \/ TimesOut(c) \/ Crash(c))
    <3>1. fate' = fate
      BY <2>3 DEF Next1, DropTempAfterTimeout, TakePayload, CallRaises, OpenLog,
                  MigrateUsageLogSchema, FlushPart, AppendUsageRow, LogFails,
                  LeaveStaging, OneValidates, OneRejects, callVars
    <3> QED
      BY <1>4, <3>1
  <2> QED
    BY <2>1, <2>2, <2>3
<1>5. \/ file' = file
      \/ \E p \in 0..MaxCalls : file' = [file EXCEPT ![p] = Absent]
      \/ At(c, "ended") /\ file' = [file EXCEPT ![Path(c)] = [call |-> Id(c), quality |-> temp[Id(c)]]]
  <2>1. CASE TakePayload(c)
    BY <2>1 DEF TakePayload
  <2>2. CASE LeaveStaging(c) \/ OneRejects(c)
    BY <1>3, <2>2, ExecAssumption DEF LeaveStaging, OneRejects, At
  <2>3. CASE ~(TakePayload(c) \/ LeaveStaging(c) \/ OneRejects(c))
    BY <2>3 DEF Next1, RunCodexCommand, CodexExits, TimesOut, Crash, DropTempAfterTimeout,
                CallRaises, OpenLog, MigrateUsageLogSchema, FlushPart, AppendUsageRow,
                LogFails, OneValidates, callVars
  <2> QED
    BY <2>1, <2>2, <2>3
<1>6. CASE file' = file
  BY <1>2, <1>4, <1>6 DEF OnlyEndedCallsPublish
<1>7. ASSUME NEW p \in 0..MaxCalls, file' = [file EXCEPT ![p] = Absent]
      PROVE  OnlyEndedCallsPublish'
  <2>1. \A r \in 0..MaxCalls : file'[r].call # 0 => file'[r] = file[r]
    BY <1>1, <1>7 DEF Absent
  <2> QED
    BY <1>2, <1>4, <2>1 DEF OnlyEndedCallsPublish
<1>8. CASE At(c, "ended") /\ file' = [file EXCEPT ![Path(c)] = [call |-> Id(c), quality |-> temp[Id(c)]]]
  <2>1. Id(c) \in Call /\ fate[Id(c)] = "exited" /\ Path(c) \in 0..MaxCalls /\ Path(c) \in {0, Id(c)}
    BY <1>3, <1>8 DEF At, Path
  <2>2. file'[Path(c)].call = Id(c) /\ \A r \in 0..MaxCalls : r # Path(c) => file'[r] = file[r]
    BY <1>1, <1>8, <2>1
  <2> QED
    BY <1>2, <1>4, <2>1, <2>2 DEF OnlyEndedCallsPublish
<1> QED
  BY <1>5, <1>6, <1>7, <1>8

LEMMA PublishAlways == Spec => []PublishInv
<1>1. Init => PublishInv
  <2> SUFFICES ASSUME Init PROVE PublishInv
    OBVIOUS
  <2>1. /\ call = [c \in Caller |-> Idle] /\ fate = [k \in Call |-> "none"]
        /\ temp = [k \in Call |-> "absent"] /\ \A p \in 0..MaxCalls : file[p].call = 0
    <3>1. Absent.call = 0 /\ [Absent EXCEPT !.quality = "good"].call = 0
      BY DEF Absent
    <3> QED
      BY <3>1 DEF Init
  <2>2. FateInv /\ TempInv /\ TempsAccounted
    BY <2>1, IdleType DEF FateInv, TempInv, TempsAccounted, At, Id
  <2> QED
    BY <2>1, <2>2 DEF PublishInv, OnlyEndedCallsPublish
<1>2. ASSUME TypeInv, PublishInv, [Next]_vars
      PROVE  PublishInv'
  <2>1. ASSUME NEW c \in Caller, Next1(c)
        PROVE  PublishInv'
    BY <1>2, <2>1, FateStep, PublishStep DEF PublishInv
  <2>2. ASSUME NEW k \in Call, CodexWrites(k)
        PROVE  PublishInv'
    <3>1. UNCHANGED <<fate, file>>
      BY <2>2 DEF CodexWrites
    <3> QED
      BY <1>2, <2>2, <3>1, WriteKeepsFate DEF PublishInv, OnlyEndedCallsPublish
  <2>3. CASE UNCHANGED vars
    BY <1>2, <2>3 DEF PublishInv, FateInv, TempInv, OnlyEndedCallsPublish, TempsAccounted,
                      DealtWith, At, Id, vars
  <2> QED
    BY <1>2, <2>1, <2>2, <2>3, NextSplit
<1> QED
  BY <1>1, <1>2, TypeAlways, PTL DEF Spec

(* An output path never gets the payload of a call that timed out or whose  *)
(* caller was killed while codex ran, however late the process writes it.   *)
THEOREM LateWritesStayOut == Spec => []OnlyEndedCallsPublish
BY PublishAlways, PTL DEF PublishInv

(* Every temporary file belongs to a call under way, or to one that was     *)
(* killed or raised, or to a process that outlived its call.                *)
THEOREM NoTempForgotten == Spec => []TempsAccounted
BY PublishAlways, PTL DEF PublishInv

------------------------------------------------------------------------------
(* The log: a row that was written after a line end is in it, in a backup,  *)
(* or was lost with a backup.                                               *)

NoTwice(rows) == \A m, n \in Whole(rows) : rows[m].call = rows[n].call => m = n

(* The whole rows of l are of the calls in w, and the others of w are saved.  *)
Kept(l, w, saved) ==
  /\ NoTwice(l.rows) /\ CallsOf(l.rows) \subseteq w
  /\ w \subseteq CallsOf(l.rows) \cup saved
  /\ l.header = "none" => l.rows = <<>>

(* Broken rows and open lines are of calls that stopped.                    *)
Shaped(l, stops) ==
  /\ l.torn # "no" => stops # {}
  /\ \A n \in 1..Len(l.rows) :
       /\ l.header # "legacy" => l.rows[n].shape # "legacy"
       /\ l.rows[n].shape = "broken" => l.rows[n].call \in stops

InLog == {"locked", "truncated", "writing"}
Logging == {"running", "ended", "expired", "settled"} \cup InLog

(* What the holder of the lock has read is what it may write back.          *)
HolderInv(c) ==
  /\ Kept(call[c].base, written, backup \cup unsaved) /\ Shaped(call[c].base, stopped)
  /\ At(c, "locked") => log = call[c].base
  /\ At(c, "truncated") => /\ call[c].base.header = "current" /\ call[c].base.torn = "no"
                           /\ written \subseteq backup \cup unsaved
  /\ At(c, "writing") =>
       /\ call[c].base.header \in {"none", "current"}
       /\ log.torn = "no" => \A n \in 1..Len(log.rows) :
            log.rows[n].shape = "broken" => log.rows[n].call \in stopped

(* A caller that has not logged its row yet has none; one that has returned *)
(* without it had an error or met a torn line.                              *)
CallerInv(c) ==
  /\ call[c].phase \in Logging => Id(c) \notin written
  /\ At(c, "returned") => Id(c) \in written \cup missed \/ stopped # {}
  /\ call[c].phase \in InLog => HolderInv(c)

TornInv == log.torn # "no" => stopped # {} \/ \E c \in Caller : At(c, "writing")

LogInv ==
  /\ Kept(log, written, backup \cup unsaved) /\ written \subseteq 0..calls
  /\ HeaderTellsRows /\ TornInv
  /\ \A c \in Caller : CallerInv(c)

(* Rows that begin like others, perhaps with a broken one at the end, hold  *)
(* no other calls and none twice.                                           *)
LEMMA BeginsKept ==
  ASSUME NEW rows \in Seq(Row), NEW base \in Seq(Row), NEW k, Begins(rows, base, k),
         NoTwice(base)
  PROVE  /\ NoTwice(rows) /\ CallsOf(rows) \subseteq CallsOf(base)
         /\ \A n \in 1..Len(rows) : \/ n \in 1..Len(base) /\ rows[n] = base[n]
                                    \/ rows[n] = [call |-> k, shape |-> "broken"]
<1>1. Len(base) \in Nat /\ Len(rows) \in Nat
  BY LenProperties
<1>2. \A n \in 1..Len(rows) : \/ n \in 1..Len(base) /\ rows[n] = base[n]
                              \/ rows[n] = [call |-> k, shape |-> "broken"]
  BY <1>1 DEF Begins
<1>3. \A n \in Whole(rows) : n \in Whole(base) /\ rows[n] = base[n]
  BY <1>2 DEF Whole
<1>4. NoTwice(rows)
  BY <1>3 DEF NoTwice
<1>5. CallsOf(rows) \subseteq CallsOf(base)
  BY <1>3 DEF CallsOf
<1> QED
  BY <1>2, <1>4, <1>5

(* Steps that leave the log, the backups and the rows alone.                *)
LEMMA LogUntouched ==
  ASSUME TypeInv, LogInv, NEW c \in Caller, UNCHANGED <<log, backup, written, unsaved>>,
         missed \subseteq missed', stopped \subseteq stopped',
         At(c, "writing") /\ log.torn # "no" => Id(c) \in stopped',
         \A d \in Caller : d # c => call'[d] = call[d],
         calls' \in {calls, calls + 1},
         call'[c].phase \notin InLog,
         call'[c].phase \in Logging => call'[c].id \notin written,
         call'[c].phase = "returned" => call'[c].id \in missed'
  PROVE  LogInv'
<1>1. calls \in Nat /\ written' \subseteq 0..calls'
  BY ExecAssumption DEF LogInv, TypeInv, ExecTypeOK
<1>2. Kept(log', written', backup' \cup unsaved')
  BY DEF LogInv
<1>3. \A l : Shaped(l, stopped) => Shaped(l, stopped')
  BY DEF Shaped
<1>4. TornInv'
  <2> SUFFICES ASSUME log.torn # "no"
               PROVE  stopped' # {} \/ \E d \in Caller : call'[d].phase = "writing"
    BY DEF TornInv, At
  <2>1. stopped # {} \/ \E d \in Caller : At(d, "writing")
    BY DEF LogInv, TornInv
  <2> QED
    BY <2>1 DEF At
<1>5. HeaderTellsRows'
  <2> SUFFICES ASSUME NEW n \in 1..Len(log.rows)
               PROVE  /\ log.header # "legacy" => log.rows[n].shape # "legacy"
                      /\ log.rows[n].shape = "broken" =>
                           \/ log.rows[n].call \in stopped'
                           \/ \E d \in Caller : call'[d].phase = "writing"
                                                /\ call'[d].id = log.rows[n].call
    BY DEF HeaderTellsRows, At, Id
  <2>1. /\ log.header # "legacy" => log.rows[n].shape # "legacy"
        /\ log.rows[n].shape = "broken" =>
             \/ log.rows[n].call \in stopped
             \/ \E d \in Caller : call[d].phase = "writing" /\ call[d].id = log.rows[n].call
    BY DEF LogInv, HeaderTellsRows, At, Id
  <2>2. ASSUME log.rows[n].shape = "broken", call[c].phase = "writing",
               call[c].id = log.rows[n].call
        PROVE  log.rows[n].call \in stopped'
    <3>1. CASE log.torn = "no"
      <4>1. HolderInv(c)
        BY <2>2 DEF LogInv, CallerInv, InLog
      <4> QED
        BY <2>2, <3>1, <4>1 DEF HolderInv, At
    <3>2. CASE log.torn # "no"
      BY <2>2, <3>2 DEF At, Id
    <3> QED
      BY <3>1, <3>2
  <2> QED
    BY <2>1, <2>2
<1>6. CallerInv(c)'
  BY DEF CallerInv, At, Id
<1>7. ASSUME NEW d \in Caller, d # c
      PROVE  CallerInv(d)'
  <2>1. call'[d] = call[d] /\ CallerInv(d)
    BY <1>7 DEF LogInv
  <2>2. call'[d].phase \in Logging => call'[d].id \notin written'
    BY <2>1 DEF CallerInv, Id
  <2>3. call'[d].phase = "returned" => call'[d].id \in written' \cup missed' \/ stopped' # {}
    BY <2>1 DEF CallerInv, Id, At
  <2>4. ASSUME call[d].phase \in InLog
        PROVE  HolderInv(d)'
    <3>1. HolderInv(d)
      BY <2>1, <2>4 DEF CallerInv
    <3>2. /\ Kept(call'[d].base, written', backup' \cup unsaved')
          /\ Shaped(call'[d].base, stopped')
      BY <1>3, <2>1, <3>1 DEF HolderInv
    <3>3. call[d].phase = "writing" /\ log.torn = "no" => \A n \in 1..Len(log.rows) :
            log.rows[n].shape = "broken" => log.rows[n].call \in stopped'
      BY <3>1 DEF HolderInv, At
    <3> QED
      BY <2>1, <3>1, <3>2, <3>3 DEF HolderInv, At
  <2> QED
    BY <2>1, <2>2, <2>3, <2>4 DEF CallerInv, At, Id
<1> QED
  BY <1>1, <1>2, <1>4, <1>5, <1>6, <1>7 DEF LogInv

(* What a step of the only caller in the log leaves of the other callers.   *)
LEMMA OthersStay ==
  ASSUME TypeInv, LogInv, NEW c \in Caller, ~At(c, "idle"),
         \A d \in Caller : d # c => call'[d] = call[d] /\ call[d].phase \notin InLog,
         written \subseteq written', written' \subseteq written \cup {Id(c)},
         UNCHANGED <<missed, stopped>>
  PROVE  \A d \in Caller : d # c => CallerInv(d)'
<1> SUFFICES ASSUME NEW d \in Caller, d # c
             PROVE  CallerInv(d)'
  OBVIOUS
<1>1. call'[d] = call[d] /\ call[d].phase \notin InLog /\ CallerInv(d)
  BY DEF LogInv
<1>2. call[d].phase \in Logging => Id(d) # Id(c) /\ Id(d) \notin written
  BY <1>1 DEF TypeInv, Ids, CallerInv, Logging, InLog, At, Id
<1> QED
  BY <1>1, <1>2 DEF CallerInv, At, Id

LEMMA LogOpened ==
  ASSUME TypeInv, LogInv, NEW c \in Caller, OpenLog(c)
  PROVE  LogInv'
<1>1. /\ ExecTypeOK /\ log \in Log /\ At(c, "settled") /\ lock = NoCaller
      /\ call' = [call EXCEPT ![c].phase = "locked", ![c].base = log]
      /\ UNCHANGED <<calls, log, backup, written, unsaved, missed, stopped>>
  BY DEF TypeInv, ExecTypeOK, OpenLog, callVars, rowVars
<1>2. \A d \in Caller : call[d].phase \notin InLog
  BY <1>1 DEF ExecTypeOK, InLog
<1>3. /\ call'[c].phase = "locked" /\ call'[c].id = Id(c) /\ call'[c].base = log
      /\ \A d \in Caller : d # c => call'[d] = call[d]
  BY <1>1, RowsBecome DEF Phase, Becomes
<1>4. Shaped(log, stopped)
  BY <1>2 DEF LogInv, TornInv, HeaderTellsRows, Shaped, At, InLog
<1>5. \A d \in Caller : d # c => CallerInv(d)'
  BY <1>1, <1>2, <1>3, OthersStay DEF At
<1>6. CallerInv(c)'
  <2>1. Id(c) \notin written
    BY <1>1 DEF LogInv, CallerInv, Logging, At
  <2>2. Kept(log, written, backup \cup unsaved)
    BY DEF LogInv
  <2>3. HolderInv(c)'
    BY <1>1, <1>3, <1>4, <2>2 DEF HolderInv, At
  <2> QED
    BY <1>1, <1>3, <2>1, <2>3 DEF CallerInv, At, Id
<1>7. TornInv' /\ HeaderTellsRows'
  BY <1>1, <1>4 DEF TornInv, HeaderTellsRows, Shaped
<1> QED
  BY <1>1, <1>5, <1>6, <1>7 DEF LogInv

LEMMA LogMigrated ==
  ASSUME TypeInv, LogInv, NEW c \in Caller, MigrateUsageLogSchema(c), ~Goto(c, "raised")
  PROVE  LogInv'
<1>1. /\ log \in Log /\ ExecTypeOK /\ At(c, "locked") /\ log.header = "legacy"
      /\ UNCHANGED <<calls, written, missed, stopped>>
  BY DEF TypeInv, ExecTypeOK, MigrateUsageLogSchema, callVars
<1>2. /\ call' = [call EXCEPT ![c].phase = "truncated", ![c].base = NewBase]
      /\ log' = Empty /\ backup' \cup unsaved' = backup \cup unsaved \cup Logged
  <2>1. Backup /\ log' = Empty
        /\ call' = [call EXCEPT ![c].phase = "truncated", ![c].base = NewBase]
    BY DEF MigrateUsageLogSchema, NewBase
  <2>2. backup' \subseteq backup \cup Logged
    BY <2>1 DEF Backup
  <2>3. unsaved' = unsaved \cup ((backup \cup Logged) \ backup')
    BY <2>1 DEF Backup
  <2> QED
    BY <2>1, <2>2, <2>3
<1> DEFINE rows == Migrated(log.rows)
<1>3. /\ NewBase \in Log /\ NewBase.header = "current" /\ NewBase.torn = "no"
      /\ NewBase.rows = rows
  BY <1>1, NewBaseTyped
<1>4. /\ Len(rows) = Len(log.rows)
      /\ \A n \in 1..Len(rows) :
           /\ rows[n].shape = IF log.rows[n].shape = "broken" THEN "broken" ELSE "current"
           /\ rows[n].call = log.rows[n].call
  BY <1>1, MigratedRows DEF Log
<1> HIDE DEF rows
<1>5. /\ call'[c].phase = "truncated" /\ call'[c].id = Id(c) /\ call'[c].base = NewBase
      /\ \A d \in Caller : d # c => call'[d] = call[d]
  <2>1. "truncated" \in Phase
    BY DEF Phase
  <2>2. Becomes(c, "truncated", Id(c), call[c].ok, NewBase)
    BY <1>1, <1>2, <1>3, <2>1, RowsBecome
  <2> QED
    BY <2>2 DEF Becomes
<1>6. /\ log'.header = "none" /\ log'.rows = <<>> /\ log'.torn = "no" /\ Len(log'.rows) = 0
      /\ NoTwice(log'.rows) /\ CallsOf(log'.rows) = {}
  BY <1>2, EmptyType, EmptySeq DEF NoTwice, CallsOf, Whole
<1>7. HolderInv(c) /\ log = call[c].base
  BY <1>1 DEF LogInv, CallerInv, HolderInv, InLog, At
<1>8. NoTwice(rows) /\ CallsOf(rows) = Logged /\ Shaped(NewBase, stopped)
  <2>1. Whole(rows) = Whole(log.rows)
    BY <1>4 DEF Whole
  <2>2. \A n \in Whole(rows) : rows[n].call = log.rows[n].call
    BY <1>4 DEF Whole
  <2>3. NoTwice(log.rows)
    BY DEF LogInv, Kept
  <2>4. NoTwice(rows) /\ CallsOf(rows) = Logged
    BY <2>1, <2>2, <2>3 DEF NoTwice, CallsOf, Logged
  <2>5. \A n \in 1..Len(log.rows) : log.rows[n].shape = "broken" => log.rows[n].call \in stopped
    BY <1>7 DEF HolderInv, Shaped
  <2> QED
    BY <1>3, <1>4, <2>4, <2>5 DEF Shaped
<1>9. written \subseteq backup' \cup unsaved' /\ Logged \subseteq written
  BY <1>2 DEF LogInv, Kept, Logged
<1>10. CallerInv(c)'
  <2>1. Id(c) \notin written
    BY <1>1 DEF LogInv, CallerInv, Logging, InLog, At
  <2>2. Kept(NewBase, written, backup' \cup unsaved')
    BY <1>3, <1>8, <1>9 DEF Kept
  <2>3. HolderInv(c)'
    BY <1>1, <1>3, <1>5, <1>8, <1>9, <2>2 DEF HolderInv, At
  <2> QED
    BY <1>1, <1>5, <2>1, <2>3 DEF CallerInv, At, Id
<1>11. \A d \in Caller : d # c => CallerInv(d)'
  <2>1. \A d \in Caller : d # c => call[d].phase \notin InLog
    BY <1>1, InTheLog DEF At, InLog
  <2> QED
    BY <1>1, <1>5, <2>1, OthersStay DEF At
<1>12. Kept(log', written', backup' \cup unsaved')
  BY <1>1, <1>6, <1>9 DEF Kept
<1>13. HeaderTellsRows' /\ TornInv'
  BY <1>6 DEF HeaderTellsRows, TornInv
<1>14. written' \subseteq 0..calls'
  BY <1>1 DEF LogInv
<1> QED
  BY <1>10, <1>11, <1>12, <1>13, <1>14 DEF LogInv

(* Who writes to the log knows what was in it, and its header is not old.   *)
LEMMA WriterKnows ==
  ASSUME TypeInv, LogInv, NEW c \in Caller,
         \/ At(c, "locked") /\ log.header # "legacy"
         \/ At(c, "truncated") \/ At(c, "writing")
  PROVE  /\ call[c].phase \in InLog /\ call[c].phase \in Logging
         /\ call[c].base \in Log /\ call[c].base.header \in {"none", "current"}
         /\ call[c].base.rows \in Seq(Row)
         /\ Kept(call[c].base, written, backup \cup unsaved)
         /\ Shaped(call[c].base, stopped) /\ Id(c) \notin written
         /\ At(c, "truncated") => /\ call[c].base.header = "current"
                                  /\ written \subseteq backup \cup unsaved
         /\ Id(c) \in 0..calls /\ Id(c) \in 0..MaxCalls /\ ~At(c, "idle")
         /\ \A d \in Caller : d # c => call[d].phase \notin InLog
<1>1. call[c].phase \in InLog /\ call[c].phase \in Logging /\ ~At(c, "idle")
  BY DEF At, InLog, Logging
<1>2. CallerInv(c) /\ HolderInv(c)
  BY <1>1 DEF LogInv, CallerInv
<1>3. /\ call[c].base \in Log /\ call[c].base.rows \in Seq(Row)
      /\ Id(c) \in 0..calls /\ Id(c) \in 0..MaxCalls
      /\ \A d \in Caller : d # c => call[d].phase \notin InLog
  BY <1>1, InTheLog DEF InLog
<1>4. call[c].base.header \in {"none", "current"}
  BY <1>2, <1>3 DEF HolderInv, At, Log
<1> QED
  BY <1>1, <1>2, <1>3, <1>4 DEF CallerInv, HolderInv

LEMMA LogFlushed ==
  ASSUME TypeInv, LogInv, NEW c \in Caller, FlushPart(c)
  PROVE  LogInv'
<1>1. /\ \/ At(c, "locked") /\ log.header # "legacy"
         \/ At(c, "truncated")
      /\ Goto(c, "writing")
      /\ UNCHANGED <<calls, backup, written, unsaved, missed, stopped>>
  BY DEF FlushPart, callVars, rowVars
<1>2. PICK base \in Log : base = call[c].base
  BY <1>1, WriterKnows
<1>3. /\ base.header \in {"none", "current"} /\ base.rows \in Seq(Row)
      /\ Kept(base, written, backup \cup unsaved)
      /\ Shaped(base, stopped) /\ Id(c) \notin written /\ Id(c) \in 0..MaxCalls
      /\ At(c, "truncated") => /\ base.header = "current"
                               /\ written \subseteq backup \cup unsaved
      /\ ~At(c, "idle") /\ \A d \in Caller : d # c => call[d].phase \notin InLog
  BY <1>1, <1>2, WriterKnows
<1>4. /\ call'[c].phase = "writing" /\ call'[c].id = Id(c) /\ call'[c].base = base
      /\ \A d \in Caller : d # c => call'[d] = call[d]
  BY <1>1, <1>2, GotoBecomes DEF TypeInv, Becomes
<1>5. /\ log' \in Log /\ Begins(log'.rows, base.rows, Id(c))
      /\ log'.header \in {"legacy", "current"}
      /\ log'.torn = "no" => StartsLike(log'.rows, base.rows)
      /\ StartsLike(base.rows, log'.rows) \/ written \subseteq backup \cup unsaved
  <2>1. CASE At(c, "truncated") \/ base.header = "none"
    <3>1. log' \in FreshParts(base.rows, Id(c))
      BY <1>2, <2>1 DEF FlushPart
    <3>2. written \subseteq backup \cup unsaved
      <4>1. CASE At(c, "truncated")
        BY <1>3, <4>1
      <4>2. CASE base.header = "none"
        <5>1. Len(base.rows) = 0
          BY <1>3, <4>2, EmptySeq DEF Kept
        <5>2. CallsOf(base.rows) = {}
          BY <5>1 DEF CallsOf, Whole
        <5> QED
          BY <1>3, <5>2 DEF Kept
      <4> QED
        BY <2>1, <4>1, <4>2
    <3> QED
      BY <1>3, <3>1, <3>2, FreshTyped
  <2>2. CASE ~(At(c, "truncated") \/ base.header = "none")
    <3>1. log' \in AppendedParts(base, Id(c)) /\ base.header = "current"
      BY <1>2, <1>3, <2>2 DEF FlushPart
    <3> QED
      BY <1>3, <3>1, AppendedTyped
  <2> QED
    BY <2>1, <2>2
<1>6. PICK l \in Log : l = log'
  BY <1>5
<1>7. l.rows \in Seq(Row) /\ NoTwice(base.rows) /\ CallsOf(base.rows) \subseteq written
  BY <1>3 DEF Kept, Log
<1>8. /\ NoTwice(l.rows) /\ CallsOf(l.rows) \subseteq written
      /\ \A n \in 1..Len(l.rows) : \/ n \in 1..Len(base.rows) /\ l.rows[n] = base.rows[n]
                                   \/ l.rows[n] = [call |-> Id(c), shape |-> "broken"]
  BY <1>3, <1>5, <1>6, <1>7, BeginsKept
<1>9. written \subseteq CallsOf(l.rows) \cup backup \cup unsaved
  <2>1. CASE StartsLike(base.rows, l.rows)
    <3>1. CallsOf(base.rows) \subseteq CallsOf(l.rows)
      BY <2>1 DEF StartsLike, CallsOf, Whole
    <3> QED
      BY <1>3, <3>1 DEF Kept
  <2> QED
    BY <1>5, <1>6, <2>1
<1>10. Kept(l, written, backup \cup unsaved)
  BY <1>5, <1>6, <1>8, <1>9 DEF Kept
<1>11. \A n \in 1..Len(l.rows) :
         /\ l.header # "legacy" => l.rows[n].shape # "legacy"
         /\ l.rows[n].shape = "broken" => l.rows[n].call \in stopped \/ l.rows[n].call = Id(c)
  BY <1>3, <1>8 DEF Shaped
<1>12. l.torn = "no" => \A n \in 1..Len(l.rows) :
         l.rows[n].shape = "broken" => l.rows[n].call \in stopped
  BY <1>3, <1>5, <1>6 DEF Shaped, StartsLike
<1>13. HeaderTellsRows' /\ TornInv'
  BY <1>1, <1>4, <1>6, <1>11 DEF HeaderTellsRows, TornInv, At, Id
<1>14. CallerInv(c)'
  <2>1. HolderInv(c)'
    BY <1>1, <1>3, <1>4, <1>6, <1>12 DEF HolderInv, At
  <2> QED
    BY <1>1, <1>3, <1>4, <2>1 DEF CallerInv, At, Id
<1>15. \A d \in Caller : d # c => CallerInv(d)'
  BY <1>1, <1>3, <1>4, OthersStay
<1>16. written' \subseteq 0..calls'
  BY <1>1 DEF LogInv
<1> QED
  BY <1>1, <1>6, <1>10, <1>13, <1>14, <1>15, <1>16 DEF LogInv

LEMMA LogAppended ==
  ASSUME TypeInv, LogInv, NEW c \in Caller, AppendUsageRow(c)
  PROVE  LogInv'
<1>1. /\ \/ At(c, "locked") /\ log.header # "legacy"
         \/ At(c, "truncated") \/ At(c, "writing")
      /\ call' = [call EXCEPT ![c].phase = "returned", ![c].base = Empty]
      /\ UNCHANGED <<calls, backup, unsaved, missed, stopped>>
  BY DEF AppendUsageRow, callVars
<1>2. PICK base \in Log, k \in 0..MaxCalls : base = call[c].base /\ k = Id(c)
  BY <1>1, WriterKnows
<1>3. /\ base.header \in {"none", "current"} /\ base.rows \in Seq(Row)
      /\ Kept(base, written, backup \cup unsaved)
      /\ Shaped(base, stopped) /\ k \notin written /\ k \in 0..calls
      /\ ~At(c, "idle") /\ \A d \in Caller : d # c => call[d].phase \notin InLog
  BY <1>1, <1>2, WriterKnows
<1>4. /\ call'[c].phase = "returned" /\ call'[c].id = k
      /\ \A d \in Caller : d # c => call'[d] = call[d]
  BY <1>1, <1>2, RowsBecome, EmptyType DEF TypeInv, Phase, Becomes
<1>5. /\ log' \in Completed(base, k)
      /\ written' = IF base.torn = "no" THEN written \cup {k} ELSE written
  BY <1>2 DEF AppendUsageRow
<1>6. PICK l : l = log' /\ l \in Completed(base, k)
  BY <1>5
<1>7. /\ l \in Log
      /\ base.torn = "no" =>
              /\ l.header = "current" /\ l.torn = "no"
              /\ Len(l.rows) = Len(base.rows) + 1 /\ Len(base.rows) \in Nat
              /\ l.rows[Len(base.rows) + 1] = [call |-> k, shape |-> "current"]
              /\ \A n \in 1..Len(base.rows) : l.rows[n] = base.rows[n]
      /\ base.torn # "no" => l.rows = base.rows /\ (l.header = "none" => base.header = "none")
  BY <1>3, <1>6, CompletedTyped
<1>8. /\ NoTwice(base.rows) /\ CallsOf(base.rows) \subseteq written
      /\ written \subseteq CallsOf(base.rows) \cup backup \cup unsaved
      /\ base.header = "none" => base.rows = <<>>
  BY <1>3 DEF Kept
<1>9. Kept(l, written', backup \cup unsaved)
  <2>1. CASE base.torn = "no"
    <3> DEFINE len == Len(base.rows)
    <3>1. len \in Nat /\ Len(l.rows) = len + 1 /\ l.header = "current"
      BY <1>7, <2>1
    <3>2. l.rows[len + 1].call = k /\ l.rows[len + 1].shape = "current"
      BY <1>7, <2>1
    <3>3. \A n \in 1..len : l.rows[n] = base.rows[n]
      BY <1>7, <2>1
    <3> HIDE DEF len
    <3>4. Whole(base.rows) \subseteq 1..len
      BY DEF Whole, len
    <3>5. Whole(l.rows) = Whole(base.rows) \cup {len + 1}
      <4>1. \A n \in 1..(len + 1) : n \in 1..len \/ n = len + 1
        BY <3>1
      <4>2. len + 1 \in 1..(len + 1) /\ \A n \in 1..len : n \in 1..(len + 1)
        BY <3>1
      <4> QED
        BY <3>1, <3>2, <3>3, <4>1, <4>2 DEF Whole, len
    <3>6. CallsOf(l.rows) = CallsOf(base.rows) \cup {k}
      BY <3>2, <3>3, <3>4, <3>5 DEF CallsOf
    <3>7. NoTwice(l.rows)
      <4>1. \A n \in Whole(base.rows) : l.rows[n].call # k
        BY <1>3, <1>8, <3>3, <3>4 DEF CallsOf
      <4>2. \A m, n \in Whole(base.rows) : l.rows[m].call = l.rows[n].call => m = n
        BY <1>8, <3>3, <3>4 DEF NoTwice
      <4> QED
        BY <3>2, <3>5, <4>1, <4>2 DEF NoTwice
    <3> QED
      BY <1>5, <1>8, <2>1, <3>1, <3>6, <3>7 DEF Kept
  <2>2. CASE base.torn # "no"
    BY <1>5, <1>7, <1>8, <2>2 DEF Kept
  <2> QED
    BY <2>1, <2>2
<1>10. /\ l.torn # "no" => stopped # {}
       /\ \A n \in 1..Len(l.rows) :
            l.rows[n].shape # "legacy"
            /\ (l.rows[n].shape = "broken" => l.rows[n].call \in stopped)
  <2>1. CASE base.torn = "no"
    <3>1. \A n \in 1..Len(l.rows) : n \in 1..Len(base.rows) \/ n = Len(base.rows) + 1
      BY <1>7, <2>1
    <3>2. \A n \in 1..Len(base.rows) :
            base.rows[n].shape # "legacy"
            /\ (base.rows[n].shape = "broken" => base.rows[n].call \in stopped)
      BY <1>3 DEF Shaped
    <3> QED
      BY <1>7, <2>1, <3>1, <3>2
  <2>2. CASE base.torn # "no"
    BY <1>3, <1>7, <2>2 DEF Shaped
  <2> QED
    BY <2>1, <2>2
<1>11. HeaderTellsRows' /\ TornInv'
  BY <1>1, <1>6, <1>10 DEF HeaderTellsRows, TornInv
<1>12. \A d \in Caller : d # c => CallerInv(d)'
  <2>1. written \subseteq written' /\ written' \subseteq written \cup {Id(c)}
    BY <1>2, <1>5
  <2> QED
    BY <1>1, <1>3, <1>4, <2>1, OthersStay
<1>13. CallerInv(c)'
  <2>1. k \in written' \/ stopped # {}
    BY <1>3, <1>5 DEF Shaped
  <2> QED
    BY <1>1, <1>4, <2>1 DEF CallerInv, Logging, InLog, At, Id
<1>14. written' \subseteq 0..calls'
  BY <1>1, <1>3, <1>5 DEF LogInv
<1> QED
  BY <1>1, <1>6, <1>9, <1>11, <1>12, <1>13, <1>14 DEF LogInv

LEMMA LogStep ==
  ASSUME TypeInv, LogInv, NEW c \in Caller, Next1(c)
  PROVE  LogInv'
<1>1. /\ ExecTypeOK /\ log \in Log /\ NewBase \in Log /\ Empty \in Log
      /\ written \subseteq 0..calls /\ calls \in Nat
  BY EmptyType, NewBaseTyped, ExecAssumption DEF TypeInv, ExecTypeOK, LogInv
<1>2. call[c].phase \in Logging => Id(c) \notin written
  BY DEF LogInv, CallerInv
<1>3. \A p : Goto(c, p) => Becomes(c, p, Id(c), call[c].ok, call[c].base)
  BY <1>1, GotoBecomes
<1>4. call' = [call EXCEPT ![c] = Idle] => Becomes(c, "idle", 0, FALSE, Empty)
  BY <1>1, IdleBecomes
<1>5. CASE RunCodexCommand(c)
  <2>1. /\ call'[c].phase \in {"running", "raised"} /\ call'[c].id = calls + 1
        /\ \A d \in Caller : d # c => call'[d] = call[d]
        /\ calls' = calls + 1 /\ At(c, "idle")
        /\ UNCHANGED <<log, backup, written, unsaved, missed, stopped>>
    BY <1>1, <1>5, RunBecomes DEF Becomes, RunCodexCommand, logVars, rowVars
  <2>2. calls + 1 \notin written
    BY <1>1
  <2> QED
    BY <2>1, <2>2, LogUntouched DEF InLog, At
<1>6. CASE CodexExits(c) \/ TimesOut(c) \/ DropTempAfterTimeout(c) \/ TakePayload(c)
           \/ CallRaises(c)
  <2>1. /\ UNCHANGED <<log, backup, written, unsaved, missed, stopped>> /\ calls' = calls
        /\ call[c].phase \in {"running", "ended", "expired", "settled"}
    BY <1>6 DEF CodexExits, TimesOut, DropTempAfterTimeout, TakePayload, CallRaises,
                logVars, rowVars, At
  <2>2. /\ call'[c].phase \in {"ended", "expired", "settled", "raised"} /\ call'[c].id = Id(c)
        /\ \A d \in Caller : d # c => call'[d] = call[d]
    BY <1>1, <1>3, <1>6, PayloadBecomes
    DEF CodexExits, TimesOut, DropTempAfterTimeout, CallRaises, Becomes
  <2> QED
    BY <1>2, <2>1, <2>2, LogUntouched DEF InLog, Logging, At
<1>7. CASE LogFails(c) \/ Crash(c)
  <2>1. /\ UNCHANGED <<log, backup, written, unsaved>> /\ calls' = calls
        /\ missed \subseteq missed' /\ stopped \subseteq stopped'
        /\ At(c, "writing") /\ log.torn # "no" => Id(c) \in stopped'
    BY <1>7 DEF LogFails, Crash, Stops, callVars
  <2>2. /\ call'[c].phase \in {"returned", "idle"}
        /\ call'[c].phase = "returned" => call'[c].id \in missed'
        /\ \A d \in Caller : d # c => call'[d] = call[d]
    BY <1>1, <1>4, <1>7, RowsBecome DEF LogFails, Crash, Becomes, Phase
  <2> QED
    BY <2>1, <2>2, LogUntouched DEF InLog, Logging
<1>8. CASE LeaveStaging(c) \/ OneValidates(c) \/ OneRejects(c)
  <2>1. /\ UNCHANGED <<log, backup, written, unsaved, missed, stopped>> /\ calls' = calls
        /\ ~At(c, "writing")
    BY <1>8 DEF LeaveStaging, OneValidates, OneRejects, logVars, rowVars, At
  <2>2. call' = [call EXCEPT ![c] = Idle] \/ Goto(c, "rejecting")
    BY <1>8 DEF LeaveStaging, OneValidates, OneRejects
  <2>3. /\ call'[c].phase \in {"rejecting", "idle"}
        /\ \A d \in Caller : d # c => call'[d] = call[d]
    BY <1>3, <1>4, <2>2 DEF Becomes
  <2> QED
    BY <2>1, <2>3, LogUntouched DEF InLog, Logging
<1>9. CASE MigrateUsageLogSchema(c) /\ Goto(c, "raised")
  <2>1. /\ call'[c].phase = "raised" /\ \A d \in Caller : d # c => call'[d] = call[d]
        /\ UNCHANGED <<calls, written, missed, stopped>> /\ At(c, "locked")
    BY <1>3, <1>9 DEF Becomes, MigrateUsageLogSchema, callVars
  <2>2. ~(call' = [call EXCEPT ![c].phase = "truncated", ![c].base = NewBase])
    BY <1>1, <2>1, RowsBecome DEF Phase, Becomes
  <2>3. UNCHANGED <<log, backup, unsaved>>
    BY <1>9, <2>2 DEF MigrateUsageLogSchema, NewBase
  <2> QED
    BY <2>1, <2>3, LogUntouched DEF Logging, InLog, At
<1> QED
  BY <1>5, <1>6, <1>7, <1>8, <1>9, LogOpened, LogMigrated, LogFlushed, LogAppended DEF Next1

LEMMA LogAlways == Spec => []LogInv
<1>1. Init => LogInv
  <2> SUFFICES ASSUME Init PROVE LogInv
    OBVIOUS
  <2>1. /\ call = [c \in Caller |-> Idle] /\ calls = 0
        /\ written = {log.rows[n].call : n \in 1..Len(log.rows)}
    BY DEF Init
  <2>2. \A c \in Caller : call[c].phase = "idle"
    BY <2>1, IdleType
  <2>3. \A c \in Caller : CallerInv(c)
    BY <2>2 DEF CallerInv, Logging, InLog, At
  <2>4. Whole(log.rows) = 1..Len(log.rows) /\ \A n \in 1..Len(log.rows) : n = 1
    BY FirstLog DEF Whole
  <2>5. NoTwice(log.rows) /\ CallsOf(log.rows) = written
    BY <2>1, <2>4 DEF NoTwice, CallsOf
  <2>6. log.header = "none" => log.rows = <<>>
    <3>1. log.header # "none" \/ log = Empty
      BY DEF Init, Empty
    <3> QED
      BY <3>1, EmptyType
  <2>7. written \subseteq {0} /\ 0 \in 0..calls
    BY <2>1, FirstLog
  <2>8. HeaderTellsRows /\ TornInv
    BY FirstLog DEF HeaderTellsRows, TornInv
  <2> QED
    BY <2>3, <2>5, <2>6, <2>7, <2>8 DEF LogInv, Kept
<1>2. ASSUME TypeInv, LogInv, UNCHANGED <<call, calls, log, backup, written, unsaved, missed, stopped>>
      PROVE  LogInv'
  <2>1. /\ Kept(log', written', backup' \cup unsaved') /\ written' \subseteq 0..calls'
        /\ HeaderTellsRows' /\ TornInv'
    BY <1>2 DEF LogInv, HeaderTellsRows, TornInv, At, Id
  <2>2. \A c \in Caller : HolderInv(c) => HolderInv(c)'
    BY <1>2 DEF HolderInv, At
  <2>3. \A c \in Caller : CallerInv(c)'
    BY <1>2, <2>2 DEF LogInv, CallerInv, At, Id
  <2> QED
    BY <2>1, <2>3 DEF LogInv
<1>3. ASSUME TypeInv, LogInv, [Next]_vars
      PROVE  LogInv'
  <2>1. ASSUME NEW k \in Call, CodexWrites(k)
        PROVE  LogInv'
    BY <1>2, <1>3, <2>1 DEF CodexWrites, logVars, rowVars
  <2>2. CASE UNCHANGED vars
    BY <1>2, <1>3, <2>2 DEF vars
  <2> QED
    BY <1>3, <2>1, <2>2, LogStep, NextSplit
<1> QED
  BY <1>1, <1>3, TypeAlways, PTL DEF Spec

(* The log under callers that log at the same time, and kills and full      *)
(* disks that stop a write at any byte: the row of a call is left out only  *)
(* by an OS error in that call or after a call that stopped in a line; a    *)
(* row that was written is in the log, in a backup or was lost with one;    *)
(* no whole row is there twice.                                             *)
THEOREM RowsKept == Spec => []LogKeepsRows
<1>1. LogInv => LogKeepsRows
  BY DEF LogInv, Kept, CallerInv, LogKeepsRows, NoTwice, Logged
<1> QED
  BY <1>1, LogAlways, PTL

(* A row of a log with a current header has another shape only if its       *)
(* writer stopped in the middle of it, or is at it.                         *)
THEOREM ColumnsFit == Spec => []HeaderTellsRows
BY LogAlways, PTL DEF LogInv

------------------------------------------------------------------------------
(* What the command "one" tells. *)

(* One command at a time writes to the path; two of them may overwrite each *)
(* other's output after the first has told its user.                        *)
OneAtATime == \A c, d \in One : c = d

(* Between taking the payload and validating it nobody writes to the path.  *)
OneInv ==
  /\ told # 0 => \A c \in One : At(c, "idle")
  /\ \A c \in One :
       /\ call[c].phase \in {"running", "ended", "expired"} => call[c].ok = FALSE
       /\ call[c].phase \in {"settled", "locked", "truncated", "writing", "returned"} /\ call[c].ok
            => file[0].call = Id(c)
  /\ OneToldTruth

(* Steps of other callers do not touch the path, nor what was told.         *)
LEMMA OthersKeepOne ==
  ASSUME TypeInv, OneInv, NEW c \in Caller, c \notin One,
         told' = told, file'[0] = file[0], \A d \in Caller : d # c => call'[d] = call[d]
  PROVE  OneInv'
<1>1. \A d \in One : call'[d] = call[d]
  BY ExecAssumption
<1> QED
  BY <1>1 DEF OneInv, OneToldTruth, At, Id

(* Steps of the one command that leave the path alone.                      *)
LEMMA OneKeepsOne ==
  ASSUME TypeInv, OneInv, OneAtATime, NEW c \in Caller, c \in One,
         told' \in {told, 0}, told' # 0 => call'[c].phase = "idle",
         file'[0] = file[0],
         call'[c].phase \in {"running", "ended", "expired"} => call'[c].ok = FALSE,
         call'[c].phase \in {"settled", "locked", "truncated", "writing", "returned"} /\ call'[c].ok =>
           /\ call[c].phase \in {"settled", "locked", "truncated", "writing", "returned"} /\ call[c].ok
           /\ call'[c].id = Id(c)
  PROVE  OneInv'
<1>1. \A d \in One : d = c
  BY DEF OneAtATime
<1> QED
  BY <1>1 DEF OneInv, OneToldTruth, At, Id

LEMMA OneStep ==
  ASSUME TypeInv, OneInv, OneAtATime, NEW c \in Caller, Next1(c)
  PROVE  OneInv'
<1>1. /\ ExecTypeOK /\ log \in Log /\ NewBase \in Log /\ Empty \in Log /\ call[c].base \in Log
      /\ file \in [0..MaxCalls -> Content] /\ 0 \in 0..MaxCalls
  BY EmptyType, NewBaseTyped, ExecAssumption DEF TypeInv, ExecTypeOK, CallState
<1>2. \A p : Goto(c, p) => Becomes(c, p, Id(c), call[c].ok, call[c].base)
  BY <1>1, GotoBecomes
<1>3. call' = [call EXCEPT ![c] = Idle] => call'[c] = Idle /\ Becomes(c, "idle", 0, FALSE, Empty)
  BY <1>1, IdleBecomes
<1>4. \A p \in Phase, r \in Log :
        call' = [call EXCEPT ![c].phase = p, ![c].base = r]
          => Becomes(c, p, Id(c), call[c].ok, r)
  BY <1>1, RowsBecome
<1>5. c \in One /\ ~At(c, "idle") => told = 0
  BY DEF OneInv
<1>6. c \in One => Path(c) = 0
  BY DEF Path
<1>7. c \notin One /\ ~At(c, "idle") => Path(c) # 0
  BY IdCalled DEF Path, Call
<1>8. c \in One => (call[c].phase \in {"running", "ended", "expired"} => call[c].ok = FALSE)
  BY DEF OneInv
<1>9. CASE RunCodexCommand(c)
  <2>1. /\ call'[c].phase \in {"running", "raised"} /\ call'[c].ok = FALSE
        /\ \A d \in Caller : d # c => call'[d] = call[d]
    BY <1>1, <1>9, RunBecomes DEF Becomes
  <2>2. file' = file /\ told' = IF c \in One THEN 0 ELSE told
    BY <1>9 DEF RunCodexCommand
  <2> QED
    BY <2>1, <2>2, OthersKeepOne, OneKeepsOne
<1>10. CASE CodexExits(c) \/ TimesOut(c) \/ DropTempAfterTimeout(c) \/ CallRaises(c)
  <2>1. PICK p \in Phase :
          /\ Goto(c, p)
          /\ \/ p \in {"ended", "expired", "raised"}
             \/ p = "settled" /\ At(c, "expired")
          /\ p \in {"ended", "expired"} => At(c, "running")
    BY <1>10 DEF CodexExits, TimesOut, DropTempAfterTimeout, CallRaises, Phase
  <2>2. UNCHANGED <<file, told>> /\ ~At(c, "idle")
    BY <1>10 DEF CodexExits, TimesOut, DropTempAfterTimeout, CallRaises, At
  <2>3. Becomes(c, p, Id(c), call[c].ok, call[c].base)
    BY <1>1, <2>1, GotoBecomes
  <2>4. CASE c \notin One
    BY <2>2, <2>3, <2>4, OthersKeepOne DEF Becomes
  <2>5. CASE c \in One
    <3>1. told' = 0 /\ file' = file /\ told = 0
      BY <1>5, <2>2, <2>5
    <3>2. call'[c].phase = p /\ call'[c].ok = call[c].ok /\ call'[c].id = Id(c)
      BY <2>3 DEF Becomes
    <3>3. p \in {"ended", "expired", "settled"} => call[c].ok = FALSE
      BY <1>8, <2>1, <2>5 DEF At
    <3>4. p \in {"ended", "expired", "settled", "raised"}
      BY <2>1 DEF At
    <3> QED
      BY <2>5, <3>1, <3>2, <3>3, <3>4, OneKeepsOne
  <2> QED
    BY <2>4, <2>5
<1>11. CASE TakePayload(c)
  <2> DEFINE payload == temp[Id(c)] \in {"broken", "good"}
  <2>1. /\ call'[c].phase = "settled" /\ call'[c].id = Id(c) /\ call'[c].ok = payload
        /\ \A d \in Caller : d # c => call'[d] = call[d]
    BY <1>1, <1>11, PayloadBecomes DEF Becomes
  <2>2. /\ told' = told /\ ~At(c, "idle")
        /\ file' = IF payload
                   THEN [file EXCEPT ![Path(c)] = [call |-> Id(c), quality |-> temp[Id(c)]]]
                   ELSE file
    BY <1>11 DEF TakePayload, At
  <2>3. CASE c \notin One
    BY <1>1, <1>7, <2>1, <2>2, <2>3, OthersKeepOne
  <2>4. CASE c \in One
    <3>1. \A d \in One : d = c
      BY <2>4 DEF OneAtATime
    <3>2. payload => file'[0].call = Id(c)
      BY <1>1, <1>6, <2>2, <2>4
    <3>3. told' = 0
      BY <1>5, <2>2, <2>4
    <3> QED
      BY <2>1, <3>1, <3>2, <3>3 DEF OneInv, OneToldTruth, At, Id
  <2> QED
    BY <2>3, <2>4
<1>12. CASE OpenLog(c) \/ MigrateUsageLogSchema(c) \/ FlushPart(c) \/ AppendUsageRow(c)
            \/ LogFails(c)
  <2>1. /\ UNCHANGED <<file, told>>
        /\ call[c].phase \in {"settled", "locked", "truncated", "writing"}
    BY <1>12 DEF OpenLog, MigrateUsageLogSchema, FlushPart, AppendUsageRow, LogFails,
                 callVars, At
  <2>2. PICK p \in {"locked", "raised", "truncated", "writing", "returned"}, r \in Log :
          Becomes(c, p, Id(c), call[c].ok, r)
    <3>1. CASE OpenLog(c)
      BY <1>1, <1>4, <3>1 DEF OpenLog, Phase
    <3>2. CASE MigrateUsageLogSchema(c)
      <4>1. \/ Goto(c, "raised")
            \/ call' = [call EXCEPT ![c].phase = "truncated", ![c].base = NewBase]
        BY <3>2 DEF MigrateUsageLogSchema, NewBase
      <4> QED
        BY <1>1, <1>2, <1>4, <4>1 DEF Phase
    <3>3. CASE FlushPart(c)
      BY <1>1, <1>2, <3>3 DEF FlushPart, Phase
    <3>4. CASE AppendUsageRow(c) \/ LogFails(c)
      BY <1>1, <1>4, <3>4 DEF AppendUsageRow, LogFails, Phase
    <3> QED
      BY <1>12, <3>1, <3>2, <3>3, <3>4
  <2>3. ~At(c, "idle")
    BY <2>1 DEF At
  <2>4. CASE c \notin One
    BY <2>1, <2>2, <2>4, OthersKeepOne DEF Becomes
  <2>5. CASE c \in One
    BY <1>5, <2>1, <2>2, <2>3, <2>5, OneKeepsOne DEF Becomes
  <2> QED
    BY <2>4, <2>5
<1>13. CASE LeaveStaging(c)
  <2>1. c \notin One /\ ~At(c, "idle") /\ told' = told /\ file' = [file EXCEPT ![Path(c)] = Absent]
        /\ \A d \in Caller : d # c => call'[d] = call[d]
    BY <1>3, <1>13 DEF LeaveStaging, At, Becomes
  <2> QED
    BY <1>1, <1>7, <2>1, OthersKeepOne
<1>14. CASE OneValidates(c)
  <2>1. /\ c \in One /\ ~At(c, "idle") /\ file' = file
        /\ \/ /\ At(c, "returned") /\ call[c].ok /\ file[0].quality = "good"
              /\ told' = Id(c) /\ call' = [call EXCEPT ![c] = Idle]
           \/ told' = told /\ Goto(c, "rejecting")
           \/ told' = told /\ call' = [call EXCEPT ![c] = Idle]
    BY <1>14 DEF OneValidates, At
  <2>2. CASE told' = told /\ (Goto(c, "rejecting") \/ call' = [call EXCEPT ![c] = Idle])
    <3>1. call'[c].phase \in {"rejecting", "idle"}
      BY <1>2, <1>3, <2>2 DEF Becomes
    <3> QED
      BY <1>5, <2>1, <2>2, <3>1, OneKeepsOne
  <2>3. CASE /\ At(c, "returned") /\ call[c].ok /\ file[0].quality = "good"
             /\ told' = Id(c) /\ call' = [call EXCEPT ![c] = Idle]
    <3>1. \A d \in One : d = c
      BY <2>1 DEF OneAtATime
    <3>2. file[0].call = Id(c) /\ file[0] \in Content
      BY <1>1, <2>1, <2>3 DEF OneInv, At
    <3>3. file[0] = [call |-> Id(c), quality |-> "good"]
      BY <2>3, <3>2 DEF Content
    <3>4. call'[c].phase = "idle"
      BY <1>3, <2>3, IdleType
    <3> QED
      BY <2>1, <2>3, <3>1, <3>3, <3>4 DEF OneInv, OneToldTruth, At
  <2> QED
    BY <2>1, <2>2, <2>3
<1>15. CASE OneRejects(c)
  <2>1. /\ c \in One /\ ~At(c, "idle") /\ told' = told /\ call' = [call EXCEPT ![c] = Idle]
    BY <1>15 DEF OneRejects, At, TypeInv, Ids
  <2>2. call'[c].phase = "idle" /\ told' = 0 /\ \A d \in One : d = c
    BY <1>3, <1>5, <2>1, IdleType DEF OneAtATime
  <2> QED
    BY <2>2 DEF OneInv, OneToldTruth, At
<1>16. CASE Crash(c)
  <2>1. /\ ~At(c, "idle") /\ UNCHANGED <<file, told>> /\ call'[c].phase = "idle"
        /\ \A d \in Caller : d # c => call'[d] = call[d]
    BY <1>3, <1>16, IdleType DEF Crash, Becomes
  <2> QED
    BY <1>5, <2>1, OthersKeepOne, OneKeepsOne
<1> QED
  BY <1>9, <1>10, <1>11, <1>12, <1>13, <1>14, <1>15, <1>16 DEF Next1

(* While one command "one" uses a path at a time, what it told its user is  *)
(* there: its own valid payload, not what an earlier call or a process that *)
(* was killed left, until the next command starts.                          *)
THEOREM ToldIsThere == ASSUME OneAtATime PROVE Spec => []OneToldTruth
<1>1. Init => OneInv
  <2> SUFFICES ASSUME Init PROVE OneInv
    OBVIOUS
  <2>1. told = 0 /\ call = [c \in Caller |-> Idle]
    BY DEF Init
  <2>2. \A c \in One : call[c].phase = "idle"
    BY <2>1, IdleType, ExecAssumption
  <2> QED
    BY <2>1, <2>2 DEF OneInv, OneToldTruth, At
<1>2. ASSUME TypeInv, OneInv, [Next]_vars
      PROVE  OneInv'
  <2>1. ASSUME NEW k \in Call, CodexWrites(k)
        PROVE  OneInv'
    BY <1>2, <2>1 DEF CodexWrites, OneInv, OneToldTruth, At, Id
  <2>2. CASE UNCHANGED vars
    BY <1>2, <2>2 DEF vars, OneInv, OneToldTruth, At, Id
  <2> QED
    BY <1>2, <2>1, <2>2, OneStep, NextSplit
<1>3. OneInv => OneToldTruth
  BY DEF OneInv
<1> QED
  BY <1>1, <1>2, <1>3, TypeAlways, PTL DEF Spec
==============================================================================
