------------------------- MODULE RunLifecycle_proofs -------------------------
(***************************************************************************)
(* The three invariants of RunLifecycle, for any number of tasks and of    *)
(* callers of run_status.  What makes the unguarded write of run_status    *)
(* harmless is that a finished status and a confirmed cancel are derived   *)
(* from counts that nothing but retry-errors can undo: a drained run stays *)
(* drained.                                                                *)
(***************************************************************************)
EXTENDS RunLifecycle, TaskQueue_proofs

(* Runs without inputs are refused when they are created.                   *)
SomeTask == Task # {}

(* Somebody waits for the run.                                              *)
SomeReader == Reader # {}

(* What a call of run_status carries from one statement to the next: an     *)
(* answer that the run has ended was right when it was computed.            *)
AnswerRight(p) ==
  /\ p.at \in {"counting", "writing"} /\ p.control = "canceled" => Drained
  /\ p.at \in {"counting", "writing"} /\ p.was \in Finished => Drained
  /\ p.at = "writing" /\ p.effective \in Finished => Drained
  /\ p.at = "writing" /\ Persisted(p) = "canceled" => Drained /\ p.effective = "canceled"

(* A caller that writes a finished status before it leaves, or stays.       *)
WillWrite(p) ==
  \/ p.at \in {"idle", "retrying"}
  \/ p.at \in {"counting", "writing"} /\ p.was \notin Finished
  \/ p.at = "writing" /\ p.effective \notin Finished

ColumnsRight ==
  /\ control = "canceled" => Drained /\ status = "canceled"
  /\ status \in Finished => Drained
  /\ status \notin Finished => \E r \in Reader : WillWrite(poll[r])

LifecycleInv ==
  ~retried => ColumnsRight /\ \A r \in Reader : AnswerRight(poll[r])

------------------------------------------------------------------------------
(* Types. *)

LEMMA IdleType == IdlePoll \in Poll /\ [IdlePoll EXCEPT !.at = "gone"] \in Poll
                  /\ [IdlePoll EXCEPT !.at = "retrying"] \in Poll
BY DEF IdlePoll, Poll, RunStatus, ControlState

LEMMA DerivedType ==
  ASSUME NEW c \in ControlState
  PROVE  DeriveEffectiveStatus(c) \in RunStatus
BY DEF DeriveEffectiveStatus, RunStatus

LEMMA PersistedType ==
  ASSUME NEW p \in Poll
  PROVE  Persisted(p) \in ControlState
BY DEF Persisted, Poll, ControlState

LEMMA AnsweredType ==
  ASSUME poll \in [Reader -> Poll], NEW r \in Reader, Answered(r)
  PROVE  poll' \in [Reader -> Poll]
<1>1. \A at \in {"idle", "gone", "retrying"} : [IdlePoll EXCEPT !.at = at] \in Poll
  BY DEF IdlePoll, Poll, RunStatus, ControlState
<1>2. \E at \in {"idle", "gone", "retrying"} :
        poll' = [poll EXCEPT ![r] = [IdlePoll EXCEPT !.at = at]]
  BY DEF Answered
<1> QED
  BY <1>1, <1>2

LEMMA ReaderTyped ==
  ASSUME LifecycleTypeOK, NEW r \in Reader,
         PollRun(r) \/ PollCounts(r) \/ PollWrite(r) \/ StartReader(r) \/ RetryErrors(r)
  PROVE  LifecycleTypeOK'
<1> USE DEF LifecycleTypeOK
<1>1. CASE PollRun(r)
  <2> DEFINE p == [poll[r] EXCEPT !.at = "counting", !.was = status, !.control = control]
  <2>1. p \in Poll
    BY DEF Poll, QueueTypeOK
  <2>2. poll' = [poll EXCEPT ![r] = p]
    BY <1>1 DEF PollRun
  <2> HIDE DEF p
  <2>3. poll' \in [Reader -> Poll]
    BY <2>1, <2>2
  <2> QED
    BY <1>1, <2>3 DEF PollRun, QueueTypeOK
<1>2. CASE PollCounts(r)
  <2>1. DeriveEffectiveStatus(poll[r].control) \in RunStatus
    BY DerivedType DEF Poll
  <2> DEFINE p == [poll[r] EXCEPT !.at = "writing",
                                  !.effective = DeriveEffectiveStatus(poll[r].control),
                                  !.queued = InStatus("queued") # {},
                                  !.running = InStatus("running") # {}]
  <2>2. p \in Poll
    BY <2>1 DEF Poll
  <2>3. poll' = [poll EXCEPT ![r] = p]
    BY <1>2 DEF PollCounts
  <2>4. UNCHANGED <<row, control, locked, status, intent, retried>>
    BY <1>2 DEF PollCounts
  <2> HIDE DEF p
  <2> QED
    BY <2>2, <2>3, <2>4 DEF QueueTypeOK
<1>3. CASE PollWrite(r)
  <2>1. Persisted(poll[r]) \in ControlState /\ poll[r].effective \in RunStatus
    BY PersistedType DEF Poll
  <2>2. poll' \in [Reader -> Poll]
    BY <1>3, AnsweredType DEF PollWrite
  <2> QED
    BY <1>3, <2>1, <2>2 DEF PollWrite, QueueTypeOK
<1>4. CASE StartReader(r)
  BY <1>4, IdleType DEF StartReader, QueueTypeOK
<1>5. CASE RetryErrors(r)
  <2>1. QueueTypeOK'
    BY <1>5, OperatorType DEF RetryErrors
  <2> QED
    BY <1>5, <2>1 DEF RetryErrors, Poll
<1> QED
  BY <1>1, <1>2, <1>3, <1>4, <1>5

LEMMA OthersTyped ==
  ASSUME LifecycleTypeOK,
         \/ \E t \in Task : Lease(t) \/ EndLease(t) \/ Renew(t)
         \/ Pause \/ Resume \/ Cancel \/ Time
  PROVE  LifecycleTypeOK'
<1> USE DEF LifecycleTypeOK
<1>1. ASSUME NEW t \in Task, Lease(t)
      PROVE  LifecycleTypeOK'
  <2>1. QueueTypeOK'
    BY <1>1, ClaimType DEF Lease
  <2> QED
    BY <1>1, <2>1 DEF Lease, RunStatus
<1>2. ASSUME NEW t \in Task, EndLease(t)
      PROVE  LifecycleTypeOK'
  <2>1. QueueTypeOK'
    BY <1>2, ReleasedType DEF EndLease, Release, QueueTypeOK
  <2> QED
    BY <1>2, <2>1 DEF EndLease
<1>3. ASSUME NEW t \in Task, Renew(t)
      PROVE  LifecycleTypeOK'
  <2>1. QueueTypeOK'
    BY <1>3, LagBounds DEF Renew, HeartbeatTaskLease, QueueTypeOK, Row
  <2> QED
    BY <1>3, <2>1 DEF Renew
<1>4. CASE Pause \/ Resume \/ Cancel
  <2>1. QueueTypeOK'
    BY <1>4, OperatorType DEF Pause, Resume, Cancel
  <2> QED
    BY <1>4, <2>1 DEF Pause, Resume, Cancel
<1>5. CASE Time
  BY <1>5, TickType DEF Time
<1> QED
  BY <1>1, <1>2, <1>3, <1>4, <1>5

(* Type correctness of the lifecycle: no caller's call of run_status, no    *)
(* command and no end of a lease leaves the declared types.                 *)
THEOREM LifecycleTyped == Spec => []LifecycleTypeOK
<1>1. Init => LifecycleTypeOK
  BY QueueInitType, IdleType DEF Init, LifecycleTypeOK, RunStatus
<1>2. LifecycleTypeOK /\ [Next]_vars => LifecycleTypeOK'
  <2> SUFFICES ASSUME LifecycleTypeOK, [Next]_vars
               PROVE  LifecycleTypeOK'
    OBVIOUS
  <2>1. CASE UNCHANGED vars
    BY <2>1 DEF vars, LifecycleTypeOK, QueueTypeOK
  <2>2. CASE Next
    BY <2>2, ReaderTyped, OthersTyped DEF Next
  <2> QED
    BY <2>1, <2>2
<1> QED
  BY <1>1, <1>2, PTL DEF Spec

------------------------------------------------------------------------------
(* A drained run stays drained. *)

LEMMA ReaderKeepsRows ==
  ASSUME NEW r \in Reader, PollRun(r) \/ PollCounts(r) \/ PollWrite(r) \/ StartReader(r)
  PROVE  row' = row /\ retried' = retried
BY DEF PollRun, PollCounts, PollWrite, StartReader

LEMMA DrainedStays ==
  ASSUME LifecycleTypeOK, Next, ~retried', Drained
  PROVE  Drained'
<1>1. \A t \in Task : row[t].status \in Terminal /\ row[t] \in Row
  BY DEF Drained, LifecycleTypeOK, QueueTypeOK
<1>2. ASSUME NEW r \in Reader,
             PollRun(r) \/ PollCounts(r) \/ PollWrite(r) \/ StartReader(r) \/ RetryErrors(r)
      PROVE  Drained'
  <2>1. ~RetryErrors(r)
    BY DEF RetryErrors
  <2> QED
    BY <1>2, <2>1, ReaderKeepsRows DEF Drained
<1>3. ASSUME NEW t \in Task
      PROVE  ~Lease(t) /\ ~EndLease(t) /\ ~Renew(t)
  BY <1>1 DEF Lease, EndLease, Renew, Claim, Claimable, Expired, HeartbeatTaskLease, Owns, Terminal
<1>4. CASE Pause \/ Resume
  BY <1>4 DEF Pause, Resume, SetRunControlState, Drained
<1>5. CASE Cancel
  <2>1. PICK lag \in Lag : CancelRunTasks(lag)
    BY <1>5 DEF Cancel
  <2>2. \A t \in Task : ~(row[t].status = "queued" \/ Expired(t, lag))
    BY <1>1 DEF Expired, Terminal
  <2>3. \A t \in Task : row'[t] = row[t]
    BY <2>1, <2>2 DEF CancelRunTasks
  <2> QED
    BY <2>3, <1>1 DEF Drained
<1>6. CASE Time
  <2>1. \A t \in Task : row'[t].status = row[t].status
    BY <1>6, <1>1 DEF Time, Tick, Row
  <2> QED
    BY <2>1, <1>1 DEF Drained
<1> QED
  BY <1>2, <1>3, <1>4, <1>5, <1>6 DEF Next

(* What is derived from the counts. *)
LEMMA DerivedRight ==
  ASSUME SomeTask, NEW c \in ControlState
  PROVE  /\ DeriveEffectiveStatus(c) \in Finished => Drained
         /\ c \in {"cancel_requested", "canceled"} /\ Drained
              => DeriveEffectiveStatus(c) = "canceled"
BY DEF SomeTask, DeriveEffectiveStatus, Finished, ControlState

LEMMA NothingOpen ==
  ASSUME LifecycleTypeOK, InStatus("queued") = {}, InStatus("running") = {}
  PROVE  Drained
BY DEF InStatus, Drained, Terminal, LifecycleTypeOK, QueueTypeOK, Row, TaskStatus

------------------------------------------------------------------------------
(* The steps of the callers. *)

LEMMA OtherAnswersKept ==
  ASSUME LifecycleTypeOK, Next, ~retried', NEW q \in Reader,
         AnswerRight(poll[q]), poll'[q] = poll[q]
  PROVE  AnswerRight(poll[q])'
BY DrainedStays DEF AnswerRight, Persisted

LEMMA OtherWritersKept ==
  ASSUME NEW q \in Reader, WillWrite(poll[q]), poll'[q] = poll[q]
  PROVE  WillWrite(poll[q])'
BY DEF WillWrite

LEMMA PollRunRight ==
  ASSUME LifecycleTypeOK, Next, NEW r \in Reader, PollRun(r), ~retried',
         ColumnsRight, \A q \in Reader : AnswerRight(poll[q])
  PROVE  ColumnsRight' /\ \A q \in Reader : AnswerRight(poll[q])'
<1> DEFINE new == [poll[r] EXCEPT !.at = "counting", !.was = status, !.control = control]
<1>1. /\ UNCHANGED <<row, control, locked, status, intent, retried>>
      /\ poll' = [poll EXCEPT ![r] = new]
  BY DEF PollRun
<1>2. new.at = "counting" /\ new.was = status /\ new.control = control
  BY DEF LifecycleTypeOK, Poll
<1> HIDE DEF new
<1>3. poll'[r] = new /\ \A q \in Reader : q # r => poll'[q] = poll[q]
  BY <1>1 DEF LifecycleTypeOK
<1>4. Drained' = Drained
  BY <1>1 DEF Drained
<1>5. ASSUME NEW q \in Reader
      PROVE  AnswerRight(poll[q])'
  <2>1. CASE q = r
    BY <2>1, <1>2, <1>3, <1>4 DEF AnswerRight, ColumnsRight
  <2>2. CASE q # r
    BY <2>2, <1>3, OtherAnswersKept
  <2> QED
    BY <2>1, <2>2
<1>6. ASSUME status' \notin Finished
      PROVE  \E q \in Reader : WillWrite(poll[q])'
  <2>1. WillWrite(poll[r])'
    BY <1>1, <1>2, <1>3, <1>6 DEF WillWrite
  <2> QED
    BY <2>1
<1> QED
  BY <1>1, <1>4, <1>5, <1>6 DEF ColumnsRight

LEMMA PollCountsRight ==
  ASSUME SomeTask, LifecycleTypeOK, Next, NEW r \in Reader, PollCounts(r), ~retried',
         ColumnsRight, \A q \in Reader : AnswerRight(poll[q])
  PROVE  ColumnsRight' /\ \A q \in Reader : AnswerRight(poll[q])'
<1> DEFINE c == poll[r].control
           new == [poll[r] EXCEPT !.at = "writing", !.effective = DeriveEffectiveStatus(c),
                                  !.queued = InStatus("queued") # {},
                                  !.running = InStatus("running") # {}]
<1>1. /\ UNCHANGED <<row, control, locked, status, intent, retried>>
      /\ poll[r].at = "counting"
      /\ poll' = [poll EXCEPT ![r] = new]
  BY DEF PollCounts
<1>2. /\ new.at = "writing" /\ new.was = poll[r].was /\ new.control = c
      /\ new.effective = DeriveEffectiveStatus(c)
      /\ new.queued = (InStatus("queued") # {})
      /\ new.running = (InStatus("running") # {})
  BY DEF LifecycleTypeOK, Poll
<1>3. c \in ControlState
  BY DEF LifecycleTypeOK, Poll
<1>4. /\ c = "canceled" => Drained
      /\ poll[r].was \in Finished => Drained
  BY <1>1 DEF AnswerRight
<1> HIDE DEF new
<1>5. /\ new.effective \in Finished => Drained
      /\ Persisted(new) = "canceled" => Drained /\ new.effective = "canceled"
  BY <1>2, <1>3, <1>4, DerivedRight, NothingOpen DEF Persisted
<1>6. poll'[r] = new /\ \A q \in Reader : q # r => poll'[q] = poll[q]
  BY <1>1 DEF LifecycleTypeOK
<1>7. Drained' = Drained
  BY <1>1 DEF Drained
<1>8. ASSUME NEW q \in Reader
      PROVE  AnswerRight(poll[q])'
  <2>1. CASE q = r
    BY <2>1, <1>2, <1>4, <1>5, <1>6, <1>7 DEF AnswerRight, Persisted
  <2>2. CASE q # r
    BY <2>2, <1>6, OtherAnswersKept
  <2> QED
    BY <2>1, <2>2
<1>9. ASSUME NEW q \in Reader, WillWrite(poll[q])
      PROVE  WillWrite(poll[q])'
  BY <1>1, <1>2, <1>6, <1>9 DEF WillWrite
<1> QED
  BY <1>1, <1>7, <1>8, <1>9 DEF ColumnsRight

LEMMA PollWriteRight ==
  ASSUME LifecycleTypeOK, Next, NEW r \in Reader, PollWrite(r), ~retried',
         ColumnsRight, \A q \in Reader : AnswerRight(poll[q])
  PROVE  ColumnsRight' /\ \A q \in Reader : AnswerRight(poll[q])'
<1> DEFINE old == poll[r]
<1>1. /\ UNCHANGED <<row, locked, intent, retried>>
      /\ old.at = "writing"
      /\ \/ status' = old.effective /\ control' = Persisted(old)
         \/ UNCHANGED <<status, control>> /\ old.was = old.effective
  BY DEF PollWrite
<1>2. PICK at \in {"idle", "gone", "retrying"} :
        /\ at = "gone" => old.effective \in Finished
        /\ poll' = [poll EXCEPT ![r] = [IdlePoll EXCEPT !.at = at]]
  BY DEF PollWrite, Answered
<1>3. /\ poll'[r].at = at
      /\ \A q \in Reader : q # r => poll'[q] = poll[q]
  BY <1>2 DEF LifecycleTypeOK, IdlePoll
<1>4. Drained' = Drained
  BY <1>1 DEF Drained
<1>5. /\ old.effective \in Finished => Drained
      /\ Persisted(old) = "canceled" => Drained /\ old.effective = "canceled"
  BY <1>1 DEF AnswerRight
<1>6. ASSUME NEW q \in Reader
      PROVE  AnswerRight(poll[q])'
  <2>1. CASE q = r
    BY <2>1, <1>3 DEF AnswerRight
  <2>2. CASE q # r
    BY <2>2, <1>3, OtherAnswersKept
  <2> QED
    BY <2>1, <2>2
<1>7. old.effective \notin Finished => WillWrite(poll[r])'
  BY <1>2, <1>3 DEF WillWrite
<1>8. /\ (control = "canceled")' => Drained' /\ (status = "canceled")'
      /\ (status \in Finished)' => Drained'
  BY <1>1, <1>4, <1>5 DEF ColumnsRight
<1>9. ASSUME status' \notin Finished
      PROVE  \E q \in Reader : WillWrite(poll[q])'
  <2>1. CASE status' = old.effective
    BY <2>1, <1>7, <1>9
  <2>2. CASE status' # old.effective
    <3>1. UNCHANGED status /\ old.was = old.effective
      BY <2>2, <1>1
    <3>2. PICK q \in Reader : WillWrite(poll[q])
      BY <3>1, <1>9 DEF ColumnsRight
    <3>3. CASE q = r
      BY <3>3, <3>1, <3>2, <1>1, <1>7 DEF WillWrite
    <3>4. CASE q # r
      BY <3>4, <3>2, <1>3, OtherWritersKept
    <3> QED
      BY <3>3, <3>4
  <2> QED
    BY <2>1, <2>2
<1> QED
  BY <1>6, <1>8, <1>9 DEF ColumnsRight

LEMMA StartRight ==
  ASSUME LifecycleTypeOK, Next, NEW r \in Reader, StartReader(r), ~retried',
         ColumnsRight, \A q \in Reader : AnswerRight(poll[q])
  PROVE  ColumnsRight' /\ \A q \in Reader : AnswerRight(poll[q])'
<1>1. /\ UNCHANGED <<row, control, locked, status, intent, retried>>
      /\ poll'[r].at = "idle"
      /\ \A q \in Reader : q # r => poll'[q] = poll[q]
  BY DEF StartReader, LifecycleTypeOK, IdlePoll
<1>2. ASSUME NEW q \in Reader
      PROVE  AnswerRight(poll[q])'
  <2>1. CASE q = r
    BY <2>1, <1>1 DEF AnswerRight
  <2>2. CASE q # r
    BY <2>2, <1>1, OtherAnswersKept
  <2> QED
    BY <2>1, <2>2
<1>3. WillWrite(poll[r])'
  BY <1>1 DEF WillWrite
<1>4. Drained' = Drained
  BY <1>1 DEF Drained
<1> QED
  BY <1>1, <1>2, <1>3, <1>4 DEF ColumnsRight

------------------------------------------------------------------------------
(* The steps of everybody else. *)

LEMMA OthersRight ==
  ASSUME LifecycleTypeOK, Next, ~retried', UNCHANGED poll,
         \/ \E t \in Task : Lease(t) \/ EndLease(t) \/ Renew(t)
         \/ Pause \/ Resume \/ Cancel \/ Time,
         ColumnsRight, \A q \in Reader : AnswerRight(poll[q])
  PROVE  ColumnsRight' /\ \A q \in Reader : AnswerRight(poll[q])'
<1>1. ASSUME NEW q \in Reader
      PROVE  AnswerRight(poll[q])'
  BY OtherAnswersKept
<1>2. (\E q \in Reader : WillWrite(poll[q])) => \E q \in Reader : WillWrite(poll[q])'
  BY OtherWritersKept
<1>3. Drained => Drained'
  BY DrainedStays
<1>4. ASSUME NEW t \in Task, Lease(t)
      PROVE  ColumnsRight'
  <2>1. ~Drained /\ UNCHANGED control /\ status' = "running" /\ control = "active"
    BY <1>4 DEF Lease, Claim, Claimable, Expired, Drained, Terminal
  <2> QED
    BY <2>1, <1>2 DEF ColumnsRight, Finished
<1>5. ASSUME NEW t \in Task, EndLease(t) \/ Renew(t)
      PROVE  UNCHANGED <<status, control>>
  BY <1>5 DEF EndLease, Renew, Release, HeartbeatTaskLease
<1>6. CASE UNCHANGED status /\ (UNCHANGED control \/ control' # "canceled")
  BY <1>1, <1>2, <1>3, <1>6 DEF ColumnsRight
<1>7. Pause \/ Resume \/ Cancel \/ Time
        => UNCHANGED status /\ (UNCHANGED control \/ control' # "canceled")
  BY DEF Pause, Resume, Cancel, Time, SetRunControlState, CancelRunTasks, Tick
<1> QED
  BY <1>1, <1>4, <1>5, <1>6, <1>7

LEMMA LifecycleStep ==
  ASSUME SomeTask, LifecycleTypeOK, LifecycleInv, [Next]_vars
  PROVE  LifecycleInv'
<1> SUFFICES ASSUME ~retried'
             PROVE  ColumnsRight' /\ \A q \in Reader : AnswerRight(poll[q])'
  BY DEF LifecycleInv
<1>1. CASE UNCHANGED vars
  <2>1. ~retried /\ UNCHANGED <<row, control, status, poll>>
    BY <1>1 DEF vars
  <2>2. Drained' = Drained
    BY <2>1 DEF Drained
  <2>3. \A q \in Reader : AnswerRight(poll[q]) => AnswerRight(poll[q])'
    BY <2>1, <2>2 DEF AnswerRight, Persisted
  <2>4. \A q \in Reader : WillWrite(poll[q]) => WillWrite(poll[q])'
    BY <2>1 DEF WillWrite
  <2> QED
    BY <2>1, <2>2, <2>3, <2>4 DEF ColumnsRight, LifecycleInv
<1>2. CASE Next
  <2>1. ASSUME NEW r \in Reader, RetryErrors(r)
        PROVE  FALSE
    BY <2>1 DEF RetryErrors
  <2>2. ASSUME NEW r \in Reader,
               PollRun(r) \/ PollCounts(r) \/ PollWrite(r) \/ StartReader(r)
        PROVE  ColumnsRight' /\ \A q \in Reader : AnswerRight(poll[q])'
    <3>1. ColumnsRight /\ \A q \in Reader : AnswerRight(poll[q])
      BY <2>2, ReaderKeepsRows DEF LifecycleInv
    <3> QED
      BY <1>2, <2>2, <3>1, PollRunRight, PollCountsRight, PollWriteRight, StartRight
  <2>3. CASE \/ \E t \in Task : Lease(t) \/ EndLease(t) \/ Renew(t)
             \/ Pause \/ Resume \/ Cancel \/ Time
    <3>1. UNCHANGED <<poll, retried>>
      BY <2>3 DEF Lease, EndLease, Renew, Pause, Resume, Cancel, Time
    <3>2. ColumnsRight /\ \A q \in Reader : AnswerRight(poll[q])
      BY <3>1 DEF LifecycleInv
    <3> QED
      BY <1>2, <2>3, <3>1, <3>2, OthersRight
  <2> QED
    BY <1>2, <2>1, <2>2, <2>3 DEF Next
<1> QED
  BY <1>1, <1>2

LEMMA LifecycleStart == SomeReader /\ Init => LifecycleInv
BY DEF SomeReader, Init, QueueInit, LifecycleInv, ColumnsRight, AnswerRight, WillWrite,
       IdlePoll, Finished

LEMMA LifecycleAlways ==
  ASSUME SomeTask, SomeReader
  PROVE  Spec => [](LifecycleTypeOK /\ LifecycleInv)
<1>1. Spec => []LifecycleTypeOK
  BY LifecycleTyped
<1>2. Init => LifecycleInv
  BY LifecycleStart
<1>3. LifecycleTypeOK /\ LifecycleInv /\ [Next]_vars => LifecycleInv'
  BY LifecycleStep
<1> QED
  BY <1>1, <1>2, <1>3, PTL DEF Spec

(* A confirmed cancel is final until retry-errors is used: no call of       *)
(* run_status, however old what it read, writes "canceled" over a run that  *)
(* has open tasks, or leaves another status beside it.                      *)
THEOREM CanceledAlways ==
  ASSUME SomeTask, SomeReader
  PROVE  Spec => []CanceledMeansDrained
<1>1. LifecycleInv => CanceledMeansDrained
  BY DEF LifecycleInv, ColumnsRight, CanceledMeansDrained
<1> QED
  BY <1>1, LifecycleAlways, PTL

(* When the last waiting caller has left, the status it leaves is final:    *)
(* whoever wrote an unfinished status asks again.                           *)
THEOREM LastStatusAlways ==
  ASSUME SomeTask, SomeReader
  PROVE  Spec => []LastStatusFinal
<1>1. LifecycleInv => LastStatusFinal
  BY DEF LifecycleInv, ColumnsRight, LastStatusFinal, WillWrite
<1> QED
  BY <1>1, LifecycleAlways, PTL
==============================================================================
