------------------------ MODULE SessionWorkers_proofs ------------------------
(***************************************************************************)
(* Theorems about SessionWorkers for any number of tasks, workers and      *)
(* sessions and for every set of configurations.                           *)
(***************************************************************************)
EXTENDS SessionWorkers, TaskQueue_proofs, SequenceTheorems, FiniteSetTheorems

Idle == {"top", "gone"}

(* The shape of a worker's claim p and session h.                           *)
Shape(p, h) ==
  /\ IF p.phase \in Idle THEN p.task = NoTask /\ p.token = NoToken
                         ELSE p.task \in Task /\ p.token \in Token
  /\ p.phase \in {"turn", "promoted", "limited"} => h.id # 0

TypeInv == SessionTypeOK /\ \A w \in Worker : Shape(worker[w], held[w])

------------------------------------------------------------------------------
(* Types. *)

(* A step of one worker is typed if what it holds afterwards is.            *)
LEMMA OneWorkerTyped ==
  ASSUME TypeInv, NEW w \in Worker, NEW p \in WorkerState, NEW h \in SessionState,
         worker' = [worker EXCEPT ![w] = p], held' = [held EXCEPT ![w] = h], Shape(p, h),
         session' \in Seq(SessionRow), Len(session) <= Len(session'),
         Len(session') <= MaxSessions, h.id <= Len(session'),
         QueueTypeOK', link' \in [Task -> Turn],
         final' \in [Task -> [token : Token \cup {NoToken}, turn : Turn]],
         config' = config, throttled' \in BOOLEAN,
         abandoned' \subseteq 1..Len(session'), events' \in 0..MaxEvents
  PROVE  TypeInv'
<1>1. worker' \in [Worker -> WorkerState] /\ held' \in [Worker -> SessionState]
  BY DEF TypeInv, SessionTypeOK
<1>2. /\ worker'[w] = p /\ held'[w] = h
      /\ \A v \in Worker : v # w => worker'[v] = worker[v] /\ held'[v] = held[v]
  BY DEF TypeInv, SessionTypeOK
<1>3. \A v \in Worker : held'[v].id <= Len(session')
  <2>1. Len(session) \in Nat /\ Len(session') \in Nat
    BY LenProperties DEF TypeInv, SessionTypeOK
  <2>2. \A v \in Worker : held[v].id \in Int /\ held[v].id <= Len(session)
    BY DEF TypeInv, SessionTypeOK, SessionState
  <2> QED
    BY <1>2, <2>1, <2>2
<1>4. \A v \in Worker : Shape(worker'[v], held'[v])
  BY <1>2 DEF TypeInv
<1>5. \A v \in Worker : Shape(worker[v], held[v])'
  BY <1>4 DEF Shape
<1> QED
  BY <1>1, <1>3, <1>5 DEF TypeInv, SessionTypeOK

LEMMA SameTypes ==
  ASSUME TypeInv
  PROVE  /\ UNCHANGED <<row, control, locked>> => QueueTypeOK'
         /\ UNCHANGED session => session' \in Seq(SessionRow) /\ Len(session') <= MaxSessions
                                 /\ Len(session) <= Len(session')
                                 /\ abandoned \subseteq 1..Len(session')
         /\ UNCHANGED link => link' \in [Task -> Turn]
         /\ UNCHANGED final => final' \in [Task -> [token : Token \cup {NoToken}, turn : Turn]]
         /\ UNCHANGED throttled => throttled' \in BOOLEAN
         /\ UNCHANGED events => events' \in 0..MaxEvents
         /\ Event => events' \in 0..MaxEvents /\ config' = config
<1>1. Len(session) \in Nat
  BY LenProperties DEF TypeInv, SessionTypeOK
<1>2. Event => events' \in 0..MaxEvents /\ config' = config
  BY SessionAssumption DEF Event, TypeInv, SessionTypeOK
<1> QED
  BY <1>1, <1>2 DEF TypeInv, SessionTypeOK, QueueTypeOK

LEMMA Members ==
  ASSUME TypeInv, NEW w \in Worker
  PROVE  /\ worker[w] \in WorkerState /\ held[w] \in SessionState
         /\ worker[w].phase \notin Idle => worker[w].task \in Task /\ worker[w].token \in Token
         /\ held[w].id <= Len(session) /\ Len(session) \in Nat /\ held[w].id \in Nat
         /\ HasSession(w) => held[w].id \in 1..Len(session)
         /\ NoSession \in SessionState /\ NoSession.id = 0
         /\ held = [held EXCEPT ![w] = held[w]]
<1>1. Len(session) \in Nat
  BY LenProperties DEF TypeInv, SessionTypeOK
<1>2. /\ worker[w] \in WorkerState /\ held[w] \in SessionState /\ held[w].id <= Len(session)
      /\ worker[w].phase \notin Idle => worker[w].task \in Task /\ worker[w].token \in Token
      /\ held = [held EXCEPT ![w] = held[w]]
  BY DEF TypeInv, SessionTypeOK, Shape
<1>3. held[w].id \in 0..MaxSessions
  BY <1>2 DEF SessionState
<1>4. NoSession \in SessionState /\ NoSession.id = 0
  BY SessionAssumption DEF NoSession, SessionState
<1> QED
  BY <1>1, <1>2, <1>3, <1>4, SessionAssumption DEF HasSession

LEMMA MovesTyped ==
  ASSUME TypeInv, NEW w \in Worker
  PROVE  /\ \A p \in Idle : Holding(p) \in WorkerState /\ Holding(p).phase = p
                            /\ Holding(p).task = NoTask /\ Holding(p).token = NoToken
         /\ \A p \in Phase \ Idle :
              LET q == [worker[w] EXCEPT !.phase = p]
              IN worker[w].phase \notin Idle =>
                   /\ q \in WorkerState /\ q.phase = p
                   /\ q.task = worker[w].task /\ q.token = worker[w].token
                   /\ q.task \in Task /\ q.token \in Token
<1>1. \A p \in Idle : Holding(p) \in WorkerState /\ Holding(p).phase = p
                      /\ Holding(p).task = NoTask /\ Holding(p).token = NoToken
  BY DEF Holding, Idle, Phase, WorkerState
<1> QED
  BY <1>1, Members DEF WorkerState

LEMMA RowUpdated ==
  ASSUME TypeInv, NEW i \in 1..Len(session), NEW r \in SessionRow
  PROVE  LET s == [session EXCEPT ![i] = r]
         IN /\ s \in Seq(SessionRow) /\ Len(s) = Len(session) /\ s[i] = r
            /\ \A j \in 1..Len(session) : j # i => s[j] = session[j]
<1>1. session \in Seq(SessionRow)
  BY DEF TypeInv, SessionTypeOK
<1> QED
  BY <1>1, ExceptSeq

LEMMA ReleaseTyped ==
  ASSUME TypeInv, NEW w \in Worker, NEW s \in TaskStatus, worker[w].phase \notin Idle,
         Release(worker[w].task, worker[w].token, s)
  PROVE  QueueTypeOK'
BY Members, ReleaseType DEF TypeInv, SessionTypeOK

LEMMA EndTyped ==
  ASSUME TypeInv, NEW w \in Worker,
         PreflightError(w) \/ GiveUpTask(w) \/ CancelAfterFailure(w) \/ Requeue(w)
  PROVE  TypeInv'
<1>1. /\ worker[w].phase \notin Idle
      /\ worker' = [worker EXCEPT ![w] = Holding("top")]
      /\ UNCHANGED <<held, session, link, final, throttled, config, abandoned, events>>
  BY DEF PreflightError, GiveUpTask, CancelAfterFailure, Requeue, At, Handling, LoopTop,
         NoEvent, Idle
<1>2. PICK s \in TaskStatus : Release(worker[w].task, worker[w].token, s)
  BY DEF PreflightError, GiveUpTask, CancelAfterFailure, Requeue, MarkTaskError,
         MarkTaskCanceled, RequeueTask, TaskStatus
<1>3. QueueTypeOK'
  BY <1>1, <1>2, ReleaseTyped
<1>4. Shape(Holding("top"), held[w])
  BY MovesTyped DEF Shape, Idle
<1>5. held' = [held EXCEPT ![w] = held[w]]
  BY <1>1, Members
<1> QED
  BY <1>1, <1>3, <1>4, <1>5, Members, MovesTyped, SameTypes, OneWorkerTyped DEF Idle

LEMMA CloseTypes ==
  ASSUME TypeInv, NEW w \in Worker, NEW status \in {"finished", "failed", "rate_limited"},
         HasSession(w), Close(w, status)
  PROVE  /\ session' \in Seq(SessionRow) /\ Len(session') = Len(session)
         /\ session'[held[w].id].status = status /\ session'[held[w].id].count = held[w].count
         /\ \A s \in 1..Len(session) : s # held[w].id => session'[s] = session[s]
         /\ held' = [held EXCEPT ![w] = NoSession]
<1>1. held[w].id \in 1..Len(session)
  BY Members
<1>2. [status |-> status, count |-> held[w].count] \in SessionRow
  BY Members DEF SessionRow, SessionState
<1> QED
  BY <1>1, <1>2, RowUpdated DEF Close

LEMMA CloseTyped ==
  ASSUME TypeInv, NEW w \in Worker,
         NothingToLease(w) \/ RollOver(w) \/ CloseFailed(w) \/ CloseRateLimited(w)
  PROVE  TypeInv'
<1>1. /\ HasSession(w)
      /\ \E status \in {"finished", "failed", "rate_limited"} : Close(w, status)
      /\ UNCHANGED <<queueVars, link, final, throttled, config, abandoned, events>>
  BY DEF NothingToLease, RollOver, CloseFailed, CloseRateLimited, Closing, At, NoEvent,
         HasSession, TypeInv, Shape
<1>2. /\ session' \in Seq(SessionRow) /\ Len(session') = Len(session)
      /\ held' = [held EXCEPT ![w] = NoSession]
  BY <1>1, CloseTypes
<1>3. \E p \in WorkerState : worker' = [worker EXCEPT ![w] = p] /\ Shape(p, NoSession)
  <2>1. CASE CloseRateLimited(w)
    <3>1. PICK p \in Idle : worker' = [worker EXCEPT ![w] = Holding(p)]
      BY <2>1 DEF CloseRateLimited, Idle
    <3> QED
      BY <3>1, MovesTyped DEF Shape, Idle
  <2>2. CASE NothingToLease(w) \/ RollOver(w) \/ CloseFailed(w)
    <3>1. worker' = [worker EXCEPT ![w] = worker[w]]
      BY <2>2 DEF NothingToLease, RollOver, CloseFailed, TypeInv, SessionTypeOK
    <3>2. worker[w].phase \notin {"turn", "promoted", "limited"}
      BY <2>2 DEF NothingToLease, RollOver, CloseFailed, At, Handling
    <3> QED
      BY <3>1, <3>2, Members DEF TypeInv, Shape
  <2> QED
    BY <2>1, <2>2
<1>4. Len(session') <= MaxSessions /\ Len(session) <= Len(session') /\ 0 <= Len(session')
      /\ abandoned' \subseteq 1..Len(session')
  BY <1>1, <1>2, Members DEF TypeInv, SessionTypeOK
<1> QED
  BY <1>1, <1>2, <1>3, <1>4, Members, SameTypes, OneWorkerTyped DEF queueVars

LEMMA FreshToken ==
  ASSUME NEW t \in Task, Fresh(t) # {}
  PROVE  LET tok == CHOOSE k \in Fresh(t) : TRUE
         IN /\ tok \in Token /\ row[t].token # tok
            /\ \A w \in Worker : ~(worker[w].task = t /\ worker[w].token = tok)
BY DEF Fresh

(* A claim comes with a token that no other claim on the task has.          *)
LEMMA LeaseFacts ==
  ASSUME TypeInv, NEW w \in Worker, LeaseOneTask(w)
  PROVE  \E t \in Task, tok \in Token, lag \in Lag :
           /\ Claim(t, tok, lag)
           /\ row[t].token # tok
           /\ \A v \in Worker : ~(worker[v].task = t /\ worker[v].token = tok)
           /\ worker' = [worker EXCEPT ![w] =
                           [phase |-> "claimed", task |-> t, token |-> tok,
                            execs |-> row[t].execs, limited |-> row[t].limited]]
<1>1. PICK t \in Task, lag \in Lag :
        /\ Fresh(t) # {}
        /\ LET tok == CHOOSE k \in Fresh(t) : TRUE
           IN /\ Claim(t, tok, lag)
              /\ worker' = [worker EXCEPT ![w] =
                              [phase |-> "claimed", task |-> t, token |-> tok,
                               execs |-> row[t].execs, limited |-> row[t].limited]]
  BY DEF LeaseOneTask
<1> QED
  BY <1>1, FreshToken

LEMMA LeaseTyped ==
  ASSUME TypeInv, NEW w \in Worker, LeaseOneTask(w)
  PROVE  TypeInv'
<1>2. PICK t \in Task, tok \in Token, lag \in Lag :
        /\ Claim(t, tok, lag)
        /\ worker' = [worker EXCEPT ![w] =
                        [phase |-> "claimed", task |-> t, token |-> tok,
                         execs |-> row[t].execs, limited |-> row[t].limited]]
  BY LeaseFacts
<1>3. QueueTypeOK'
  BY <1>2, ClaimType DEF TypeInv, SessionTypeOK
<1> DEFINE p == [phase |-> "claimed", task |-> t, token |-> tok,
                 execs |-> row[t].execs, limited |-> row[t].limited]
<1>4. p \in WorkerState /\ Shape(p, held[w])
  BY DEF TypeInv, SessionTypeOK, QueueTypeOK, Row, WorkerState, Phase, Shape, Idle
<1>5. worker' = [worker EXCEPT ![w] = p]
  BY <1>2
<1>6. UNCHANGED <<held, session, link, final, throttled, config, abandoned, events>>
  BY DEF LeaseOneTask, NoEvent
<1> HIDE DEF p
<1> QED
  BY <1>3, <1>4, <1>5, <1>6, Members, SameTypes, OneWorkerTyped

LEMMA StartTyped ==
  ASSUME TypeInv, NEW w \in Worker, StartExecution(w)
  PROVE  TypeInv'
<1>1. /\ worker[w].phase = "claimed"
      /\ UNCHANGED <<held, session, link, final, throttled, config, abandoned, events>>
  BY DEF StartExecution, At, NoEvent
<1>2. worker[w].task \in Task /\ worker[w].token \in Token
  BY <1>1, Members DEF Idle
<1>3. CASE LoopTop(w) /\ UNCHANGED queueVars
  <2>1. Shape(Holding("top"), held[w])
    BY MovesTyped DEF Shape, Idle
  <2> QED
    BY <1>1, <1>3, <2>1, Members, MovesTyped, SameTypes, OneWorkerTyped
    DEF LoopTop, queueVars, Idle
<1>4. CASE /\ BeginTaskExecution(worker[w].task, worker[w].token)
           /\ worker' = [worker EXCEPT ![w].phase = "begun",
                                       ![w].execs = row[worker[w].task].execs + 1]
  <2> DEFINE p == [worker[w] EXCEPT !.phase = "begun",
                                    !.execs = row[worker[w].task].execs + 1]
  <2>1. QueueTypeOK'
    BY <1>2, <1>4, BeginType DEF TypeInv, SessionTypeOK
  <2>2. row[worker[w].task].execs \in Nat
    BY <1>2 DEF TypeInv, SessionTypeOK, QueueTypeOK, Row
  <2> DEFINE n == row[worker[w].task].execs + 1
  <2>a. n \in Nat
    BY <2>2
  <2> HIDE DEF n
  <2>b. worker[w] \in WorkerState
    BY Members
  <2>3. p \in WorkerState /\ Shape(p, held[w])
    <3>1. [worker[w] EXCEPT !.phase = "begun", !.execs = n] \in WorkerState
      BY <2>a, <2>b DEF WorkerState, Phase
    <3>2. /\ [worker[w] EXCEPT !.phase = "begun", !.execs = n].phase = "begun"
          /\ [worker[w] EXCEPT !.phase = "begun", !.execs = n].task = worker[w].task
          /\ [worker[w] EXCEPT !.phase = "begun", !.execs = n].token = worker[w].token
      BY <2>b DEF WorkerState
    <3> QED
      BY <1>2, <3>1, <3>2 DEF Shape, Idle, n
  <2>4. worker' = [worker EXCEPT ![w] = p]
    BY <1>4
  <2> HIDE DEF p
  <2> QED
    BY <1>1, <2>1, <2>3, <2>4, Members, SameTypes, OneWorkerTyped
<1> QED
  BY <1>3, <1>4 DEF StartExecution

LEMMA OpenTyped ==
  ASSUME TypeInv, NEW w \in Worker, OpenSession(w)
  PROVE  /\ TypeInv'
         /\ Len(session') = Len(session) + 1
         /\ session'[Len(session) + 1].status = "running"
         /\ \A s \in 1..Len(session) : session'[s] = session[s]
<1> DEFINE r == [status |-> "running", count |-> 0]
<1>0. \E o \in BOOLEAN : o = (worker[w].task \in OtherDir)
  <2>1. CASE worker[w].task \in OtherDir
    BY <2>1, (worker[w].task \in OtherDir) = TRUE, Zenon
  <2>2. CASE worker[w].task \notin OtherDir
    BY <2>2, (worker[w].task \in OtherDir) = FALSE, Zenon
  <2> QED
    BY <2>1, <2>2
<1>1. PICK o \in BOOLEAN :
        /\ worker[w].phase = "begun" /\ Len(session) < MaxSessions
        /\ session' = Append(session, r)
        /\ held' = [held EXCEPT ![w] = [NoSession EXCEPT !.id = Len(session) + 1, !.other = o]]
        /\ UNCHANGED <<queueVars, worker, link, final, throttled, config, abandoned, events>>
  BY <1>0 DEF OpenSession, At, NoEvent
<1> DEFINE h == [NoSession EXCEPT !.id = Len(session) + 1, !.other = o]
<1>2. session \in Seq(SessionRow) /\ r \in SessionRow
  BY DEF TypeInv, SessionTypeOK, SessionRow
<1>3. /\ session' \in Seq(SessionRow) /\ Len(session') = Len(session) + 1
      /\ session'[Len(session) + 1] = r
      /\ \A s \in 1..Len(session) : session'[s] = session[s]
  BY <1>1, <1>2, AppendProperties
<1>4. MaxSessions \in Nat /\ Len(session) \in Nat
  BY SessionAssumption, Members
<1>5. h \in SessionState /\ h.id = Len(session) + 1
  <2>1. NoSession \in SessionState
    BY Members
  <2>2. Len(session) + 1 \in 0..MaxSessions
    BY <1>1, <1>4
  <2> QED
    BY <2>1, <2>2 DEF SessionState
<1>6. Shape(worker[w], h) /\ worker' = [worker EXCEPT ![w] = worker[w]]
  BY <1>1 DEF TypeInv, SessionTypeOK, Shape
<1>7. abandoned' \subseteq 1..Len(session')
  BY <1>1, <1>3, <1>4 DEF TypeInv, SessionTypeOK
<1>b. held' = [held EXCEPT ![w] = h]
  BY <1>1
<1> HIDE DEF h
<1>c. Len(session') <= MaxSessions /\ Len(session) <= Len(session') /\ h.id <= Len(session')
  BY <1>1, <1>3, <1>4, <1>5
<1>8. TypeInv'
  BY <1>1, <1>b, <1>c, <1>3, <1>4, <1>5, <1>6, <1>7, Members, SameTypes, OneWorkerTyped DEF queueVars
<1> QED
  BY <1>3, <1>8

(* A busy worker that only changes phase; h is its session afterwards.      *)
LEMMA GotoShape ==
  ASSUME TypeInv, NEW w \in Worker, NEW p \in Phase \ Idle, NEW h, worker[w].phase \notin Idle,
         Goto(w, p), p \in {"turn", "promoted", "limited"} => h.id # 0
  PROVE  \E q \in WorkerState : worker' = [worker EXCEPT ![w] = q] /\ Shape(q, h)
<1> DEFINE q == [worker[w] EXCEPT !.phase = p]
<1>1. q \in WorkerState /\ q.phase = p /\ q.task \in Task /\ q.token \in Token
  BY MovesTyped
<1>2. worker' = [worker EXCEPT ![w] = q]
  BY DEF Goto
<1> HIDE DEF q
<1> QED
  BY <1>1, <1>2 DEF Shape

LEMMA NextTurnType ==
  ASSUME TypeInv, NEW w \in Worker
  PROVE  NextTurn(w) \in Turn
BY Members DEF NextTurn, Turn, SessionState

LEMMA LinkTyped ==
  ASSUME TypeInv, NEW w \in Worker, LinkTask(w)
  PROVE  TypeInv'
<1>1. /\ worker[w].phase = "begun" /\ held[w].id # 0
      /\ UNCHANGED <<queueVars, held, session, final, throttled, config, abandoned, events>>
  BY DEF LinkTask, At, NoEvent, HasSession
<1>2. \E q \in WorkerState : worker' = [worker EXCEPT ![w] = q] /\ Shape(q, held[w])
  <2>1. CASE Goto(w, "turn")
    BY <1>1, <2>1, GotoShape DEF Phase, Idle
  <2>2. CASE LoopTop(w)
    <3>1. Shape(Holding("top"), held[w])
      BY MovesTyped DEF Shape, Idle
    <3> QED
      BY <2>2, <3>1, MovesTyped DEF LoopTop, Idle
  <2> QED
    BY <2>1, <2>2 DEF LinkTask
<1>3. link' \in [Task -> Turn]
  BY NextTurnType DEF LinkTask, TypeInv, SessionTypeOK
<1> QED
  BY <1>1, <1>2, <1>3, Members, SameTypes, OneWorkerTyped DEF queueVars

LEMMA SpoiledType ==
  ASSUME NEW h \in SessionState
  PROVE  Spoiled(h) \in SessionState /\ Spoiled(h).id = h.id /\ Spoiled(h).other = h.other
BY DEF Spoiled, SessionState

LEMMA AdvancedType ==
  ASSUME NEW h \in SessionState
  PROVE  /\ Advanced(h) \in SessionState /\ Advanced(h).id = h.id
         /\ h.thread # "spoiled" => Advanced(h).thread # "spoiled"
<1> DEFINE n == h.count + 1
           th == IF h.thread = "none" THEN "clean" ELSE h.thread
<1>1. /\ n \in Nat /\ th \in {"none", "clean", "spoiled"}
      /\ h.thread # "spoiled" => th # "spoiled"
  BY DEF SessionState
<1>2. Advanced(h) = [h EXCEPT !.count = n, !.thread = th]
  BY DEF Advanced
<1> HIDE DEF n, th
<1> QED
  BY <1>1, <1>2 DEF SessionState

LEMMA TurnTyped ==
  ASSUME TypeInv, NEW w \in Worker, TurnFails(w) \/ TurnRateLimited(w)
  PROVE  TypeInv'
<1>1. /\ worker[w].phase = "turn" /\ held[w].id # 0
      /\ held' = [held EXCEPT ![w] = Spoiled(held[w])]
      /\ UNCHANGED <<session, link, final, config, abandoned>>
  BY DEF TurnFails, TurnRateLimited, At, NoEvent, Event, TypeInv, Shape
<1>2. Spoiled(held[w]) \in SessionState /\ Spoiled(held[w]).id = held[w].id
  BY Members, SpoiledType
<1>3. \E p \in {"failed", "doomed", "unexpected", "limited"} : Goto(w, p)
  BY DEF TurnFails, TurnRateLimited
<1>4. \E q \in WorkerState : worker' = [worker EXCEPT ![w] = q] /\ Shape(q, Spoiled(held[w]))
  BY <1>1, <1>2, <1>3, GotoShape DEF Phase, Idle
<1>5. QueueTypeOK'
  <2>1. CASE TurnFails(w)
    BY <2>1, SameTypes DEF TurnFails, queueVars
  <2>2. CASE TurnRateLimited(w)
    BY <1>1, <2>2, Members, RateLimitType DEF TurnRateLimited, TypeInv, SessionTypeOK, Idle
  <2> QED
    BY <2>1, <2>2
<1>6. throttled' \in BOOLEAN
  <2>1. throttled \in BOOLEAN
    BY DEF TypeInv, SessionTypeOK
  <2>2. CASE TurnFails(w)
    BY <2>1, <2>2 DEF TurnFails
  <2>3. CASE TurnRateLimited(w)
    <3>1. throttled' = (throttled \/ OwnsClaim(w))
      BY <2>3 DEF TurnRateLimited
    <3>2. CASE OwnsClaim(w)
      BY <3>1, <3>2, Zenon
    <3>3. CASE ~OwnsClaim(w)
      BY <2>1, <3>1, <3>3, Zenon
    <3> QED
      BY <3>2, <3>3
  <2> QED
    BY <2>2, <2>3
<1>7. events' \in 0..MaxEvents
  BY SameTypes DEF TurnFails, TurnRateLimited, NoEvent
<1> QED
  BY <1>1, <1>2, <1>4, <1>5, <1>6, <1>7, Members, SameTypes, OneWorkerTyped

LEMMA PublishedType ==
  ASSUME TypeInv, NEW w \in Worker
  PROVE  [final EXCEPT ![worker[w].task] = Published(w)]
           \in [Task -> [token : Token \cup {NoToken}, turn : Turn]]
<1>1. Published(w) \in [token : Token \cup {NoToken}, turn : Turn]
  BY Members, NextTurnType DEF Published, WorkerState
<1> QED
  BY <1>1 DEF TypeInv, SessionTypeOK

LEMMA PromoteTyped ==
  ASSUME TypeInv, NEW w \in Worker, Promote(w) \/ PromoteRaises(w)
  PROVE  TypeInv'
<1>1. /\ worker[w].phase = "turn" /\ held[w].id # 0 /\ worker[w].phase \notin Idle
      /\ UNCHANGED <<session, link, throttled, config, abandoned>>
  BY DEF Promote, PromoteRaises, At, NoEvent, Event, TypeInv, Shape, Idle
<1>2. Advanced(held[w]) \in SessionState /\ Advanced(held[w]).id = held[w].id
  BY Members, AdvancedType
<1>3. final' \in [Task -> [token : Token \cup {NoToken}, turn : Turn]]
  BY PublishedType, SameTypes DEF Promote, PromoteRaises
<1>4. events' \in 0..MaxEvents
  BY SameTypes DEF Promote, PromoteRaises, NoEvent
<1>5. CASE Promote(w) /\ OwnsClaim(w)
  <2>1. QueueTypeOK'
    BY <1>1, <1>5, ReleaseTyped DEF Promote, MarkTaskDone, TaskStatus
  <2>2. \E q \in WorkerState : worker' = [worker EXCEPT ![w] = q] /\ Shape(q, Advanced(held[w]))
    BY <1>1, <1>2, <1>5, GotoShape DEF Promote, Phase, Idle
  <2>3. held' = [held EXCEPT ![w] = Advanced(held[w])]
    BY <1>5 DEF Promote
  <2> QED
    BY <1>1, <1>2, <1>3, <1>4, <2>1, <2>2, <2>3, Members, SameTypes, OneWorkerTyped
<1>6. CASE (Promote(w) /\ ~OwnsClaim(w)) \/ PromoteRaises(w)
  <2>1. UNCHANGED <<queueVars, held>>
    BY <1>6 DEF Promote, PromoteRaises
  <2>2. \E q \in WorkerState : worker' = [worker EXCEPT ![w] = q] /\ Shape(q, held[w])
    <3>1. CASE Promote(w) /\ ~OwnsClaim(w)
      <4>1. Shape(Holding("top"), held[w])
        BY MovesTyped DEF Shape, Idle
      <4> QED
        BY <3>1, <4>1, MovesTyped DEF Promote, LoopTop, Idle
    <3>2. CASE PromoteRaises(w)
      BY <1>1, <3>2, GotoShape DEF PromoteRaises, Phase, Idle
    <3> QED
      BY <1>6, <3>1, <3>2
  <2> QED
    BY <1>1, <1>3, <1>4, <2>1, <2>2, Members, SameTypes, OneWorkerTyped DEF queueVars
<1> QED
  BY <1>5, <1>6

(* The row of a session keeps its status when its count is written.         *)
LEMMA CountTypes ==
  ASSUME TypeInv, NEW w \in Worker, HasSession(w),
         session' = [session EXCEPT ![held[w].id].count = held[w].count]
  PROVE  /\ session' \in Seq(SessionRow) /\ Len(session') = Len(session)
         /\ \A s \in 1..Len(session) : session'[s].status = session[s].status
         /\ \A s \in 1..Len(session) : s # held[w].id => session'[s] = session[s]
<1>1. held[w].count \in Nat
  BY Members DEF SessionState
<1>2. PICK i \in 1..Len(session) : i = held[w].id
  BY Members
<1>3. session[i] \in SessionRow
  BY ElementOfSeq DEF TypeInv, SessionTypeOK
<1>4. PICK r \in SessionRow : r = [session[i] EXCEPT !.count = held[w].count]
  BY <1>1, <1>3 DEF SessionRow
<1>5. r.status = session[i].status
  BY <1>3, <1>4 DEF SessionRow
<1>6. session' = [session EXCEPT ![i] = r]
  BY <1>2, <1>4
<1> DEFINE s == [session EXCEPT ![i] = r]
<1>7. /\ s \in Seq(SessionRow) /\ Len(s) = Len(session) /\ s[i] = r
      /\ \A j \in 1..Len(session) : j # i => s[j] = session[j]
  BY RowUpdated
<1>8. session' = s
  BY <1>6
<1> HIDE DEF s
<1> QED
  BY <1>2, <1>5, <1>7, <1>8

LEMMA UpdateTyped ==
  ASSUME TypeInv, NEW w \in Worker, UpdateSession(w) \/ UpdateRaises(w)
  PROVE  TypeInv'
<1>1. /\ worker[w].phase = "promoted" /\ held[w].id # 0 /\ worker[w].phase \notin Idle
      /\ UNCHANGED <<queueVars, held, link, final, throttled, config, abandoned>>
      /\ session' \in {session, [session EXCEPT ![held[w].id].count = held[w].count]}
  BY DEF UpdateSession, UpdateRaises, At, NoEvent, Event, TypeInv, Shape, Idle
<1>2. session' \in Seq(SessionRow) /\ Len(session') = Len(session)
  BY <1>1, CountTypes, SameTypes DEF HasSession
<1>3. Len(session') <= MaxSessions /\ Len(session) <= Len(session')
      /\ abandoned' \subseteq 1..Len(session') /\ held[w].id <= Len(session')
  BY <1>1, <1>2, Members DEF TypeInv, SessionTypeOK
<1>4. events' \in 0..MaxEvents
  BY SameTypes DEF UpdateSession, UpdateRaises, NoEvent
<1>5. \E q \in WorkerState : worker' = [worker EXCEPT ![w] = q] /\ Shape(q, held[w])
  <2>1. CASE UpdateSession(w)
    <3>1. Shape(Holding("top"), held[w])
      BY MovesTyped DEF Shape, Idle
    <3> QED
      BY <2>1, <3>1, MovesTyped DEF UpdateSession, LoopTop, Idle
  <2>2. CASE UpdateRaises(w)
    BY <1>1, <2>2, GotoShape DEF UpdateRaises, Phase, Idle
  <2> QED
    BY <2>1, <2>2
<1> QED
  BY <1>1, <1>2, <1>3, <1>4, <1>5, Members, SameTypes, OneWorkerTyped DEF queueVars

LEMMA PhaseTyped ==
  ASSUME TypeInv, NEW w \in Worker, Leave(w) \/ ReadControlState(w) \/ Start(w)
  PROVE  TypeInv'
<1>1. UNCHANGED <<queueVars, held, session, link, final, throttled, config, abandoned, events>>
  BY DEF Leave, ReadControlState, Start, NoEvent
<1>2. \E q \in WorkerState : worker' = [worker EXCEPT ![w] = q] /\ Shape(q, held[w])
  <2>1. CASE Leave(w)
    <3> DEFINE q == [worker[w] EXCEPT !.phase = "gone"]
    <3>1. worker[w] \in WorkerState /\ worker[w].task = NoTask /\ worker[w].token = NoToken
      BY <2>1, Members DEF Leave, At, TypeInv, Shape, Idle
    <3>2. q \in WorkerState /\ Shape(q, held[w])
      BY <3>1 DEF WorkerState, Phase, Shape, Idle
    <3>3. worker' = [worker EXCEPT ![w] = q]
      BY <2>1 DEF Leave, Goto
    <3> QED
      BY <3>2, <3>3
  <2>2. CASE ReadControlState(w)
    BY <2>2, GotoShape DEF ReadControlState, At, Phase, Idle
  <2>3. CASE Start(w)
    <3>1. Shape(Holding("top"), held[w])
      BY MovesTyped DEF Shape, Idle
    <3> QED
      BY <2>3, <3>1, MovesTyped DEF Start, LoopTop, Idle
  <2> QED
    BY <2>1, <2>2, <2>3
<1> QED
  BY <1>1, <1>2, Members, SameTypes, OneWorkerTyped DEF queueVars

LEMMA DeathTyped ==
  ASSUME TypeInv, NEW w \in Worker, Escape(w) \/ Crash(w)
  PROVE  TypeInv'
<1>1. /\ UNCHANGED <<queueVars, session, link, throttled, config>>
      /\ held' = [held EXCEPT ![w] = NoSession]
      /\ abandoned' = abandoned \cup ({held[w].id} \ {0})
      /\ events' \in 0..MaxEvents
  BY SameTypes DEF Escape, Crash, Abandon, Event
<1>2. final' \in [Task -> [token : Token \cup {NoToken}, turn : Turn]]
  BY PublishedType, SameTypes DEF Escape, Crash
<1>3. abandoned' \subseteq 1..Len(session')
  BY <1>1, Members DEF TypeInv, SessionTypeOK, HasSession
<1>4. \E q \in WorkerState : worker' = [worker EXCEPT ![w] = q] /\ Shape(q, NoSession)
  <2>1. CASE Escape(w)
    BY <2>1, GotoShape DEF Escape, Phase, Idle
  <2>2. CASE Crash(w)
    <3>1. Shape(Holding("gone"), NoSession)
      BY MovesTyped DEF Shape, Idle
    <3> QED
      BY <2>2, <3>1, MovesTyped DEF Crash, Idle
  <2> QED
    BY <2>1, <2>2
<1>5. 0 <= Len(session')
  BY <1>1, Members
<1> QED
  BY <1>1, <1>2, <1>3, <1>4, <1>5, Members, SameTypes, OneWorkerTyped DEF queueVars

LEMMA EnvironmentTyped ==
  ASSUME TypeInv, Operator \/ Polled \/ Time \/ \E w \in Worker : Heartbeat(w)
  PROVE  TypeInv'
<1>1. /\ UNCHANGED <<worker, held, session, link, final, throttled, config, abandoned>>
      /\ events' \in 0..MaxEvents
  BY SameTypes DEF Operator, Polled, Time, Heartbeat, NoEvent, Event
<1>2. QueueTypeOK'
  <2>1. QueueTypeOK
    BY DEF TypeInv, SessionTypeOK
  <2>2. CASE Operator \/ Polled
    BY <2>1, <2>2, OperatorType DEF Operator, Polled
  <2>3. CASE Time
    BY <2>1, <2>3, TickType DEF Time
  <2>4. ASSUME NEW w \in Worker, Heartbeat(w)
        PROVE  QueueTypeOK'
    <3>1. worker[w].task \in Task /\ worker[w].token \in Token
      BY <2>4 DEF Heartbeat, TypeInv, Shape
    <3> QED
      BY <2>1, <2>4, <3>1, HeartbeatType DEF Heartbeat
  <2> QED
    BY <2>2, <2>3, <2>4
<1> QED
  BY <1>1, <1>2 DEF TypeInv, SessionTypeOK, Shape

LEMMA TypeStep == TypeInv /\ [Next]_vars => TypeInv'
<1> SUFFICES ASSUME TypeInv, [Next]_vars
             PROVE  TypeInv'
  OBVIOUS
<1>1. CASE UNCHANGED vars
  BY <1>1 DEF vars, TypeInv, SessionTypeOK, QueueTypeOK, Shape
<1>2. ASSUME NEW w \in Worker, Work(w) \/ Escape(w) \/ Crash(w) \/ Start(w)
      PROVE  TypeInv'
  BY <1>2, EndTyped, CloseTyped, LeaseTyped, StartTyped, OpenTyped, LinkTyped, TurnTyped,
     PromoteTyped, UpdateTyped, PhaseTyped, DeathTyped DEF Work
<1> QED
  BY <1>1, <1>2, EnvironmentTyped DEF Next

LEMMA TypeInit == Init => TypeInv
<1> SUFFICES ASSUME Init
             PROVE  TypeInv
  OBVIOUS
<1>1. QueueTypeOK
  BY QueueInitType DEF Init
<1>2. Holding("top") \in WorkerState /\ Shape(Holding("top"), NoSession)
  BY DEF Holding, WorkerState, Phase, Shape, Idle
<1>3. NoSession \in SessionState /\ NoTurn \in Turn /\ MaxSessions \in Nat /\ MaxEvents \in Nat
      /\ NoSession.id = 0
  BY SessionAssumption DEF NoSession, SessionState, NoTurn, Turn
<1>4. <<>> \in Seq(SessionRow) /\ Len(<<>>) = 0
  OBVIOUS
<1>5. session \in Seq(SessionRow) /\ Len(session) = 0
  BY <1>4 DEF Init
<1>6. /\ worker \in [Worker -> WorkerState] /\ held \in [Worker -> SessionState]
      /\ link \in [Task -> Turn]
      /\ final \in [Task -> [token : Token \cup {NoToken}, turn : Turn]]
  BY <1>2, <1>3 DEF Init
<1>7. \A w \in Worker : held[w].id <= Len(session) /\ Shape(worker[w], held[w])
  BY <1>2, <1>3, <1>5 DEF Init
<1>8. config \in Configs /\ throttled \in BOOLEAN /\ abandoned \subseteq 1..Len(session)
  BY DEF Init
<1>9. events \in 0..MaxEvents /\ Len(session) <= MaxSessions
  <2>1. events = 0
    BY DEF Init
  <2> QED
    BY <1>3, <1>5, <2>1
<1> QED
  BY <1>1, <1>5, <1>6, <1>7, <1>8, <1>9 DEF TypeInv, SessionTypeOK

LEMMA Typing == Spec => []TypeInv
BY TypeInit, TypeStep, PTL DEF Spec

(* Type correctness of the session loop: whichever claims are lost, turns   *)
(* fail and processes die, workers hold well formed claims and sessions,    *)
(* and nobody holds a session that has no row.                              *)
THEOREM SessionsTyped == Spec => []SessionTypeOK
<1>1. TypeInv => SessionTypeOK
  BY DEF TypeInv
<1> QED
  BY <1>1, Typing, PTL

------------------------------------------------------------------------------
(* Sessions.  What a step does to the rows and to who holds them is one of  *)
(* four things.                                                             *)

(* A conversation belongs to one worker, which has not died with it, and    *)
(* its row is running as long as it belongs to anybody.                     *)
HeldInv ==
  /\ \A s \in 1..Len(session) :
       session[s].status = "running" <=> s \in abandoned \/ \E w \in Worker : held[w].id = s
  /\ \A v, w \in Worker : held[w].id # 0 /\ held[v].id = held[w].id => v = w
  /\ \A w \in Worker : held[w].id \notin abandoned

(* Nobody's session but w's changes hands. *)
OthersHold(w) == \A v \in Worker : v # w => held'[v].id = held[v].id

RowsSame == /\ Len(session') = Len(session)
            /\ \A s \in 1..Len(session) : session'[s].status = session[s].status

SessionsSame == /\ RowsSame /\ UNCHANGED abandoned
                /\ \A w \in Worker : held'[w].id = held[w].id

SessionClosed(w) ==
  /\ held[w].id # 0 /\ held'[w].id = 0 /\ OthersHold(w) /\ UNCHANGED abandoned
  /\ Len(session') = Len(session)
  /\ session'[held[w].id].status # "running"
  /\ \A s \in 1..Len(session) : s # held[w].id => session'[s].status = session[s].status

SessionOpened(w) ==
  /\ held[w].id = 0 /\ held'[w].id = Len(session) + 1 /\ OthersHold(w) /\ UNCHANGED abandoned
  /\ Len(session') = Len(session) + 1
  /\ session'[Len(session) + 1].status = "running"
  /\ \A s \in 1..Len(session) : session'[s].status = session[s].status

SessionAbandoned(w) ==
  /\ held'[w].id = 0 /\ OthersHold(w) /\ RowsSame
  /\ abandoned' = abandoned \cup ({held[w].id} \ {0})

LEMMA SessionsUntouched ==
  ASSUME UNCHANGED <<session, held, abandoned>>
  PROVE  SessionsSame
BY DEF SessionsSame, RowsSame

LEMMA ChangeSession ==
  ASSUME TypeInv, NEW w \in Worker, NEW h, held' = [held EXCEPT ![w] = h]
  PROVE  held'[w] = h /\ OthersHold(w)
BY DEF TypeInv, SessionTypeOK, OthersHold

LEMMA SessionStep ==
  ASSUME TypeInv, [Next]_vars
  PROVE  \/ SessionsSame
         \/ \E w \in Worker : SessionClosed(w) \/ SessionOpened(w) \/ SessionAbandoned(w)
<1>1. ASSUME NEW w \in Worker,
             NothingToLease(w) \/ RollOver(w) \/ CloseFailed(w) \/ CloseRateLimited(w)
      PROVE  SessionClosed(w)
  <2>1. /\ HasSession(w) /\ UNCHANGED abandoned
        /\ \E status \in {"finished", "failed", "rate_limited"} : Close(w, status)
    BY <1>1 DEF NothingToLease, RollOver, CloseFailed, CloseRateLimited, Closing, At, NoEvent,
         HasSession, TypeInv, Shape
  <2>2. PICK status \in {"finished", "failed", "rate_limited"} : Close(w, status)
    BY <2>1
  <2>3. /\ Len(session') = Len(session) /\ session'[held[w].id].status = status
        /\ \A s \in 1..Len(session) : s # held[w].id => session'[s] = session[s]
        /\ held' = [held EXCEPT ![w] = NoSession]
    BY <2>1, <2>2, CloseTypes
  <2>4. held'[w] = NoSession /\ OthersHold(w)
    BY <2>3, ChangeSession
  <2> QED
    BY <2>1, <2>3, <2>4 DEF SessionClosed, HasSession, NoSession
<1>2. ASSUME NEW w \in Worker, OpenSession(w)
      PROVE  SessionOpened(w)
  <2>1. PICK o : held' = [held EXCEPT ![w] =
                           [NoSession EXCEPT !.id = Len(session) + 1, !.other = o]]
    BY <1>2 DEF OpenSession
  <2> DEFINE h == [NoSession EXCEPT !.id = Len(session) + 1, !.other = o]
  <2>a. h.id = Len(session) + 1
    BY Members DEF SessionState
  <2>b. held' = [held EXCEPT ![w] = h]
    BY <2>1
  <2> HIDE DEF h
  <2>2. held'[w].id = Len(session) + 1 /\ OthersHold(w)
    BY <2>a, <2>b, ChangeSession
  <2>3. held[w].id = 0 /\ UNCHANGED abandoned
    BY <1>2 DEF OpenSession, HasSession, NoEvent
  <2> QED
    BY <1>2, <2>2, <2>3, OpenTyped DEF SessionOpened
<1>3. ASSUME NEW w \in Worker, Escape(w) \/ Crash(w)
      PROVE  SessionAbandoned(w)
  <2>1. held'[w] = NoSession /\ OthersHold(w)
    BY <1>3, ChangeSession DEF Escape, Crash, Abandon
  <2> QED
    BY <1>3, <2>1 DEF Escape, Crash, Abandon, SessionAbandoned, RowsSame, NoSession
<1>4. ASSUME NEW w \in Worker, TurnFails(w) \/ TurnRateLimited(w)
      PROVE  SessionsSame
  <2>1. held'[w].id = held[w].id /\ OthersHold(w)
    BY <1>4, ChangeSession, SpoiledType, Members DEF TurnFails, TurnRateLimited
  <2> QED
    BY <1>4, <2>1 DEF TurnFails, TurnRateLimited, NoEvent, OthersHold, SessionsSame, RowsSame
<1>5. ASSUME NEW w \in Worker, Promote(w) \/ PromoteRaises(w)
      PROVE  SessionsSame
  <2>1. UNCHANGED <<session, abandoned>>
    BY <1>5 DEF Promote, PromoteRaises, NoEvent
  <2>2. CASE UNCHANGED held
    BY <2>1, <2>2, SessionsUntouched
  <2>3. CASE held' = [held EXCEPT ![w] = Advanced(held[w])]
    <3>1. held'[w].id = held[w].id /\ OthersHold(w)
      BY <2>3, ChangeSession, AdvancedType, Members
    <3> QED
      BY <2>1, <3>1 DEF OthersHold, SessionsSame, RowsSame
  <2> QED
    BY <1>5, <2>2, <2>3 DEF Promote, PromoteRaises
<1>6. ASSUME NEW w \in Worker, UpdateSession(w) \/ UpdateRaises(w)
      PROVE  SessionsSame
  <2>1. /\ UNCHANGED <<held, abandoned>> /\ HasSession(w)
        /\ session' \in {session, [session EXCEPT ![held[w].id].count = held[w].count]}
    BY <1>6 DEF UpdateSession, UpdateRaises, At, NoEvent, TypeInv, Shape, HasSession
  <2>2. RowsSame
    BY <2>1, CountTypes DEF RowsSame
  <2> QED
    BY <2>1, <2>2 DEF SessionsSame
<1>7. ASSUME NEW w \in Worker,
             \/ LeaseOneTask(w) \/ Leave(w) \/ PreflightError(w) \/ StartExecution(w)
             \/ LinkTask(w) \/ GiveUpTask(w) \/ ReadControlState(w) \/ CancelAfterFailure(w)
             \/ Requeue(w) \/ Heartbeat(w) \/ Start(w)
      PROVE  SessionsSame
  BY <1>7, SessionsUntouched
  DEF LeaseOneTask, Leave, PreflightError, StartExecution, LinkTask, GiveUpTask,
      ReadControlState, CancelAfterFailure, Requeue, Heartbeat, Start, NoEvent
<1>8. CASE Operator \/ Polled \/ Time \/ UNCHANGED vars
  BY <1>8, SessionsUntouched DEF Operator, Polled, Time, NoEvent, vars
<1> QED
  BY <1>1, <1>2, <1>3, <1>4, <1>5, <1>6, <1>7, <1>8 DEF Next, Work

LEMMA HeldStep ==
  ASSUME TypeInv, HeldInv, [Next]_vars
  PROVE  HeldInv'
<1>1. \A w \in Worker : held[w].id \in 0..Len(session)
  BY Members
<1>2. abandoned \subseteq 1..Len(session) /\ Len(session) \in Nat
  BY LenProperties DEF TypeInv, SessionTypeOK
<1>3. CASE SessionsSame
  BY <1>3 DEF SessionsSame, RowsSame, HeldInv
<1>4. ASSUME NEW w \in Worker, SessionClosed(w)
      PROVE  HeldInv'
  <2>1. \A s \in 1..Len(session) :
          session'[s].status = "running"
            <=> s \in abandoned \/ \E v \in Worker : held'[v].id = s
    BY <1>1, <1>4 DEF SessionClosed, OthersHold, HeldInv
  <2>2. \A v, u \in Worker : held'[u].id # 0 /\ held'[v].id = held'[u].id => v = u
    BY <1>4 DEF SessionClosed, OthersHold, HeldInv
  <2>3. \A v \in Worker : held'[v].id \notin abandoned
    BY <1>2, <1>4 DEF SessionClosed, OthersHold, HeldInv
  <2> QED
    BY <1>4, <2>1, <2>2, <2>3 DEF SessionClosed, HeldInv
<1>5. ASSUME NEW w \in Worker, SessionOpened(w)
      PROVE  HeldInv'
  <2>1. \A s \in 1..Len(session') :
          session'[s].status = "running"
            <=> s \in abandoned \/ \E v \in Worker : held'[v].id = s
    <3>1. ASSUME NEW s \in 1..Len(session)
          PROVE  session'[s].status = "running"
                   <=> s \in abandoned \/ \E v \in Worker : held'[v].id = s
      BY <1>2, <1>5 DEF SessionOpened, OthersHold, HeldInv
    <3>2. session'[Len(session) + 1].status = "running" /\ held'[w].id = Len(session) + 1
      BY <1>5 DEF SessionOpened
    <3>3. \A s \in 1..Len(session') : s \in 1..Len(session) \/ s = Len(session) + 1
      BY <1>2, <1>5 DEF SessionOpened
    <3> QED
      BY <3>1, <3>2, <3>3
  <2>2. \A v, u \in Worker : held'[u].id # 0 /\ held'[v].id = held'[u].id => v = u
    BY <1>1, <1>2, <1>5 DEF SessionOpened, OthersHold, HeldInv
  <2>3. \A v \in Worker : held'[v].id \notin abandoned
    BY <1>2, <1>5 DEF SessionOpened, OthersHold, HeldInv
  <2> QED
    BY <1>5, <2>1, <2>2, <2>3 DEF SessionOpened, HeldInv
<1>6. ASSUME NEW w \in Worker, SessionAbandoned(w)
      PROVE  HeldInv'
  <2>1. \A s \in 1..Len(session) :
          session'[s].status = "running"
            <=> s \in abandoned' \/ \E v \in Worker : held'[v].id = s
    BY <1>6 DEF SessionAbandoned, RowsSame, OthersHold, HeldInv
  <2>2. \A v, u \in Worker : held'[u].id # 0 /\ held'[v].id = held'[u].id => v = u
    BY <1>6 DEF SessionAbandoned, OthersHold, HeldInv
  <2>3. \A v \in Worker : held'[v].id \notin abandoned'
    BY <1>2, <1>6 DEF SessionAbandoned, OthersHold, HeldInv
  <2> QED
    BY <1>6, <2>1, <2>2, <2>3 DEF SessionAbandoned, RowsSame, HeldInv
<1> QED
  BY <1>3, <1>4, <1>5, <1>6, SessionStep

(* A conversation serves one worker at a time, and its row is running       *)
(* exactly as long as that worker uses it or for good if it died with it.   *)
THEOREM HeldOnceAlways == Spec => []SessionsHeldOnce
<1>1. Init => HeldInv
  BY DEF Init, HeldInv, NoSession
<1>2. TypeInv /\ HeldInv /\ [Next]_vars => HeldInv'
  BY HeldStep
<1>3. TypeInv /\ HeldInv => SessionsHeldOnce
  <2> SUFFICES ASSUME TypeInv, HeldInv
               PROVE  SessionsHeldOnce
    OBVIOUS
  <2>1. \A w \in Worker : HasSession(w) => held[w].id \in 1..Len(session)
    BY Members
  <2>2. abandoned \subseteq 1..Len(session)
    BY DEF TypeInv, SessionTypeOK
  <2>3. \A w \in Worker : held[w].id \in 1..Len(session) => HasSession(w)
    BY DEF HasSession
  <2> DEFINE used == {held[w].id : w \in {v \in Worker : HasSession(v)}}
  <2>4. \A s \in 1..Len(session) : s \in used <=> \E w \in Worker : held[w].id = s
    BY <2>3
  <2>5. used \subseteq 1..Len(session)
    BY <2>1
  <2>6. {s \in SessionIds : session[s].status = "running"} = abandoned \cup used
    <3> HIDE DEF used
    <3> QED
      BY <2>2, <2>4, <2>5 DEF SessionIds, HeldInv
  <2> QED
    BY <2>6 DEF SessionsHeldOnce, HeldInv, HasSession
<1> QED
  BY <1>1, <1>2, <1>3, Typing, PTL DEF Spec

------------------------------------------------------------------------------
(* Failed turns. *)

Failing == {"failed", "doomed", "unexpected", "limited"}

(* With claim p and session h under configuration c: where sessions are     *)
(* reset, a spoiled conversation is in the hands of somebody about to close *)
(* it, and a turn is in the directory of its conversation.                  *)
Healthy(p, h, c) ==
  /\ c.reset /\ h.thread = "spoiled" => h.id # 0 /\ p.phase \in Failing
  /\ p.phase \in {"begun", "turn"} /\ h.id # 0 => h.other = (p.task \in c.other)

AllHealthy == \A w \in Worker : Healthy(worker[w], held[w], config)

LEMMA OneWorkerHealthy ==
  ASSUME TypeInv, AllHealthy, NEW w \in Worker, NEW p, NEW h,
         worker' = [worker EXCEPT ![w] = p], held' = [held EXCEPT ![w] = h],
         config' = config, Healthy(p, h, config)
  PROVE  AllHealthy'
<1>1. /\ worker'[w] = p /\ held'[w] = h
      /\ \A v \in Worker : v # w => worker'[v] = worker[v] /\ held'[v] = held[v]
  BY DEF TypeInv, SessionTypeOK
<1>2. \A v \in Worker : Healthy(worker'[v], held'[v], config')
  BY <1>1 DEF AllHealthy
<1> QED
  BY <1>2 DEF AllHealthy, Healthy

(* Only a worker about to close has a spoiled conversation.                 *)
LEMMA NotSpoiled ==
  ASSUME AllHealthy, NEW w \in Worker, worker[w].phase \notin Failing \/ ~Closing(w)
  PROVE  config.reset => held[w].thread # "spoiled"
BY DEF AllHealthy, Healthy, Closing, Reset, HasSession

LEMMA NextPhase ==
  ASSUME TypeInv, NEW w \in Worker, NEW p, Goto(w, p)
  PROVE  \E q : worker' = [worker EXCEPT ![w] = q] /\ q.phase = p /\ q.task = worker[w].task
<1> DEFINE q == [worker[w] EXCEPT !.phase = p]
<1>1. q.phase = p /\ q.task = worker[w].task
  BY Members DEF WorkerState
<1>2. worker' = [worker EXCEPT ![w] = q]
  BY DEF Goto
<1> QED
  BY <1>1, <1>2

(* The steps that keep the conversation. *)
LEMMA KeepHealthy ==
  ASSUME TypeInv, AllHealthy, NEW w \in Worker, UNCHANGED <<held, config>>,
         config.reset => held[w].thread # "spoiled",
         NEW q, worker' = [worker EXCEPT ![w] = q],
         q.phase \in {"begun", "turn"} /\ held[w].id # 0
           => held[w].other = (q.task \in config.other)
  PROVE  AllHealthy'
<1>1. held' = [held EXCEPT ![w] = held[w]]
  BY Members
<1>2. Healthy(q, held[w], config)
  BY DEF Healthy
<1> QED
  BY <1>1, <1>2, OneWorkerHealthy

LEMMA TopHealthy ==
  ASSUME TypeInv, AllHealthy, NEW w \in Worker, UNCHANGED <<held, config>>,
         LoopTop(w), worker[w].phase \notin Failing \/ ~Closing(w)
  PROVE  AllHealthy'
<1>1. Holding("top").phase \notin {"begun", "turn"}
  BY DEF Holding
<1> QED
  BY <1>1, NotSpoiled, KeepHealthy DEF LoopTop

LEMMA GotoHealthy ==
  ASSUME TypeInv, AllHealthy, NEW w \in Worker, UNCHANGED <<held, config>>, NEW p, Goto(w, p),
         worker[w].phase \notin Failing \/ ~Closing(w),
         p \in {"begun", "turn"} /\ held[w].id # 0
           => held[w].other = (worker[w].task \in config.other)
  PROVE  AllHealthy'
<1>1. PICK q : worker' = [worker EXCEPT ![w] = q] /\ q.phase = p /\ q.task = worker[w].task
  BY NextPhase
<1> QED
  BY <1>1, NotSpoiled, KeepHealthy

LEMMA LostHealthy ==
  ASSUME TypeInv, AllHealthy, NEW w \in Worker, config' = config,
         held' = [held EXCEPT ![w] = NoSession], NEW q, worker' = [worker EXCEPT ![w] = q]
  PROVE  AllHealthy'
<1>1. Healthy(q, NoSession, config)
  BY DEF Healthy, NoSession
<1> QED
  BY <1>1, OneWorkerHealthy

LEMMA FailedStep ==
  ASSUME TypeInv, AllHealthy, [Next]_vars
  PROVE  AllHealthy'
<1>0. config' = config
  BY DEF Next, Work, NoEvent, Event, vars, LeaseOneTask, NothingToLease, Leave, PreflightError,
     RollOver, StartExecution, OpenSession, LinkTask, TurnFails, TurnRateLimited,
     CloseRateLimited, Promote, PromoteRaises, UpdateSession, UpdateRaises, CloseFailed,
     GiveUpTask, ReadControlState, CancelAfterFailure, Requeue, Heartbeat, Escape, Crash, Start,
     Operator, Polled, Time
<1>1. ASSUME NEW w \in Worker,
             \/ PreflightError(w) \/ GiveUpTask(w) \/ CancelAfterFailure(w) \/ Requeue(w)
             \/ UpdateSession(w) \/ Start(w)
      PROVE  AllHealthy'
  <2>1. UNCHANGED held /\ LoopTop(w)
    BY <1>1 DEF PreflightError, GiveUpTask, CancelAfterFailure, Requeue, UpdateSession, Start
  <2>2. worker[w].phase \notin Failing \/ ~Closing(w)
    BY <1>1 DEF PreflightError, GiveUpTask, CancelAfterFailure, Requeue, UpdateSession, Start,
         At, Failing
  <2> QED
    BY <1>0, <2>1, <2>2, TopHealthy
<1>2. ASSUME NEW w \in Worker,
             Leave(w) \/ ReadControlState(w) \/ PromoteRaises(w) \/ UpdateRaises(w)
      PROVE  AllHealthy'
  <2>1. UNCHANGED held
    BY <1>2 DEF Leave, ReadControlState, PromoteRaises, UpdateRaises
  <2>2. worker[w].phase \notin Failing \/ ~Closing(w)
    BY <1>2 DEF Leave, ReadControlState, PromoteRaises, UpdateRaises, At, Failing
  <2>3. \E p \in {"gone", "canceling", "requeueing", "unexpected"} : Goto(w, p)
    BY <1>2 DEF Leave, ReadControlState, PromoteRaises, UpdateRaises
  <2> QED
    BY <1>0, <2>1, <2>2, <2>3, GotoHealthy
<1>3. ASSUME NEW w \in Worker, \/ NothingToLease(w) \/ RollOver(w) \/ CloseFailed(w)
                               \/ CloseRateLimited(w) \/ Escape(w) \/ Crash(w)
      PROVE  AllHealthy'
  <2>1. held' = [held EXCEPT ![w] = NoSession]
    BY <1>3 DEF NothingToLease, RollOver, CloseFailed, CloseRateLimited, Close, Escape, Crash,
         Abandon
  <2>2. worker = [worker EXCEPT ![w] = worker[w]]
    BY DEF TypeInv, SessionTypeOK
  <2>3. \E q : worker' = [worker EXCEPT ![w] = q]
    BY <1>3, <2>2, NextPhase
    DEF NothingToLease, RollOver, CloseFailed, CloseRateLimited, Escape, Crash
  <2> QED
    BY <1>0, <2>1, <2>3, LostHealthy
<1>4. ASSUME NEW w \in Worker, LeaseOneTask(w)
      PROVE  AllHealthy'
  <2>1. PICK q : worker' = [worker EXCEPT ![w] = q] /\ q.phase = "claimed"
    <3>1. PICK t \in Task, tok \in Token :
            worker' = [worker EXCEPT ![w] =
                        [phase |-> "claimed", task |-> t, token |-> tok,
                         execs |-> row[t].execs, limited |-> row[t].limited]]
      BY <1>4, LeaseFacts
    <3> DEFINE q == [phase |-> "claimed", task |-> t, token |-> tok,
                     execs |-> row[t].execs, limited |-> row[t].limited]
    <3>2. worker' = [worker EXCEPT ![w] = q] /\ q.phase = "claimed"
      BY <3>1
    <3> QED
      BY <3>2
  <2>2. UNCHANGED held /\ worker[w].phase \notin Failing
    BY <1>4 DEF LeaseOneTask, At, Failing
  <2> QED
    BY <1>0, <2>1, <2>2, NotSpoiled, KeepHealthy
<1>5. ASSUME NEW w \in Worker, StartExecution(w)
      PROVE  AllHealthy'
  <2>1. UNCHANGED held /\ worker[w].phase \notin Failing
    BY <1>5 DEF StartExecution, At, Failing
  <2>2. CASE LoopTop(w)
    BY <1>0, <2>1, <2>2, TopHealthy
  <2>3. CASE worker' = [worker EXCEPT ![w].phase = "begun",
                                      ![w].execs = row[worker[w].task].execs + 1]
    <3> DEFINE q == [worker[w] EXCEPT !.phase = "begun",
                                      !.execs = row[worker[w].task].execs + 1]
    <3>1. worker' = [worker EXCEPT ![w] = q]
      BY <2>3
    <3>2. q.task = worker[w].task
      BY Members DEF WorkerState
    <3>3. held[w].id # 0 => held[w].other = (worker[w].task \in config.other)
      BY <1>5 DEF StartExecution, HasSession, Fits, OtherDir
    <3> HIDE DEF q
    <3> QED
      BY <1>0, <2>1, <3>1, <3>2, <3>3, NotSpoiled, KeepHealthy
  <2> QED
    BY <1>5, <2>2, <2>3 DEF StartExecution
<1>6. ASSUME NEW w \in Worker, OpenSession(w)
      PROVE  AllHealthy'
  <2> DEFINE h == [NoSession EXCEPT !.id = Len(session) + 1,
                                    !.other = worker[w].task \in OtherDir]
  <2>1. held' = [held EXCEPT ![w] = h]
    BY <1>6 DEF OpenSession
  <2>2. h.thread = "none" /\ h.other = (worker[w].task \in config.other)
    BY DEF NoSession, OtherDir
  <2>3. worker' = [worker EXCEPT ![w] = worker[w]]
    BY <1>6 DEF OpenSession, TypeInv, SessionTypeOK
  <2> HIDE DEF h
  <2>4. Healthy(worker[w], h, config)
    BY <2>2 DEF Healthy
  <2> QED
    BY <1>0, <2>1, <2>3, <2>4, OneWorkerHealthy
<1>7. ASSUME NEW w \in Worker, LinkTask(w)
      PROVE  AllHealthy'
  <2>1. UNCHANGED held /\ worker[w].phase = "begun" /\ worker[w].phase \notin Failing
    BY <1>7 DEF LinkTask, At, Failing
  <2>2. held[w].id # 0 => held[w].other = (worker[w].task \in config.other)
    BY <2>1 DEF AllHealthy, Healthy
  <2> QED
    BY <1>0, <1>7, <2>1, <2>2, TopHealthy, GotoHealthy DEF LinkTask
<1>8. ASSUME NEW w \in Worker, TurnFails(w) \/ TurnRateLimited(w)
      PROVE  AllHealthy'
  <2>1. /\ held' = [held EXCEPT ![w] = Spoiled(held[w])]
        /\ \E p \in Failing : Goto(w, p)
    BY <1>8 DEF TurnFails, TurnRateLimited, Failing
  <2>2. PICK q : worker' = [worker EXCEPT ![w] = q] /\ q.phase \in Failing
    BY <2>1, NextPhase
  <2>3. Spoiled(held[w]).id # 0
    BY <1>8, SpoiledType, Members DEF TurnFails, TurnRateLimited, At, TypeInv, Shape
  <2>4. Healthy(q, Spoiled(held[w]), config)
    BY <2>2, <2>3 DEF Healthy, Failing
  <2> QED
    BY <1>0, <2>1, <2>2, <2>4, OneWorkerHealthy
<1>9. ASSUME NEW w \in Worker, Promote(w)
      PROVE  AllHealthy'
  <2>1. worker[w].phase \notin Failing
    BY <1>9 DEF Promote, At, Failing
  <2>2. CASE LoopTop(w) /\ UNCHANGED held
    BY <1>0, <2>1, <2>2, TopHealthy
  <2>3. CASE held' = [held EXCEPT ![w] = Advanced(held[w])] /\ Goto(w, "promoted")
    <3>1. PICK q : worker' = [worker EXCEPT ![w] = q] /\ q.phase = "promoted"
      BY <2>3, NextPhase
    <3>2. config.reset => Advanced(held[w]).thread # "spoiled"
      BY <2>1, NotSpoiled, AdvancedType, Members
    <3>3. Healthy(q, Advanced(held[w]), config)
      BY <3>1, <3>2 DEF Healthy
    <3> QED
      BY <1>0, <2>3, <3>1, <3>3, OneWorkerHealthy
  <2> QED
    BY <1>9, <2>2, <2>3 DEF Promote
<1>10. CASE UNCHANGED <<worker, held>>
  BY <1>0, <1>10 DEF AllHealthy, Healthy
<1>11. Operator \/ Polled \/ Time \/ UNCHANGED vars \/ (\E w \in Worker : Heartbeat(w))
         => UNCHANGED <<worker, held>>
  BY DEF Operator, Polled, Time, vars, Heartbeat
<1> QED
  BY <1>1, <1>2, <1>3, <1>4, <1>5, <1>6, <1>7, <1>8, <1>9, <1>10, <1>11 DEF Next, Work

(* With session_reset_on_error no turn is taken in a conversation in which  *)
(* an earlier one failed, and under any configuration none in a             *)
(* conversation of another --cd directory.                                  *)
THEOREM FailedTurnsAlways == Spec => []FailedTurnsEndSessions
<1>1. Init => AllHealthy
  BY DEF Init, AllHealthy, Healthy, NoSession
<1>2. TypeInv /\ AllHealthy /\ [Next]_vars => AllHealthy'
  BY FailedStep
<1>3. TypeInv /\ AllHealthy => FailedTurnsEndSessions
  BY DEF AllHealthy, Healthy, FailedTurnsEndSessions, At, Reset, OtherDir, Failing, TypeInv,
     Shape
<1> QED
  BY <1>1, <1>2, <1>3, Typing, PTL DEF Spec

------------------------------------------------------------------------------
(* Rows.  What a step does to the status and the token of every task.       *)

SameRow(t) == row'[t].status = row[t].status /\ row'[t].token = row[t].token
OthersSame(t) == \A u \in Task : u # t => SameRow(u)

(* The token is one that no claim on the task has.                          *)
TokenNew(t, tok) ==
  row[t].token # tok /\ \A v \in Worker : ~(worker[v].task = t /\ worker[v].token = tok)

RowClaimed(t, tok) ==
  /\ row[t].status \in {"queued", "running"} /\ TokenNew(t, tok)
  /\ row'[t].status = "running" /\ row'[t].token = tok /\ OthersSame(t)

RowEnded(t, s) ==
  /\ row[t].status = "running" /\ row'[t].status = s /\ row'[t].token = NoToken
  /\ OthersSame(t)

RowCanceled(t) ==
  /\ row[t].status \in {"queued", "running"}
  /\ row'[t].status = "canceled" /\ row'[t].token = NoToken

RowRetried(t) ==
  /\ row[t].status = "error" /\ row'[t].status = "queued" /\ row'[t].token = NoToken

(* A task becomes done only when its owner promotes it.                     *)
Completed(w) == Promote(w) /\ OwnsClaim(w) /\ RowEnded(worker[w].task, "done")

RowStep ==
  \/ \A t \in Task : SameRow(t)
  \/ \E w \in Worker, t \in Task, tok \in Token : LeaseOneTask(w) /\ RowClaimed(t, tok)
  \/ \E t \in Task, s \in {"queued", "error", "canceled"} : RowEnded(t, s)
  \/ \E w \in Worker : Completed(w)
  \/ \A t \in Task : SameRow(t) \/ RowCanceled(t)
  \/ \A t \in Task : IF row[t].status = "error" THEN RowRetried(t) ELSE SameRow(t)

LEMMA RowsTyped ==
  ASSUME TypeInv
  PROVE  row \in [Task -> Row] /\ \A t \in Task : row[t] \in Row
BY DEF TypeInv, SessionTypeOK, QueueTypeOK

LEMMA ReleasedFields ==
  ASSUME NEW r \in Row, NEW s \in TaskStatus
  PROVE  /\ Released(r, s).status = s /\ Released(r, s).token = NoToken
         /\ Retried(r).status = "queued" /\ Retried(r).token = NoToken
         /\ RateLimited(r).status = "queued" /\ RateLimited(r).token = NoToken
<1>1. \A x \in TaskStatus : Released(r, x).status = x /\ Released(r, x).token = NoToken
                           /\ Released(r, x) \in Row
  BY ReleasedType DEF Released, Row
<1>2. "queued" \in TaskStatus
  BY DEF TaskStatus
<1> QED
  BY <1>1, <1>2 DEF Retried, RateLimited, Row

LEMMA UnchangedRows ==
  ASSUME UNCHANGED row
  PROVE  \A t \in Task : SameRow(t)
BY DEF SameRow

LEMMA ReleaseRow ==
  ASSUME TypeInv, NEW t \in Task, NEW tok, NEW s \in TaskStatus, Release(t, tok, s)
  PROVE  IF Owns(t, tok) THEN RowEnded(t, s) ELSE \A u \in Task : SameRow(u)
<1>1. CASE Owns(t, tok)
  <2>1. row'[t] = Released(row[t], s) /\ \A u \in Task : u # t => row'[u] = row[u]
    BY <1>1, RowsTyped DEF Release
  <2> QED
    BY <1>1, <2>1, RowsTyped, ReleasedFields DEF RowEnded, OthersSame, SameRow, Owns
<1>2. CASE ~Owns(t, tok)
  BY <1>2, UnchangedRows DEF Release
<1> QED
  BY <1>1, <1>2

LEMMA RateLimitRow ==
  ASSUME TypeInv, NEW t \in Task, NEW tok, RequeueTaskAfterRateLimit(t, tok)
  PROVE  IF Owns(t, tok) THEN RowEnded(t, "queued") ELSE \A u \in Task : SameRow(u)
<1>1. CASE Owns(t, tok)
  <2>1. row'[t] = RateLimited(row[t]) /\ \A u \in Task : u # t => row'[u] = row[u]
    BY <1>1, RowsTyped DEF RequeueTaskAfterRateLimit
  <2>2. row'[t].status = "queued" /\ row'[t].token = NoToken
    BY <2>1, RowsTyped, ReleasedFields DEF TaskStatus
  <2> QED
    BY <1>1, <2>1, <2>2 DEF RowEnded, OthersSame, SameRow, Owns
<1>2. CASE ~Owns(t, tok)
  BY <1>2, UnchangedRows DEF RequeueTaskAfterRateLimit
<1> QED
  BY <1>1, <1>2

LEMMA LeaseRow ==
  ASSUME TypeInv, NEW w \in Worker, LeaseOneTask(w)
  PROVE  \E t \in Task, tok \in Token : RowClaimed(t, tok)
<1>1. PICK t \in Task, tok \in Token, lag \in Lag : Claim(t, tok, lag) /\ TokenNew(t, tok)
  BY LeaseFacts DEF TokenNew
<1>2. row'[t] = Claimed(row[t], tok, lag) /\ \A u \in Task : u # t => row'[u] = row[u]
  BY <1>1, RowsTyped DEF Claim
<1>3. row'[t].status = "running" /\ row'[t].token = tok
  BY <1>2, RowsTyped DEF Claimed, Row
<1>4. row[t].status \in {"queued", "running"}
  BY <1>1 DEF Claim, Claimable, Expired
<1>5. RowClaimed(t, tok)
  BY <1>1, <1>2, <1>3, <1>4 DEF RowClaimed, OthersSame, SameRow
<1> QED
  BY <1>5

LEMMA WorkRows ==
  ASSUME TypeInv, NEW w \in Worker, Work(w)
  PROVE  RowStep
<1>0. worker[w].phase \notin Idle => worker[w].task \in Task /\ worker[w].token \in Token
  BY Members
<1>1. CASE LeaseOneTask(w)
  BY <1>1, LeaseRow DEF RowStep
<1>2. CASE PreflightError(w) \/ GiveUpTask(w) \/ CancelAfterFailure(w) \/ Requeue(w)
  <2>1. worker[w].phase \notin Idle
    BY <1>2 DEF PreflightError, GiveUpTask, CancelAfterFailure, Requeue, At, Handling, Idle
  <2>2. PICK s \in {"queued", "error", "canceled"} :
          Release(worker[w].task, worker[w].token, s)
    BY <1>2 DEF PreflightError, GiveUpTask, CancelAfterFailure, Requeue, MarkTaskError,
         MarkTaskCanceled, RequeueTask
  <2>3. s \in TaskStatus
    BY DEF TaskStatus
  <2>4. RowEnded(worker[w].task, s) \/ \A u \in Task : SameRow(u)
    BY <1>0, <2>1, <2>2, <2>3, ReleaseRow
  <2> QED
    BY <1>0, <2>1, <2>4 DEF RowStep
<1>3. CASE StartExecution(w)
  <2>1. worker[w].task \in Task
    BY <1>0, <1>3 DEF StartExecution, At, Idle
  <2>2. CASE BeginTaskExecution(worker[w].task, worker[w].token)
    BY <2>1, <2>2, RowsTyped DEF BeginTaskExecution, SameRow, RowStep, Row
  <2>3. CASE UNCHANGED queueVars
    BY <2>3, UnchangedRows DEF queueVars, RowStep
  <2> QED
    BY <1>3, <2>2, <2>3 DEF StartExecution
<1>4. CASE TurnRateLimited(w)
  <2>1. worker[w].task \in Task /\ RequeueTaskAfterRateLimit(worker[w].task, worker[w].token)
    BY <1>0, <1>4 DEF TurnRateLimited, At, Idle
  <2>2. RowEnded(worker[w].task, "queued") \/ \A u \in Task : SameRow(u)
    BY <2>1, RateLimitRow
  <2> QED
    BY <2>1, <2>2 DEF RowStep
<1>5. CASE Promote(w) /\ OwnsClaim(w)
  <2>1. worker[w].task \in Task /\ Release(worker[w].task, worker[w].token, "done")
    BY <1>0, <1>5 DEF Promote, At, Idle, MarkTaskDone
  <2>2. RowEnded(worker[w].task, "done")
    BY <1>5, <2>1, ReleaseRow DEF OwnsClaim, TaskStatus
  <2> QED
    BY <1>5, <2>2 DEF Completed, RowStep
<1>6. CASE \/ NothingToLease(w) \/ Leave(w) \/ RollOver(w) \/ OpenSession(w) \/ LinkTask(w)
           \/ TurnFails(w) \/ CloseRateLimited(w) \/ (Promote(w) /\ ~OwnsClaim(w))
           \/ PromoteRaises(w) \/ UpdateSession(w) \/ UpdateRaises(w) \/ CloseFailed(w)
           \/ ReadControlState(w)
  <2>1. UNCHANGED row
    BY <1>6 DEF NothingToLease, Leave, RollOver, OpenSession, LinkTask, TurnFails,
         CloseRateLimited, Promote, PromoteRaises, UpdateSession, UpdateRaises, CloseFailed,
         ReadControlState, queueVars
  <2> QED
    BY <2>1, UnchangedRows DEF RowStep
<1> QED
  BY <1>1, <1>2, <1>3, <1>4, <1>5, <1>6 DEF Work

LEMMA RowsStep ==
  ASSUME TypeInv, [Next]_vars
  PROVE  RowStep
<1>1. ASSUME NEW w \in Worker, Heartbeat(w)
      PROVE  RowStep
  <2>1. worker[w].task \in Task
    BY <1>1 DEF Heartbeat, TypeInv, Shape
  <2>2. PICK lag \in Lag : HeartbeatTaskLease(worker[w].task, worker[w].token, lag)
    BY <1>1 DEF Heartbeat
  <2>3. \A t \in Task : SameRow(t)
    BY <2>1, <2>2, RowsTyped DEF HeartbeatTaskLease, SameRow, Row
  <2> QED
    BY <2>3 DEF RowStep
<1>2. CASE Operator
  <2>1. CASE SetRunControlState("paused") \/ SetRunControlState("active")
    BY <2>1, UnchangedRows DEF SetRunControlState, RowStep
  <2>2. ASSUME NEW lag \in Lag, CancelRunTasks(lag)
        PROVE  RowStep
    <3>1. ASSUME NEW t \in Task
          PROVE  SameRow(t) \/ RowCanceled(t)
      <4>1. CASE row[t].status = "queued" \/ Expired(t, lag)
        <5>1. row'[t] = Released(row[t], "canceled")
          BY <2>2, <4>1 DEF CancelRunTasks
        <5> QED
          BY <4>1, <5>1, RowsTyped, ReleasedFields DEF RowCanceled, Expired, TaskStatus
      <4>2. CASE ~(row[t].status = "queued" \/ Expired(t, lag))
        BY <2>2, <4>2 DEF CancelRunTasks, SameRow
      <4> QED
        BY <4>1, <4>2
    <3> QED
      BY <3>1 DEF RowStep
  <2>3. CASE RequeueErrorTasks
    <3>1. ASSUME NEW t \in Task
          PROVE  IF row[t].status = "error" THEN RowRetried(t) ELSE SameRow(t)
      <4>1. CASE row[t].status = "error"
        <5>1. row'[t] = Retried(row[t])
          BY <2>3, <4>1 DEF RequeueErrorTasks
        <5> QED
          BY <4>1, <5>1, RowsTyped, ReleasedFields DEF RowRetried, TaskStatus
      <4>2. CASE row[t].status # "error"
        BY <2>3, <4>2 DEF RequeueErrorTasks, SameRow
      <4> QED
        BY <4>1, <4>2
    <3> QED
      BY <3>1 DEF RowStep
  <2> QED
    BY <1>2, <2>1, <2>2, <2>3 DEF Operator
<1>3. CASE Time
  <2>1. \A t \in Task : SameRow(t)
    BY <1>3, RowsTyped DEF Time, Tick, SameRow, Row
  <2> QED
    BY <2>1 DEF RowStep
<1>4. CASE Polled \/ UNCHANGED vars \/ \E w \in Worker : Escape(w) \/ Crash(w) \/ Start(w)
  <2>1. UNCHANGED row
    BY <1>4 DEF Polled, ConfirmCancel, vars, Escape, Crash, Start, queueVars
  <2> QED
    BY <2>1, UnchangedRows DEF RowStep
<1> QED
  BY <1>1, <1>2, <1>3, <1>4, WorkRows DEF Next

------------------------------------------------------------------------------
(* Claims. *)

(* Two claims on the same task have different tokens, lost or not.          *)
ClaimsDistinct ==
  \A v, w \in Worker :
    /\ worker[v].task # NoTask
    /\ worker[v].task = worker[w].task /\ worker[v].token = worker[w].token
    => v = w

SameClaim(v) == worker'[v].task = worker[v].task /\ worker'[v].token = worker[v].token

NewClaim(v) ==
  \E t \in Task, tok \in Token : /\ worker'[v].task = t /\ worker'[v].token = tok
                               /\ TokenNew(t, tok)

LEMMA OneMoves ==
  ASSUME TypeInv, NEW w \in Worker, NEW p, worker' = [worker EXCEPT ![w] = p]
  PROVE  worker'[w] = p /\ \A v \in Worker : v # w => SameClaim(v)
BY DEF TypeInv, SessionTypeOK, SameClaim

LEMMA Moves ==
  ASSUME TypeInv, [Next]_vars
  PROVE  \/ \A v \in Worker : worker'[v].task = NoTask \/ SameClaim(v)
         \/ \E w \in Worker : /\ LeaseOneTask(w) /\ NewClaim(w)
                              /\ \A v \in Worker : v # w => SameClaim(v)
<1>1. ASSUME NEW w \in Worker, LeaseOneTask(w)
      PROVE  NewClaim(w) /\ \A v \in Worker : v # w => SameClaim(v)
  <2>1. PICK t \in Task, tok \in Token :
          /\ TokenNew(t, tok)
          /\ worker' = [worker EXCEPT ![w] =
                          [phase |-> "claimed", task |-> t, token |-> tok,
                           execs |-> row[t].execs, limited |-> row[t].limited]]
    BY <1>1, LeaseFacts DEF TokenNew
  <2> DEFINE q == [phase |-> "claimed", task |-> t, token |-> tok,
                   execs |-> row[t].execs, limited |-> row[t].limited]
  <2>2. q.task = t /\ q.token = tok
    OBVIOUS
  <2>3. worker' = [worker EXCEPT ![w] = q]
    BY <2>1
  <2> HIDE DEF q
  <2>4. worker'[w] = q /\ \A v \in Worker : v # w => SameClaim(v)
    BY <2>3, OneMoves
  <2> QED
    BY <2>1, <2>2, <2>4 DEF NewClaim
<1>2. ASSUME NEW w \in Worker, NEW p, worker' = [worker EXCEPT ![w] = p],
             p.task = NoTask \/ (p.task = worker[w].task /\ p.token = worker[w].token)
      PROVE  \A v \in Worker : worker'[v].task = NoTask \/ SameClaim(v)
  BY <1>2, OneMoves DEF SameClaim
<1>3. ASSUME NEW w \in Worker, NEW p, Goto(w, p)
      PROVE  \A v \in Worker : worker'[v].task = NoTask \/ SameClaim(v)
  <2> DEFINE q == [worker[w] EXCEPT !.phase = p]
  <2>1. q.task = worker[w].task /\ q.token = worker[w].token
    BY Members DEF WorkerState
  <2>2. worker' = [worker EXCEPT ![w] = q]
    BY <1>3 DEF Goto
  <2> HIDE DEF q
  <2> QED
    BY <1>2, <2>1, <2>2
<1>4. ASSUME NEW w \in Worker, NEW p, worker' = [worker EXCEPT ![w] = Holding(p)]
      PROVE  \A v \in Worker : worker'[v].task = NoTask \/ SameClaim(v)
  <2>1. Holding(p).task = NoTask
    BY DEF Holding
  <2> QED
    BY <1>2, <1>4, <2>1
<1>5. ASSUME NEW w \in Worker, StartExecution(w)
      PROVE  \A v \in Worker : worker'[v].task = NoTask \/ SameClaim(v)
  <2>1. CASE LoopTop(w)
    BY <1>4, <2>1 DEF LoopTop
  <2>2. CASE worker' = [worker EXCEPT ![w].phase = "begun",
                                      ![w].execs = row[worker[w].task].execs + 1]
    <3> DEFINE q == [worker[w] EXCEPT !.phase = "begun",
                                      !.execs = row[worker[w].task].execs + 1]
    <3>1. q.task = worker[w].task /\ q.token = worker[w].token
      BY Members DEF WorkerState
    <3>2. worker' = [worker EXCEPT ![w] = q]
      BY <2>2
    <3> HIDE DEF q
    <3> QED
      BY <1>2, <3>1, <3>2
  <2> QED
    BY <1>5, <2>1, <2>2 DEF StartExecution
<1>6. ASSUME NEW w \in Worker, Work(w) \/ Escape(w) \/ Crash(w) \/ Start(w),
             ~LeaseOneTask(w), ~StartExecution(w)
      PROVE  \/ UNCHANGED worker
             \/ \E p : Goto(w, p)
             \/ \E p : worker' = [worker EXCEPT ![w] = Holding(p)]
  BY <1>6
  DEF Work, NothingToLease, Leave, PreflightError, RollOver, OpenSession, LinkTask, TurnFails,
      TurnRateLimited, CloseRateLimited, Promote, PromoteRaises, UpdateSession, UpdateRaises,
      CloseFailed, GiveUpTask, ReadControlState, CancelAfterFailure, Requeue, Escape, Crash,
      Start, LoopTop
<1>7. UNCHANGED worker => \A v \in Worker : SameClaim(v)
  BY DEF SameClaim
<1>8. Operator \/ Polled \/ Time \/ UNCHANGED vars \/ (\E w \in Worker : Heartbeat(w))
         => UNCHANGED worker
  BY DEF Operator, Polled, Time, vars, Heartbeat
<1> QED
  BY <1>1, <1>3, <1>4, <1>5, <1>6, <1>7, <1>8 DEF Next

LEMMA DistinctStep ==
  ASSUME TypeInv, ClaimsDistinct, [Next]_vars
  PROVE  ClaimsDistinct'
<1>1. CASE \A v \in Worker : worker'[v].task = NoTask \/ SameClaim(v)
  BY <1>1 DEF SameClaim, ClaimsDistinct
<1>2. ASSUME NEW w \in Worker, NewClaim(w), \A v \in Worker : v # w => SameClaim(v)
      PROVE  ClaimsDistinct'
  BY <1>2 DEF SameClaim, NewClaim, TokenNew, ClaimsDistinct
<1> QED
  BY <1>1, <1>2, Moves

------------------------------------------------------------------------------
(* Links and outputs. *)

(* The owner of a task in its turn has linked it to that turn.              *)
TurnLinked ==
  \A w \in Worker :
    worker[w].phase = "turn" /\ Owns(worker[w].task, worker[w].token)
    => link[worker[w].task] = NextTurn(w)

LinkInv == ClaimsDistinct /\ LinkTellsOutput /\ TurnLinked

Linked(w) == LinkTask(w) /\ OwnsClaim(w)

LEMMA LinkStep ==
  ASSUME TypeInv, [Next]_vars
  PROVE  \/ UNCHANGED link
         \/ \E w \in Worker : /\ Linked(w) /\ worker[w].phase = "begun"
                              /\ worker[w].task \in Task
                              /\ link' = [link EXCEPT ![worker[w].task] = NextTurn(w)]
                              /\ UNCHANGED <<row, held, final>>
<1>1. ASSUME NEW w \in Worker, LinkTask(w), link' # link
      PROVE  /\ Linked(w) /\ worker[w].phase = "begun" /\ worker[w].task \in Task
             /\ link' = [link EXCEPT ![worker[w].task] = NextTurn(w)]
             /\ UNCHANGED <<row, held, final>>
  BY <1>1, Members DEF LinkTask, Linked, At, Idle, queueVars
<1>2. ASSUME NEW w \in Worker, ~LinkTask(w),
             Work(w) \/ Heartbeat(w) \/ Escape(w) \/ Crash(w) \/ Start(w)
      PROVE  UNCHANGED link
  BY <1>2
  DEF Work, LeaseOneTask, NothingToLease, Leave, PreflightError, RollOver, StartExecution,
      OpenSession, TurnFails, TurnRateLimited, CloseRateLimited, Promote, PromoteRaises,
      UpdateSession, UpdateRaises, CloseFailed, GiveUpTask, ReadControlState,
      CancelAfterFailure, Requeue, Heartbeat, Escape, Crash, Start
<1>3. Operator \/ Polled \/ Time \/ UNCHANGED vars => UNCHANGED link
  BY DEF Operator, Polled, Time, vars
<1> QED
  BY <1>1, <1>2, <1>3 DEF Next

(* An output changes only while its task runs, and in a step that leaves    *)
(* the rows alone or is the promotion.                                      *)
LEMMA FinalStep ==
  ASSUME TypeInv, [Next]_vars, NEW t \in Task, final'[t] # final[t]
  PROVE  /\ row[t].status = "running"
         /\ \/ UNCHANGED row
            \/ \E w \in Worker : Promote(w) /\ OwnsClaim(w) /\ t = worker[w].task
<1>1. ASSUME NEW w \in Worker, OwnsClaim(w),
             final' = [final EXCEPT ![worker[w].task] = Published(w)]
      PROVE  t = worker[w].task /\ row[t].status = "running"
  BY <1>1 DEF OwnsClaim, Owns, TypeInv, SessionTypeOK
<1>2. ASSUME NEW w \in Worker, Promote(w) \/ PromoteRaises(w) \/ Crash(w)
      PROVE  /\ OwnsClaim(w) /\ final' = [final EXCEPT ![worker[w].task] = Published(w)]
             /\ UNCHANGED row \/ Promote(w)
  BY <1>2 DEF Promote, PromoteRaises, Crash, queueVars
<1>3. ASSUME NEW w \in Worker, ~Promote(w), ~PromoteRaises(w), ~Crash(w),
             Work(w) \/ Heartbeat(w) \/ Escape(w) \/ Start(w)
      PROVE  FALSE
  BY <1>3
  DEF Work, LeaseOneTask, NothingToLease, Leave, PreflightError, RollOver, StartExecution,
      OpenSession, LinkTask, TurnFails, TurnRateLimited, CloseRateLimited,
      UpdateSession, UpdateRaises, CloseFailed, GiveUpTask, ReadControlState,
      CancelAfterFailure, Requeue, Heartbeat, Escape, Start
<1>4. ~(Operator \/ Polled \/ Time \/ UNCHANGED vars)
  BY DEF Operator, Polled, Time, vars
<1> QED
  BY <1>1, <1>2, <1>3, <1>4 DEF Next

(* A worker in its turn has just linked its task, or was in it already.     *)
LEMMA TurnKept ==
  ASSUME TypeInv, [Next]_vars, NEW w \in Worker, worker'[w].phase = "turn"
  PROVE  Linked(w) \/ (worker'[w] = worker[w] /\ held'[w] = held[w])
<1>1. ASSUME NEW v \in Worker, v # w,
             Work(v) \/ Heartbeat(v) \/ Escape(v) \/ Crash(v) \/ Start(v)
      PROVE  worker'[w] = worker[w] /\ held'[w] = held[w]
  BY <1>1
  DEF Work, LeaseOneTask, NothingToLease, Leave, PreflightError, RollOver, StartExecution,
      OpenSession, LinkTask, TurnFails, TurnRateLimited, CloseRateLimited, Promote,
      PromoteRaises, UpdateSession, UpdateRaises, CloseFailed, GiveUpTask, ReadControlState,
      CancelAfterFailure, Requeue, Heartbeat, Escape, Crash, Start, Close, Abandon, Goto,
      LoopTop, TypeInv, SessionTypeOK
<1>2. ASSUME NEW p, p # "turn", Goto(w, p) \/ worker' = [worker EXCEPT ![w] = Holding(p)]
      PROVE  FALSE
  BY <1>2 DEF Goto, Holding, TypeInv, SessionTypeOK, WorkerState
<1>3. ASSUME LeaseOneTask(w)
      PROVE  FALSE
  <2>1. PICK t \in Task, tok \in Token :
          worker' = [worker EXCEPT ![w] = [phase |-> "claimed", task |-> t, token |-> tok,
                                           execs |-> row[t].execs, limited |-> row[t].limited]]
    BY <1>3, LeaseFacts
  <2> DEFINE q == [phase |-> "claimed", task |-> t, token |-> tok,
                   execs |-> row[t].execs, limited |-> row[t].limited]
  <2>2. q.phase = "claimed"
    OBVIOUS
  <2>3. worker' = [worker EXCEPT ![w] = q]
    BY <2>1
  <2> HIDE DEF q
  <2>4. worker'[w] = q
    BY <2>3, OneMoves
  <2> QED
    BY <2>2, <2>4
<1>4. ASSUME StartExecution(w)
      PROVE  FALSE
  <2>1. CASE LoopTop(w)
    BY <1>2, <2>1 DEF LoopTop
  <2>2. CASE worker' = [worker EXCEPT ![w].phase = "begun",
                                      ![w].execs = row[worker[w].task].execs + 1]
    BY <2>2 DEF TypeInv, SessionTypeOK, WorkerState
  <2> QED
    BY <1>4, <2>1, <2>2 DEF StartExecution
<1>5. ASSUME NothingToLease(w) \/ RollOver(w) \/ CloseFailed(w) \/ OpenSession(w)
      PROVE  FALSE
  BY <1>5 DEF NothingToLease, RollOver, CloseFailed, OpenSession, At, Handling
<1>6. ASSUME LinkTask(w)
      PROVE  Linked(w)
  BY <1>2, <1>6 DEF LinkTask, Linked, LoopTop
<1>7. ASSUME \/ Leave(w) \/ PreflightError(w) \/ TurnFails(w) \/ TurnRateLimited(w)
             \/ CloseRateLimited(w) \/ Promote(w) \/ PromoteRaises(w) \/ UpdateSession(w)
             \/ UpdateRaises(w) \/ GiveUpTask(w) \/ ReadControlState(w)
             \/ CancelAfterFailure(w) \/ Requeue(w) \/ Escape(w) \/ Crash(w) \/ Start(w)
      PROVE  \E p : p # "turn" /\ (Goto(w, p) \/ worker' = [worker EXCEPT ![w] = Holding(p)])
  BY <1>7 DEF Leave, PreflightError, TurnFails, TurnRateLimited, CloseRateLimited, Promote,
     PromoteRaises, UpdateSession, UpdateRaises, GiveUpTask, ReadControlState,
     CancelAfterFailure, Requeue, Escape, Crash, Start, LoopTop
<1>8. Operator \/ Polled \/ Time \/ UNCHANGED vars \/ Heartbeat(w)
         => UNCHANGED <<worker, held>>
  BY DEF Operator, Polled, Time, vars, Heartbeat
<1> QED
  BY <1>1, <1>2, <1>3, <1>4, <1>5, <1>6, <1>7, <1>8 DEF Next, Work

(* A task that is done after a step was done before it, or its owner has    *)
(* just promoted it.                                                        *)
LEMMA DoneRow ==
  ASSUME TypeInv, [Next]_vars, NEW t \in Task, row'[t].status = "done"
  PROVE  SameRow(t) \/ \E w \in Worker : Completed(w) /\ t = worker[w].task
BY RowsStep DEF RowStep, RowClaimed, RowEnded, RowCanceled, RowRetried, OthersSame, SameRow,
                Completed

(* Whoever owns a task after a step and had the claim before it was the     *)
(* owner before it.                                                         *)
LEMMA OwnerBefore ==
  ASSUME TypeInv, [Next]_vars, NEW w \in Worker, worker[w].task \in Task,
         worker[w].token \in Token, row'[worker[w].task].status = "running",
         row'[worker[w].task].token = worker[w].token
  PROVE  Owns(worker[w].task, worker[w].token)
BY RowsStep
DEF RowStep, RowClaimed, RowEnded, RowCanceled, RowRetried, OthersSame, SameRow, Completed,
    TokenNew, Owns

LEMMA OutputLinked ==
  ASSUME TypeInv, LinkInv, [Next]_vars, NEW t \in Task, row'[t].status = "done"
  PROVE  link'[t] = final'[t].turn
<1>1. CASE SameRow(t)
  <2>1. row[t].status = "done"
    BY <1>1 DEF SameRow
  <2>2. final'[t] = final[t]
    BY <2>1, FinalStep
  <2>3. link'[t] = link[t]
    <3>1. ASSUME NEW w \in Worker, Linked(w),
                 link' = [link EXCEPT ![worker[w].task] = NextTurn(w)]
          PROVE  link'[t] = link[t]
      BY <2>1, <3>1 DEF Linked, OwnsClaim, Owns, TypeInv, SessionTypeOK
    <3> QED
      BY <3>1, LinkStep
  <2> QED
    BY <2>1, <2>2, <2>3 DEF LinkInv, LinkTellsOutput
<1>2. ASSUME NEW w \in Worker, Completed(w), t = worker[w].task
      PROVE  link'[t] = final'[t].turn
  <2>1. link'[t] = NextTurn(w)
    BY <1>2 DEF Completed, Promote, At, OwnsClaim, LinkInv, TurnLinked
  <2>2. final'[t] = Published(w)
    BY <1>2 DEF Completed, Promote, TypeInv, SessionTypeOK
  <2> QED
    BY <2>1, <2>2 DEF Published
<1> QED
  BY <1>1, <1>2, DoneRow

LEMMA TurnStaysLinked ==
  ASSUME TypeInv, LinkInv, [Next]_vars, NEW w \in Worker, worker'[w].phase = "turn",
         row'[worker'[w].task].status = "running",
         row'[worker'[w].task].token = worker'[w].token
  PROVE  link'[worker'[w].task] = NextTurn(w)'
<1>1. CASE Linked(w)
  <2>1. worker[w].task \in Task /\ UNCHANGED held
    BY <1>1, Members DEF Linked, LinkTask, At, Idle
  <2>2. worker'[w].task = worker[w].task
    BY <1>1 DEF Linked, LinkTask, Goto, TypeInv, SessionTypeOK, WorkerState
  <2>3. link'[worker[w].task] = NextTurn(w)
    BY <1>1, <2>1 DEF Linked, LinkTask, TypeInv, SessionTypeOK
  <2> QED
    BY <2>1, <2>2, <2>3 DEF NextTurn
<1>2. CASE worker'[w] = worker[w] /\ held'[w] = held[w]
  <2>1. worker[w].task \in Task /\ worker[w].token \in Token /\ worker[w].phase = "turn"
    BY <1>2, Members DEF Idle
  <2>2. Owns(worker[w].task, worker[w].token)
    BY <1>2, <2>1, OwnerBefore
  <2>3. link[worker[w].task] = NextTurn(w)
    BY <2>1, <2>2 DEF LinkInv, TurnLinked
  <2>4. ASSUME NEW v \in Worker, Linked(v), worker[v].phase = "begun",
               link' = [link EXCEPT ![worker[v].task] = NextTurn(v)]
        PROVE  link'[worker[w].task] = link[worker[w].task]
    <3>1. worker[v].task # worker[w].task
      BY <2>1, <2>2, <2>4 DEF Linked, OwnsClaim, Owns, LinkInv, ClaimsDistinct
    <3> QED
      BY <2>1, <2>4, <3>1 DEF TypeInv, SessionTypeOK
  <2>5. link'[worker[w].task] = link[worker[w].task]
    BY <2>4, LinkStep
  <2> QED
    BY <1>2, <2>3, <2>5 DEF NextTurn
<1> QED
  BY <1>1, <1>2, TurnKept

LEMMA LinkInvStep ==
  ASSUME TypeInv, LinkInv, [Next]_vars
  PROVE  LinkInv'
<1>1. ClaimsDistinct'
  BY DistinctStep DEF LinkInv
<1>2. LinkTellsOutput'
  BY OutputLinked DEF LinkTellsOutput
<1>3. TurnLinked'
  BY TurnStaysLinked DEF TurnLinked, Owns
<1> QED
  BY <1>1, <1>2, <1>3 DEF LinkInv

(* A done task names the session and the turn that wrote its output,        *)
(* although link and output are written by different statements and a       *)
(* worker that lost its lease goes on.                                      *)
THEOREM LinkAlways == Spec => []LinkTellsOutput
<1>1. Init => LinkInv
  BY DEF Init, QueueInit, NewRow, Holding, LinkInv, ClaimsDistinct, LinkTellsOutput, TurnLinked
<1>2. TypeInv /\ LinkInv /\ [Next]_vars => LinkInv'
  BY LinkInvStep
<1>3. LinkInv => LinkTellsOutput
  BY DEF LinkInv
<1> QED
  BY <1>1, <1>2, <1>3, Typing, PTL DEF Spec

------------------------------------------------------------------------------
(* Refinement of the ledger. *)

LState == [t \in Task |-> row[t].status]
LHolder == [t \in Task |-> row[t].token]
LOutput == [t \in Task |-> IF row[t].status = "done" THEN final[t].token ELSE NoToken]
lvars == <<LState, LHolder, LOutput>>

(* Only a running task has a lease token.                                   *)
IdleRows == \A t \in Task : row[t].status # "running" => row[t].token = NoToken

LEMMA IdleStep ==
  ASSUME TypeInv, IdleRows, [Next]_vars
  PROVE  IdleRows'
BY RowsStep DEF IdleRows, RowStep, RowClaimed, RowEnded, RowCanceled, RowRetried, OthersSame,
                SameRow, Completed

(* A step that leaves the row of a task alone, or finds it not running,     *)
(* leaves what the ledger calls its output.                                 *)
LEMMA OutputKept ==
  ASSUME TypeInv, [Next]_vars, NEW t \in Task, row'[t].status # "done" \/ SameRow(t),
         row[t].status # "done" \/ SameRow(t)
  PROVE  LOutput'[t] = LOutput[t]
<1>1. CASE row'[t].status # "done" /\ row[t].status # "done"
  BY <1>1 DEF LOutput
<1>2. CASE SameRow(t) /\ row[t].status = "done"
  <2>1. final'[t] = final[t]
    BY <1>2, FinalStep
  <2> QED
    BY <1>2, <2>1 DEF LOutput, SameRow
<1> QED
  BY <1>1, <1>2 DEF SameRow

LEMMA OutputsKept ==
  ASSUME TypeInv, [Next]_vars,
         \A t \in Task : SameRow(t) \/ (row'[t].status # "done" /\ row[t].status # "done")
  PROVE  LOutput' = LOutput
<1>1. \A t \in Task : LOutput'[t] = LOutput[t]
  BY OutputKept
<1> QED
  BY <1>1 DEF LOutput

LEMMA LedgerComplete ==
  ASSUME TypeInv, [Next]_vars, NEW w \in Worker, Completed(w)
  PROVE  Ledger!LedgerNext
<1>1. PICK t \in Task : t = worker[w].task
  BY Members DEF Completed, Promote, At, Idle
<1>2. /\ row[t].status = "running" /\ row[t].token = worker[w].token
      /\ row'[t].status = "done" /\ row'[t].token = NoToken
      /\ \A u \in Task : u # t => SameRow(u)
  BY <1>1 DEF Completed, RowEnded, OthersSame, OwnsClaim, Owns
<1>3. final'[t].token = row[t].token
  BY <1>1, <1>2 DEF Completed, Promote, Published, TypeInv, SessionTypeOK
<1>4. \A u \in Task : u # t => LOutput'[u] = LOutput[u]
  BY <1>2, OutputKept
<1>5. LOutput' = [LOutput EXCEPT ![t] = LHolder[t]]
  BY <1>2, <1>3, <1>4 DEF LOutput, LHolder
<1>6. /\ LState' = [LState EXCEPT ![t] = "done"]
      /\ LHolder' = [LHolder EXCEPT ![t] = NoToken]
  BY <1>2 DEF LState, LHolder, SameRow
<1>7. Ledger!Complete(t)
  BY <1>2, <1>5, <1>6 DEF Ledger!Complete, LState, LHolder, LOutput
<1> QED
  BY <1>7 DEF Ledger!LedgerNext

LEMMA LedgerStep ==
  TypeInv /\ IdleRows /\ [Next]_vars => [Ledger!LedgerNext]_lvars
<1> SUFFICES ASSUME TypeInv, IdleRows, [Next]_vars
             PROVE  Ledger!LedgerNext \/ UNCHANGED lvars
  OBVIOUS
<1>1. CASE \A t \in Task : SameRow(t)
  <2>1. LState' = LState /\ LHolder' = LHolder
    BY <1>1 DEF LState, LHolder, SameRow
  <2>2. LOutput' = LOutput
    BY <1>1, OutputsKept
  <2> QED
    BY <2>1, <2>2 DEF lvars
<1>2. ASSUME NEW t \in Task, NEW tok \in Token, RowClaimed(t, tok)
      PROVE  Ledger!LedgerNext
  <2>1. /\ LState' = [LState EXCEPT ![t] = "running"]
        /\ LHolder' = [LHolder EXCEPT ![t] = tok]
    BY <1>2 DEF RowClaimed, OthersSame, SameRow, LState, LHolder
  <2>2. LOutput' = LOutput
    BY <1>2, OutputsKept DEF RowClaimed, OthersSame
  <2>3. Ledger!Acquire(t, tok)
    BY <1>2, <2>1, <2>2 DEF RowClaimed, TokenNew, Ledger!Acquire, LState, LHolder, LOutput
  <2> QED
    BY <2>3 DEF Ledger!LedgerNext
<1>3. ASSUME NEW t \in Task, NEW s \in {"queued", "error", "canceled"}, RowEnded(t, s)
      PROVE  Ledger!LedgerNext
  <2>1. /\ LState' = [LState EXCEPT ![t] = s]
        /\ LHolder' = [LHolder EXCEPT ![t] = NoToken]
    BY <1>3 DEF RowEnded, OthersSame, SameRow, LState, LHolder
  <2>2. LOutput' = LOutput
    BY <1>3, OutputsKept DEF RowEnded, OthersSame
  <2>3. Ledger!Drop(t, s)
    BY <1>3, <2>1, <2>2 DEF RowEnded, Ledger!Drop, LState, LHolder, LOutput
  <2> QED
    BY <2>3 DEF Ledger!LedgerNext
<1>4. CASE \A t \in Task : SameRow(t) \/ RowCanceled(t)
  <2>0. PICK S \in SUBSET Task : S = {t \in Task : ~SameRow(t)}
    OBVIOUS
  <2>1. \A t \in Task : IF t \in S THEN RowCanceled(t) ELSE SameRow(t)
    BY <1>4, <2>0
  <2>2. LState' = [t \in Task |-> IF t \in S THEN "canceled" ELSE LState[t]]
    BY <2>1 DEF LState, SameRow, RowCanceled
  <2>3. LHolder' = [t \in Task |-> IF t \in S THEN NoToken ELSE LHolder[t]]
    BY <2>1 DEF LHolder, SameRow, RowCanceled
  <2>4. LOutput' = LOutput
    BY <1>4, OutputsKept DEF RowCanceled
  <2>5. \A t \in S : LState[t] \in {"queued", "running"}
    BY <2>1 DEF LState, RowCanceled
  <2>6. Ledger!Cancel(S)
    BY <2>2, <2>3, <2>4, <2>5 DEF Ledger!Cancel, LState, LHolder, LOutput
  <2> QED
    BY <2>6 DEF Ledger!LedgerNext
<1>5. CASE \A t \in Task : IF row[t].status = "error" THEN RowRetried(t) ELSE SameRow(t)
  <2>1. LState' = [t \in Task |-> IF LState[t] = "error" THEN "queued" ELSE LState[t]]
    BY <1>5 DEF LState, SameRow, RowRetried
  <2>2. LHolder' = LHolder
    BY <1>5 DEF LHolder, SameRow, RowRetried, IdleRows
  <2>3. LOutput' = LOutput
    BY <1>5, OutputsKept DEF RowRetried
  <2>4. Ledger!RetryErrors
    BY <2>1, <2>2, <2>3 DEF Ledger!RetryErrors, LState, LHolder, LOutput
  <2> QED
    BY <2>4 DEF Ledger!LedgerNext
<1> QED
  BY <1>1, <1>2, <1>3, <1>4, <1>5, RowsStep, LedgerComplete DEF RowStep

(* The session workers implement TaskLedger, too: every step is a step of   *)
(* the ledger or a stutter, and a done task's output is its last holder's.  *)
THEOREM SessionLedger == Spec => SessionsImplementLedger
<1>1. Init => Ledger!LedgerInit
  BY DEF Init, QueueInit, NewRow, Ledger!LedgerInit
<1>2. Init => IdleRows
  BY DEF Init, QueueInit, NewRow, IdleRows
<1>3. TypeInv /\ IdleRows /\ [Next]_vars => IdleRows'
  BY IdleStep
<1>4. TypeInv /\ IdleRows /\ [Next]_vars => [Ledger!LedgerNext]_lvars
  BY LedgerStep
<1> QED
  BY <1>1, <1>2, <1>3, <1>4, Typing, PTL
     DEF Spec, SessionsImplementLedger, Ledger!LedgerSpec, lvars, LState, LHolder, LOutput

------------------------------------------------------------------------------
(* Counts.  The tasks that are done in a session, the numbers they were     *)
(* given, the count in memory and the count in the row.                     *)

(* How what a worker knows of its session changes.                          *)
HeldAsBefore(w) == held'[w].id = held[w].id /\ held'[w].count = held[w].count

HeldCounted(w) == held'[w].id = held[w].id /\ held'[w].count = held[w].count + 1

HeldOpened(w) == held'[w].id = Len(session) + 1 /\ held'[w].count = 0

LEMMA TurnCounts ==
  ASSUME NEW h \in SessionState
  PROVE  Spoiled(h).count = h.count /\ Advanced(h).count = h.count + 1
<1>1. Spoiled(h).count = h.count
  BY DEF Spoiled, SessionState
<1> DEFINE n == h.count + 1
           th == IF h.thread = "none" THEN "clean" ELSE h.thread
<1>2. Advanced(h) = [h EXCEPT !.count = n, !.thread = th]
  BY DEF Advanced
<1>3. n = h.count + 1
  OBVIOUS
<1> HIDE DEF n, th
<1> QED
  BY <1>1, <1>2, <1>3 DEF SessionState

LEMMA OpenedFields ==
  ASSUME TypeInv, NEW w \in Worker, OpenSession(w)
  PROVE  HeldOpened(w) /\ Len(session') = Len(session) + 1 /\ OthersHold(w) /\ held[w].id = 0
<1>1. PICK o : held' = [held EXCEPT ![w] =
                         [NoSession EXCEPT !.id = Len(session) + 1, !.other = o]]
  BY DEF OpenSession
<1> DEFINE h == [NoSession EXCEPT !.id = Len(session) + 1, !.other = o]
<1>2. h.id = Len(session) + 1 /\ h.count = 0
  BY DEF NoSession
<1>3. held' = [held EXCEPT ![w] = h]
  BY <1>1
<1> HIDE DEF h
<1>4. held'[w] = h /\ OthersHold(w)
  BY <1>3, ChangeSession
<1> QED
  BY <1>2, <1>4, OpenTyped DEF HeldOpened, OpenSession, HasSession

LEMMA HeldMoves ==
  ASSUME TypeInv, [Next]_vars, NEW w \in Worker, held'[w].id # 0
  PROVE  \/ HeldAsBefore(w) /\ ~(Promote(w) /\ OwnsClaim(w))
         \/ HeldCounted(w) /\ Promote(w) /\ OwnsClaim(w)
         \/ HeldOpened(w) /\ OpenSession(w)
<1>1. ASSUME NEW v \in Worker, v # w,
             Work(v) \/ Heartbeat(v) \/ Escape(v) \/ Crash(v) \/ Start(v)
      PROVE  held'[w] = held[w] /\ worker'[w] = worker[w]
  BY <1>1
  DEF Work, LeaseOneTask, NothingToLease, Leave, PreflightError, RollOver, StartExecution,
      OpenSession, LinkTask, TurnFails, TurnRateLimited, CloseRateLimited, Promote,
      PromoteRaises, UpdateSession, UpdateRaises, CloseFailed, GiveUpTask, ReadControlState,
      CancelAfterFailure, Requeue, Heartbeat, Escape, Crash, Start, Close, Abandon, Goto,
      LoopTop, TypeInv, SessionTypeOK
<1>2. Promote(w) /\ OwnsClaim(w) => worker'[w].phase = "promoted"
  BY DEF Promote, Goto, TypeInv, SessionTypeOK, WorkerState
<1>3. Promote(w) => At(w, "turn")
  BY DEF Promote
<1>4. ASSUME NothingToLease(w) \/ RollOver(w) \/ CloseFailed(w) \/ CloseRateLimited(w)
             \/ Escape(w) \/ Crash(w)
      PROVE  FALSE
  <2>1. held' = [held EXCEPT ![w] = NoSession]
    BY <1>4 DEF NothingToLease, RollOver, CloseFailed, CloseRateLimited, Escape, Crash,
                Close, Abandon
  <2>2. held'[w] = NoSession
    BY <2>1, ChangeSession
  <2> QED
    BY <2>2 DEF NoSession
<1>5. CASE OpenSession(w)
  BY <1>5, OpenedFields
<1>6. CASE Promote(w)
  <2>1. CASE OwnsClaim(w)
    <3>1. held' = [held EXCEPT ![w] = Advanced(held[w])]
      BY <1>6, <2>1 DEF Promote
    <3>2. held'[w] = Advanced(held[w])
      BY <3>1, ChangeSession
    <3>3. HeldCounted(w)
      BY <3>2, AdvancedType, TurnCounts, Members DEF HeldCounted
    <3> QED
      BY <1>6, <2>1, <3>3
  <2>2. CASE ~OwnsClaim(w)
    BY <1>6, <2>2 DEF Promote, HeldAsBefore
  <2> QED
    BY <2>1, <2>2
<1>7. CASE TurnFails(w) \/ TurnRateLimited(w)
  <2>1. HeldAsBefore(w)
    <3>1. held' = [held EXCEPT ![w] = Spoiled(held[w])]
      BY <1>7 DEF TurnFails, TurnRateLimited
    <3>2. held'[w] = Spoiled(held[w])
      BY <3>1, ChangeSession
    <3> QED
      BY <3>2, SpoiledType, TurnCounts, Members DEF HeldAsBefore
  <2>2. worker'[w].phase # "promoted"
    BY <1>7 DEF TurnFails, TurnRateLimited, Goto, TypeInv, SessionTypeOK, WorkerState
  <2> QED
    BY <1>2, <2>1, <2>2
<1>8. ASSUME HeldAsBefore(w), worker'[w] = worker[w] \/ worker'[w].phase # "promoted"
      PROVE  HeldAsBefore(w) /\ ~(Promote(w) /\ OwnsClaim(w))
  BY <1>2, <1>3, <1>8 DEF At
<1>9. CASE \/ LeaseOneTask(w) \/ Leave(w) \/ PreflightError(w) \/ StartExecution(w)
           \/ LinkTask(w) \/ PromoteRaises(w) \/ UpdateSession(w) \/ UpdateRaises(w)
           \/ GiveUpTask(w) \/ ReadControlState(w) \/ CancelAfterFailure(w)
           \/ Requeue(w) \/ Heartbeat(w) \/ Start(w)
  <2>1. held' = held
    BY <1>9
    DEF LeaseOneTask, Leave, PreflightError, StartExecution, LinkTask, PromoteRaises,
        UpdateSession, UpdateRaises, GiveUpTask, ReadControlState, CancelAfterFailure,
        Requeue, Heartbeat, Start
  <2>2. Promote(w) /\ OwnsClaim(w) => held'[w].count = held[w].count + 1
    <3>1. Promote(w) /\ OwnsClaim(w) => held' = [held EXCEPT ![w] = Advanced(held[w])]
      BY DEF Promote
    <3>2. Advanced(held[w]).count = held[w].count + 1
      BY TurnCounts, Members
    <3>3. Promote(w) /\ OwnsClaim(w) => held'[w] = Advanced(held[w])
      BY <3>1 DEF TypeInv, SessionTypeOK
    <3> QED
      BY <3>2, <3>3
  <2>3. held[w].count \in Nat
    BY Members DEF SessionState
  <2> QED
    BY <2>1, <2>2, <2>3 DEF HeldAsBefore
<1>10. CASE Operator \/ Polled \/ Time \/ UNCHANGED vars
  BY <1>8, <1>10 DEF Operator, Polled, Time, vars, HeldAsBefore
<1> QED
  BY <1>1, <1>4, <1>5, <1>6, <1>7, <1>8, <1>9, <1>10 DEF Next, Work, HeldAsBefore

(* A task enters the done tasks of a session when its promotion commits.    *)
LEMMA DoneMoves ==
  ASSUME TypeInv, LinkInv, [Next]_vars
  PROVE  \/ \A s \in Nat : DoneBy(s)' = DoneBy(s)
            /\ \A t \in DoneBy(s) : link'[t] = link[t]
         \/ \E w \in Worker, i \in Nat \ {0} :
              /\ Completed(w) /\ worker[w].task \in Task /\ held[w].id = i
              /\ link[worker[w].task] = NextTurn(w) /\ UNCHANGED <<link, session>>
              /\ worker[w].task \notin DoneBy(i)
              /\ DoneBy(i)' = DoneBy(i) \cup {worker[w].task}
              /\ \A s \in Nat \ {i} : DoneBy(s)' = DoneBy(s)
<1>1. ASSUME NEW t \in Task, row[t].status = "done"
      PROVE  row'[t].status = "done" /\ link'[t] = link[t]
  <2>1. row'[t].status = "done"
    BY <1>1, RowsStep DEF RowStep, SameRow, OthersSame, RowClaimed, RowEnded, RowCanceled,
                          RowRetried, Completed
  <2>2. ASSUME NEW w \in Worker, Linked(w),
               link' = [link EXCEPT ![worker[w].task] = NextTurn(w)]
        PROVE  link'[t] = link[t]
    BY <1>1, <2>2 DEF Linked, OwnsClaim, Owns, TypeInv, SessionTypeOK
  <2> QED
    BY <2>1, <2>2, LinkStep
<1>2. CASE \E w \in Worker : Completed(w)
  <2>1. PICK w \in Worker : Completed(w)
    BY <1>2
  <2>2. /\ worker[w].task \in Task /\ held[w].id # 0 /\ worker[w].phase = "turn"
        /\ row[worker[w].task].status = "running" /\ UNCHANGED <<link, session>>
        /\ row'[worker[w].task].status = "done"
    BY <2>1 DEF Completed, RowEnded, Promote, At, OwnsClaim, TypeInv, Shape, Idle
  <2>3. link[worker[w].task] = NextTurn(w)
    BY <2>1, <2>2 DEF Completed, OwnsClaim, LinkInv, TurnLinked
  <2>4. NextTurn(w).session = held[w].id
    BY DEF NextTurn
  <2>5. \A t \in Task : t # worker[w].task => (row'[t].status = "done" <=> row[t].status = "done")
    BY <2>1 DEF Completed, RowEnded, OthersSame, SameRow
  <2>6. PICK i \in Nat \ {0} : i = held[w].id
    BY <2>2, Members
  <2>7. DoneBy(i)' = DoneBy(i) \cup {worker[w].task}
    <3>1. \A t \in Task : (row'[t].status = "done" /\ link'[t].session = i)
             <=> (row[t].status = "done" /\ link[t].session = i) \/ t = worker[w].task
      BY <2>2, <2>3, <2>4, <2>5, <2>6
    <3>2. {t \in Task : row'[t].status = "done" /\ link'[t].session = i}
            = DoneBy(i) \cup {worker[w].task}
      BY <2>2, <3>1 DEF DoneBy
    <3> QED
      BY <3>2 DEF DoneBy
  <2>8. \A s \in Nat \ {i} : DoneBy(s)' = DoneBy(s)
    BY <2>2, <2>3, <2>4, <2>5, <2>6 DEF DoneBy
  <2>9. worker[w].task \notin DoneBy(i)
    BY <2>2 DEF DoneBy
  <2> QED
    BY <2>1, <2>2, <2>3, <2>6, <2>7, <2>8, <2>9
<1>3. CASE ~\E w \in Worker : Completed(w)
  <2>1. \A t \in Task : row'[t].status = "done" => row[t].status = "done"
    BY <1>3, DoneRow DEF SameRow
  <2> QED
    BY <1>1, <2>1 DEF DoneBy
<1> QED
  BY <1>2, <1>3

(* A worker that has begun a task, or takes its turn, has room in its       *)
(* session for one more.                                                    *)
RoomForTurn ==
  \A w \in Worker :
    held[w].id # 0 /\ worker[w].phase \in {"begun", "turn"} => held[w].count < config.budget

LEMMA RoomStep ==
  ASSUME TypeInv, RoomForTurn, [Next]_vars
  PROVE  RoomForTurn' /\ config' = config
<1>0. /\ \A v \in Worker : held[v].count \in Nat
      /\ config.budget \in Nat \ {0}
  BY Members, SessionAssumption DEF SessionState, TypeInv, SessionTypeOK
<1>a. config' = config
  BY DEF Next, Work, LeaseOneTask, NothingToLease, Leave, PreflightError, RollOver,
      StartExecution, OpenSession, LinkTask, TurnFails, TurnRateLimited, CloseRateLimited,
      Promote, PromoteRaises, UpdateSession, UpdateRaises, CloseFailed, GiveUpTask,
      ReadControlState, CancelAfterFailure, Requeue, Heartbeat, Escape, Crash, Start,
      Operator, Polled, Time, NoEvent, Event, vars
<1> SUFFICES ASSUME NEW w \in Worker, held'[w].id # 0, worker'[w].phase \in {"begun", "turn"}
             PROVE  held'[w].count < config.budget
  BY <1>a DEF RoomForTurn
<1>1. ASSUME NEW v \in Worker, v # w,
             Work(v) \/ Heartbeat(v) \/ Escape(v) \/ Crash(v) \/ Start(v)
      PROVE  worker'[w] = worker[w] /\ held'[w] = held[w]
  BY <1>1
  DEF Work, LeaseOneTask, NothingToLease, Leave, PreflightError, RollOver, StartExecution,
      OpenSession, LinkTask, TurnFails, TurnRateLimited, CloseRateLimited, Promote,
      PromoteRaises, UpdateSession, UpdateRaises, CloseFailed, GiveUpTask, ReadControlState,
      CancelAfterFailure, Requeue, Heartbeat, Escape, Crash, Start, Close, Abandon, Goto,
      LoopTop, TypeInv, SessionTypeOK
<1>2. ASSUME NEW p, p \notin {"begun", "turn"},
             Goto(w, p) \/ worker' = [worker EXCEPT ![w] = Holding(p)]
      PROVE  FALSE
  BY <1>2 DEF Goto, Holding, TypeInv, SessionTypeOK, WorkerState
<1>3. ASSUME worker'[w] = worker[w], held'[w] = held[w]
      PROVE  held'[w].count < config.budget
  BY <1>3 DEF RoomForTurn
<1>4. CASE LeaseOneTask(w)
  <2>1. PICK t \in Task, tok \in Token :
          worker' = [worker EXCEPT ![w] = [phase |-> "claimed", task |-> t, token |-> tok,
                                           execs |-> row[t].execs, limited |-> row[t].limited]]
    BY <1>4, LeaseFacts
  <2> DEFINE q == [phase |-> "claimed", task |-> t, token |-> tok,
                   execs |-> row[t].execs, limited |-> row[t].limited]
  <2>2. q.phase = "claimed"
    OBVIOUS
  <2>3. worker' = [worker EXCEPT ![w] = q]
    BY <2>1
  <2> HIDE DEF q
  <2>4. worker'[w] = q
    BY <2>3, OneMoves
  <2> QED
    BY <2>2, <2>4
<1>5. CASE StartExecution(w)
  <2>1. held' = held /\ (held[w].id # 0 => held[w].count < config.budget)
    BY <1>5 DEF StartExecution, HasSession, Fits, TaskBudget
  <2> QED
    BY <2>1
<1>6. CASE NothingToLease(w) \/ RollOver(w) \/ CloseFailed(w)
  <2>1. held' = [held EXCEPT ![w] = NoSession]
    BY <1>6 DEF NothingToLease, RollOver, CloseFailed, Close
  <2>2. held'[w] = NoSession
    BY <2>1, ChangeSession
  <2> QED
    BY <2>2 DEF NoSession
<1>7. CASE OpenSession(w)
  BY <1>0, <1>7, OpenedFields DEF HeldOpened
<1>8. CASE LinkTask(w)
  <2>1. held' = held /\ worker[w].phase = "begun"
    BY <1>8 DEF LinkTask, At
  <2> QED
    BY <2>1 DEF RoomForTurn
<1>9. ASSUME \/ Leave(w) \/ PreflightError(w) \/ TurnFails(w) \/ TurnRateLimited(w)
             \/ CloseRateLimited(w) \/ Promote(w) \/ PromoteRaises(w) \/ UpdateSession(w)
             \/ UpdateRaises(w) \/ GiveUpTask(w) \/ ReadControlState(w)
             \/ CancelAfterFailure(w) \/ Requeue(w) \/ Escape(w) \/ Crash(w) \/ Start(w)
      PROVE  \E p : /\ p \notin {"begun", "turn"}
                    /\ Goto(w, p) \/ worker' = [worker EXCEPT ![w] = Holding(p)]
  BY <1>9 DEF Leave, PreflightError, TurnFails, TurnRateLimited, CloseRateLimited, Promote,
     PromoteRaises, UpdateSession, UpdateRaises, GiveUpTask, ReadControlState,
     CancelAfterFailure, Requeue, Escape, Crash, Start, LoopTop
<1>10. Operator \/ Polled \/ Time \/ UNCHANGED vars \/ Heartbeat(w)
         => UNCHANGED <<worker, held>>
  BY DEF Operator, Polled, Time, vars, Heartbeat
<1> QED
  BY <1>1, <1>2, <1>3, <1>4, <1>5, <1>6, <1>7, <1>8, <1>9, <1>10 DEF Next, Work

(* The row of a session that is closed keeps its count, and got it from     *)
(* the worker that closed it.                                               *)
LEMMA ClosedRow ==
  ASSUME TypeInv, HeldInv, [Next]_vars, NEW s \in 1..Len(session'),
         session'[s].status # "running"
  PROVE  \/ /\ s \in 1..Len(session) /\ session[s].status # "running"
            /\ session'[s].count = session[s].count
         \/ /\ UNCHANGED <<row, link>>
            /\ \E w \in Worker : held[w].id = s /\ session'[s].count = held[w].count
<1>1. ASSUME NEW w \in Worker,
             NothingToLease(w) \/ RollOver(w) \/ CloseFailed(w) \/ CloseRateLimited(w)
      PROVE  \/ s \in 1..Len(session) /\ session'[s] = session[s]
             \/ /\ UNCHANGED <<row, link>>
                /\ held[w].id = s /\ session'[s].count = held[w].count
  <2>1. /\ HasSession(w) /\ UNCHANGED <<row, link>>
        /\ \E status \in {"finished", "failed", "rate_limited"} : Close(w, status)
    BY <1>1 DEF NothingToLease, RollOver, CloseFailed, CloseRateLimited, Closing, At, queueVars,
         HasSession, TypeInv, Shape
  <2>2. /\ Len(session') = Len(session) /\ session'[held[w].id].count = held[w].count
        /\ \A i \in 1..Len(session) : i # held[w].id => session'[i] = session[i]
    BY <2>1, CloseTypes
  <2> QED
    BY <2>1, <2>2
<1>2. ASSUME NEW w \in Worker, OpenSession(w)
      PROVE  s \in 1..Len(session) /\ session'[s] = session[s]
  <2>1. /\ Len(session') = Len(session) + 1 /\ Len(session) \in Nat
        /\ session'[Len(session) + 1].status = "running"
        /\ \A i \in 1..Len(session) : session'[i] = session[i]
    BY <1>2, OpenTyped, Members
  <2>2. s # Len(session) + 1
    BY <2>1
  <2> QED
    BY <2>1, <2>2
<1>3. ASSUME NEW w \in Worker, UpdateSession(w) \/ UpdateRaises(w)
      PROVE  s \in 1..Len(session) /\ session'[s] = session[s]
  <2>1. /\ HasSession(w)
        /\ \/ session' = session
           \/ session' = [session EXCEPT ![held[w].id].count = held[w].count]
    BY <1>3 DEF UpdateSession, UpdateRaises, At, TypeInv, Shape, HasSession
  <2>2. CASE session' = session
    BY <2>2
  <2>3. CASE session' = [session EXCEPT ![held[w].id].count = held[w].count]
    <3>1. /\ Len(session') = Len(session)
          /\ \A i \in 1..Len(session) : session'[i].status = session[i].status
          /\ \A i \in 1..Len(session) : i # held[w].id => session'[i] = session[i]
      BY <2>1, <2>3, CountTypes
    <3>2. s \in 1..Len(session) /\ session[s].status # "running"
      BY <3>1
    <3>3. s # held[w].id
      BY <3>2 DEF HeldInv
    <3> QED
      BY <3>1, <3>2, <3>3
  <2> QED
    BY <2>1, <2>2, <2>3
<1>4. ASSUME NEW w \in Worker,
             \/ LeaseOneTask(w) \/ Leave(w) \/ PreflightError(w) \/ StartExecution(w)
             \/ LinkTask(w) \/ GiveUpTask(w) \/ ReadControlState(w) \/ CancelAfterFailure(w)
             \/ Requeue(w) \/ Heartbeat(w) \/ Start(w) \/ TurnFails(w) \/ TurnRateLimited(w)
             \/ Promote(w) \/ PromoteRaises(w) \/ Escape(w) \/ Crash(w)
      PROVE  session' = session
  BY <1>4
  DEF LeaseOneTask, Leave, PreflightError, StartExecution, LinkTask, GiveUpTask,
      ReadControlState, CancelAfterFailure, Requeue, Heartbeat, Start, TurnFails,
      TurnRateLimited, Promote, PromoteRaises, Escape, Crash
<1>5. Operator \/ Polled \/ Time \/ UNCHANGED vars => session' = session
  BY DEF Operator, Polled, Time, vars
<1> QED
  BY <1>1, <1>2, <1>3, <1>4, <1>5 DEF Next, Work

(* The numbers of the done tasks, the count in memory and in the row.       *)
Numbered(s) ==
  /\ IsFiniteSet(DoneBy(s))
  /\ {link[t].index : t \in DoneBy(s)} = 1..Cardinality(DoneBy(s))
  /\ Cardinality(DoneBy(s)) <= config.budget

CountInv ==
  /\ \A s \in Nat : Numbered(s) /\ (s > Len(session) => DoneBy(s) = {})
  /\ \A w \in Worker : held[w].id # 0 => Cardinality(DoneBy(held[w].id)) = held[w].count
  /\ ClosedCountsDone
  /\ RoomForTurn

LEMMA PromoteCompletes ==
  ASSUME TypeInv, NEW w \in Worker, Promote(w), OwnsClaim(w)
  PROVE  Completed(w)
<1>1. worker[w].task \in Task /\ Release(worker[w].task, worker[w].token, "done")
  BY Members DEF Promote, At, Idle, MarkTaskDone
<1>2. RowEnded(worker[w].task, "done")
  BY <1>1, ReleaseRow DEF OwnsClaim, TaskStatus
<1> QED
  BY <1>2 DEF Completed

(* Steps in which no task is done.                                          *)
LEMMA CountKept ==
  ASSUME TypeInv, HeldInv, CountInv, [Next]_vars,
         \A s \in Nat : DoneBy(s)' = DoneBy(s) /\ \A t \in DoneBy(s) : link'[t] = link[t],
         ~\E w \in Worker : Completed(w)
  PROVE  CountInv'
<1>1. Len(session) \in Nat
  BY LenProperties DEF TypeInv, SessionTypeOK
<1>2. \A s \in Nat : Numbered(s)'
  <2> TAKE s \in Nat
  <2>1. DoneBy(s)' = DoneBy(s) /\ \A t \in DoneBy(s) : link'[t] = link[t]
    OBVIOUS
  <2>2. {link'[t].index : t \in DoneBy(s)} = {link[t].index : t \in DoneBy(s)}
    BY <2>1
  <2>3. config' = config
    BY RoomStep DEF CountInv
  <2> QED
    BY <2>1, <2>2, <2>3 DEF CountInv, Numbered
<1>3. \A s \in Nat : s > Len(session') => DoneBy(s)' = {}
  <2>1. Len(session') = Len(session) \/ Len(session') = Len(session) + 1
    BY SessionStep DEF SessionsSame, RowsSame, SessionClosed, SessionOpened, SessionAbandoned
  <2>2. \A s \in Nat : s > Len(session') => s > Len(session)
    BY <1>1, <2>1
  <2> QED
    BY <2>2 DEF CountInv
<1>4. ASSUME NEW w \in Worker, NEW i \in Nat \ {0}, held'[w].id = i
      PROVE  Cardinality(DoneBy(i)') = held'[w].count
  <2>1. DoneBy(i)' = DoneBy(i)
    OBVIOUS
  <2>2. CASE HeldAsBefore(w)
    BY <1>4, <2>1, <2>2 DEF HeldAsBefore, CountInv
  <2>3. CASE Promote(w) /\ OwnsClaim(w)
    BY <2>3, PromoteCompletes
  <2>4. CASE HeldOpened(w)
    <3>1. i > Len(session) /\ held'[w].count = 0
      BY <1>1, <1>4, <2>4 DEF HeldOpened
    <3>2. DoneBy(i) = {}
      BY <3>1 DEF CountInv
    <3> QED
      BY <2>1, <3>1, <3>2, FS_EmptySet
  <2> QED
    BY <1>4, <2>2, <2>3, <2>4, HeldMoves
<1>5. ASSUME NEW s \in 1..Len(session'), session'[s].status # "running"
      PROVE  session'[s].count = Cardinality(DoneBy(s)')
  <2>1. s \in Nat /\ s # 0 /\ DoneBy(s)' = DoneBy(s)
    OBVIOUS
  <2>2. CASE /\ s \in 1..Len(session) /\ session[s].status # "running"
             /\ session'[s].count = session[s].count
    BY <2>1, <2>2 DEF CountInv, ClosedCountsDone, SessionIds
  <2>3. ASSUME NEW w \in Worker, held[w].id = s, session'[s].count = held[w].count
        PROVE  session'[s].count = Cardinality(DoneBy(s)')
    BY <2>1, <2>3 DEF CountInv
  <2> QED
    BY <1>5, <2>2, <2>3, ClosedRow
<1>6. \A w \in Worker : held'[w].id \in Nat
  <2>1. TypeInv'
    BY TypeStep
  <2> QED
    BY <2>1, SessionAssumption DEF TypeInv, SessionTypeOK, SessionState
<1>7. \A w \in Worker :
        held'[w].id # 0 => Cardinality(DoneBy(held[w].id))' = held'[w].count
  <2> SUFFICES ASSUME NEW w \in Worker, held'[w].id # 0
               PROVE  Cardinality(DoneBy(held[w].id))' = held'[w].count
    OBVIOUS
  <2>1. PICK i \in Nat \ {0} : i = held'[w].id
    BY <1>6
  <2> QED
    BY <1>4, <2>1 DEF DoneBy
<1>8. ClosedCountsDone'
  BY <1>5 DEF ClosedCountsDone, SessionIds
<1>9. RoomForTurn'
  BY RoomStep DEF CountInv
<1> QED
  BY <1>2, <1>3, <1>7, <1>8, <1>9 DEF CountInv

(* The step in which a task is done.                                        *)
LEMMA CountCompleted ==
  ASSUME TypeInv, HeldInv, CountInv, [Next]_vars, NEW w \in Worker, NEW i \in Nat \ {0},
         Completed(w), worker[w].task \in Task, held[w].id = i,
         link[worker[w].task] = NextTurn(w), UNCHANGED <<link, session>>,
         worker[w].task \notin DoneBy(i), DoneBy(i)' = DoneBy(i) \cup {worker[w].task},
         \A s \in Nat \ {i} : DoneBy(s)' = DoneBy(s)
  PROVE  CountInv'
<1> DEFINE t == worker[w].task
           n == Cardinality(DoneBy(i))
<1>1. /\ IsFiniteSet(DoneBy(i)) /\ {link[u].index : u \in DoneBy(i)} = 1..n
      /\ n = held[w].count /\ n \in Nat
  BY FS_CardinalityType DEF CountInv, Numbered
<1>2. n < config.budget /\ config.budget \in Nat /\ config' = config
  <2>1. worker[w].phase = "turn"
    BY DEF Completed, Promote, At
  <2>2. config' = config
    BY RoomStep DEF CountInv
  <2> QED
    BY <1>1, <2>1, <2>2, SessionAssumption DEF CountInv, RoomForTurn, TypeInv, SessionTypeOK
<1>3. link[t].index = n + 1
  BY <1>1 DEF NextTurn
<1>4. IsFiniteSet(DoneBy(i)') /\ Cardinality(DoneBy(i)') = n + 1
  <2>1. PICK D : D = DoneBy(i)
    OBVIOUS
  <2>2. IsFiniteSet(D) /\ t \notin D /\ n = Cardinality(D)
    BY <1>1, <2>1
  <2> HIDE DEF t, n
  <2>3. IsFiniteSet(D \cup {t}) /\ Cardinality(D \cup {t}) = n + 1
    BY <2>2, FS_AddElement
  <2>4. DoneBy(i)' = D \cup {t}
    BY <2>1 DEF t
  <2> QED
    BY <2>3, <2>4
<1>5. {link'[u].index : u \in DoneBy(i)'} = 1..(n + 1)
  <2>1. {link'[u].index : u \in DoneBy(i)'} = {link[u].index : u \in DoneBy(i)} \cup {link[t].index}
    OBVIOUS
  <2>2. 1..(n + 1) = 1..n \cup {n + 1}
    BY <1>1
  <2> QED
    BY <1>1, <1>3, <2>1, <2>2
<1> HIDE DEF t, n
<1>6. \A s \in Nat : Numbered(s)'
  <2> TAKE s \in Nat
  <2>1. CASE s = i
    <3>1. IsFiniteSet(DoneBy(i))' /\ Cardinality(DoneBy(i))' = n + 1
      BY <1>4
    <3>2. {link[u].index : u \in DoneBy(i)}' = 1..(n + 1) /\ n + 1 <= config'.budget
      BY <1>1, <1>2, <1>5 DEF n
    <3>3. Numbered(i)'
      BY <3>1, <3>2 DEF Numbered
    <3> QED
      BY <2>1, <3>3
  <2>2. CASE s # i
    <3>1. DoneBy(s)' = DoneBy(s) /\ Numbered(s)
      BY <2>2 DEF CountInv
    <3> QED
      BY <1>2, <3>1 DEF Numbered
  <2> QED
    BY <2>1, <2>2
<1>7. i \in 1..Len(session) /\ session[i].status = "running"
  BY Members DEF HeldInv, HasSession
<1>8. \A s \in Nat : s > Len(session') => DoneBy(s)' = {}
  BY <1>7, Members DEF CountInv
<1>9. /\ held'[w].id = i /\ held'[w].count = n + 1
      /\ \A v \in Worker : v # w => held'[v] = held[v]
  <2>1. held' = [held EXCEPT ![w] = Advanced(held[w])]
    BY DEF Completed, Promote
  <2>2. held'[w] = Advanced(held[w]) /\ \A v \in Worker : v # w => held'[v] = held[v]
    BY <2>1 DEF TypeInv, SessionTypeOK
  <2> QED
    BY <1>1, <2>2, AdvancedType, TurnCounts, Members
<1>10. \A v \in Worker :
        held'[v].id # 0 => Cardinality(DoneBy(held[v].id))' = held'[v].count
  <2> SUFFICES ASSUME NEW v \in Worker, held'[v].id # 0
               PROVE  Cardinality(DoneBy(held[v].id))' = held'[v].count
    OBVIOUS
  <2>1. CASE v = w
    BY <1>4, <1>9, <2>1 DEF DoneBy
  <2>2. CASE v # w
    <3>1. PICK j \in Nat \ {0} : j = held[v].id
      BY <1>9, <2>2, Members
    <3>2. j # i /\ held'[v] = held[v]
      BY <1>9, <2>2, <3>1 DEF HeldInv
    <3>3. Cardinality(DoneBy(j)') = held'[v].count
      BY <3>1, <3>2 DEF CountInv
    <3> QED
      BY <3>1, <3>2, <3>3 DEF DoneBy
  <2> QED
    BY <2>1, <2>2
<1>11. ClosedCountsDone'
  BY <1>7 DEF CountInv, ClosedCountsDone, SessionIds
<1>12. RoomForTurn'
  BY RoomStep DEF CountInv
<1> QED
  BY <1>6, <1>8, <1>10, <1>11, <1>12 DEF CountInv

LEMMA CountStep ==
  ASSUME TypeInv, HeldInv, LinkInv, CountInv, [Next]_vars
  PROVE  CountInv'
<1>1. CASE \E w \in Worker : Completed(w)
  <2>1. PICK w \in Worker : Completed(w)
    BY <1>1
  <2>2. worker[w].task \in Task /\ row[worker[w].task].status = "running"
        /\ row'[worker[w].task].status = "done"
    BY <2>1 DEF Completed, OwnsClaim, Owns, RowEnded, Promote, At, TypeInv, Shape, Idle
  <2>3. link[worker[w].task] = NextTurn(w) /\ link' = link
    BY <2>1, <2>2 DEF Completed, Promote, At, OwnsClaim, LinkInv, TurnLinked
  <2>4. ~\A s \in Nat : DoneBy(s)' = DoneBy(s)
    <3>1. PICK i \in Nat : i = link[worker[w].task].session
      BY <2>3, Members DEF NextTurn
    <3>2. worker[w].task \in DoneBy(i)' /\ worker[w].task \notin DoneBy(i)
      BY <2>2, <2>3, <3>1 DEF DoneBy
    <3> QED
      BY <3>2
  <2> QED
    BY <2>4, DoneMoves, CountCompleted
<1>2. CASE ~\E w \in Worker : Completed(w)
  BY <1>2, DoneMoves, CountKept
<1> QED
  BY <1>1, <1>2

(* No task is done and no conversation open when the run starts.            *)
LEMMA CountInit == Init => CountInv
<1> SUFFICES ASSUME Init
             PROVE  CountInv
  OBVIOUS
<1>1. \A s \in Nat : DoneBy(s) = {}
  BY DEF Init, QueueInit, NewRow, DoneBy
<1>2. Cardinality({}) = 0 /\ IsFiniteSet({})
  BY FS_EmptySet
<1>3. \A s \in Nat : Numbered(s)
  <2> TAKE s \in Nat
  <2>1. {link[u].index : u \in DoneBy(s)} = 1..0
    BY <1>1
  <2>2. config.budget >= 0
    BY TypeInit, SessionAssumption DEF TypeInv, SessionTypeOK
  <2> QED
    BY <1>1, <1>2, <2>1, <2>2 DEF Numbered
<1>4. Len(session) = 0 /\ \A w \in Worker : held[w].id = 0
  BY DEF Init, NoSession
<1>5. ClosedCountsDone
  BY <1>4 DEF ClosedCountsDone, SessionIds
<1>6. RoomForTurn
  BY <1>4 DEF RoomForTurn
<1> QED
  BY <1>1, <1>3, <1>4, <1>5, <1>6 DEF CountInv

LEMMA CountsKept == Spec => [](CountInv /\ TypeInv)
<1>1. Init => TypeInv /\ HeldInv /\ LinkInv /\ CountInv
  <2>1. Init => HeldInv
    BY DEF Init, HeldInv, NoSession
  <2>2. Init => LinkInv
    BY DEF Init, QueueInit, NewRow, Holding, LinkInv, ClaimsDistinct, LinkTellsOutput, TurnLinked
  <2> QED
    BY <2>1, <2>2, TypeInit, CountInit
<1>2. TypeInv /\ HeldInv /\ LinkInv /\ CountInv /\ [Next]_vars
        => (TypeInv /\ HeldInv /\ LinkInv /\ CountInv)'
  BY TypeStep, HeldStep, LinkInvStep, CountStep
<1> QED
  BY <1>1, <1>2, PTL DEF Spec

(* The done tasks of a conversation are its turns 1, 2, 3, ... without gap  *)
(* or repetition and never more than the task budget, for every order in    *)
(* which turns fail, leases are lost and conversations are closed.          *)
THEOREM TurnsAlways == Spec => []TurnsNumbered
<1>1. CountInv /\ TypeInv => TurnsNumbered
  <2> SUFFICES ASSUME CountInv, TypeInv, NEW s \in SessionIds
               PROVE  /\ {link[t].index : t \in DoneBy(s)} = 1..Cardinality(DoneBy(s))
                      /\ Cardinality(DoneBy(s)) <= TaskBudget
    BY DEF TurnsNumbered
  <2>1. s \in Nat
    BY DEF SessionIds, TypeInv, SessionTypeOK
  <2> QED
    BY <2>1 DEF CountInv, Numbered, TaskBudget
<1> QED
  BY <1>1, CountsKept, PTL

(* The row of a closed conversation counts exactly the tasks done in it.    *)
THEOREM CountsAlways == Spec => []ClosedCountsDone
<1>1. CountInv /\ TypeInv => ClosedCountsDone
  BY DEF CountInv
<1> QED
  BY <1>1, CountsKept, PTL
==============================================================================
