----------------------------- MODULE TaskLedger ------------------------------
(***************************************************************************)
(* What the queue promises about each task, without clocks, heartbeats,    *)
(* files in the making or processes that die: a task is held by one claim  *)
(* at a time, only the claim that holds it can complete it, the output of  *)
(* a completed task is the one its last holder produced, and neither       *)
(* changes afterwards.                                                     *)
(***************************************************************************)
CONSTANTS Task,
          ClaimId,  \* the names of claims
          NoClaim

VARIABLES state,    \* queued, running, done, error or canceled
          holder,   \* the claim that holds a running task
          output    \* the claim whose output a done task has

LedgerInit ==
  /\ state = [t \in Task |-> "queued"]
  /\ holder = [t \in Task |-> NoClaim]
  /\ output = [t \in Task |-> NoClaim]

(* A free task is taken, or a held one taken over under a new claim. *)
Acquire(t, c) ==
  /\ state[t] \in {"queued", "running"}
  /\ holder[t] # c
  /\ state' = [state EXCEPT ![t] = "running"]
  /\ holder' = [holder EXCEPT ![t] = c]
  /\ UNCHANGED output

Drop(t, s) ==
  /\ state[t] = "running"
  /\ state' = [state EXCEPT ![t] = s]
  /\ holder' = [holder EXCEPT ![t] = NoClaim]
  /\ UNCHANGED output

Complete(t) ==
  /\ state[t] = "running"
  /\ state' = [state EXCEPT ![t] = "done"]
  /\ holder' = [holder EXCEPT ![t] = NoClaim]
  /\ output' = [output EXCEPT ![t] = holder[t]]

Cancel(S) ==
  /\ \A t \in S : state[t] \in {"queued", "running"}
  /\ state' = [t \in Task |-> IF t \in S THEN "canceled" ELSE state[t]]
  /\ holder' = [t \in Task |-> IF t \in S THEN NoClaim ELSE holder[t]]
  /\ UNCHANGED output

RetryErrors ==
  /\ state' = [t \in Task |-> IF state[t] = "error" THEN "queued" ELSE state[t]]
  /\ UNCHANGED <<holder, output>>

LedgerNext ==
  \/ \E t \in Task, c \in ClaimId : Acquire(t, c)
  \/ \E t \in Task : \E s \in {"queued", "error", "canceled"} : Drop(t, s)
  \/ \E t \in Task : Complete(t)
  \/ \E S \in SUBSET Task : Cancel(S)
  \/ RetryErrors

LedgerSpec == LedgerInit /\ [][LedgerNext]_<<state, holder, output>>
==============================================================================
