---------------------------- MODULE JobLifecycle ----------------------------
(***************************************************************************)
(* What the job engine promises, with leases, clocks and workers hidden:   *)
(* an intent is queued once, started at most MaxAttempts times, one start  *)
(* at a time, and never leaves SUCCEEDED or DEAD.                          *)
(***************************************************************************)
EXTENDS Naturals

CONSTANTS Jobs, MaxAttempts

VARIABLES
  state,       (* the state of every intent, "ABSENT" before it is queued  *)
  attempts     (* how often it was started                                 *)

vars == <<state, attempts>>

Init ==
  /\ state = [j \in Jobs |-> "ABSENT"]
  /\ attempts = [j \in Jobs |-> 0]

Enqueue(j) ==
  /\ state[j] = "ABSENT" /\ state'[j] = "QUEUED"
  /\ attempts'[j] = 0

(* A first start, a retry, or the takeover of an attempt that was lost. *)
Start(j) ==
  /\ state[j] \in {"QUEUED", "RUNNING"} /\ state'[j] = "RUNNING"
  /\ attempts[j] < MaxAttempts
  /\ attempts'[j] = attempts[j] + 1

Succeed(j) ==
  /\ state[j] = "RUNNING" /\ state'[j] = "SUCCEEDED"
  /\ attempts'[j] = attempts[j]

(* Only a job with attempts left goes back to the queue. *)
Requeue(j) ==
  /\ state[j] = "RUNNING" /\ state'[j] = "QUEUED"
  /\ attempts[j] < MaxAttempts
  /\ attempts'[j] = attempts[j]

Die(j) ==
  /\ state[j] = "RUNNING" /\ state'[j] = "DEAD"
  /\ attempts'[j] = attempts[j]

Stay(j) ==
  /\ state'[j] = state[j]
  /\ attempts'[j] = attempts[j]

(* One step of the engine: at most one job is started, and the jobs it     *)
(* buries on the way are others.                                           *)
Next ==
  /\ DOMAIN state' = Jobs
  /\ DOMAIN attempts' = Jobs
  /\ \A j \in Jobs :
       Enqueue(j) \/ Start(j) \/ Succeed(j) \/ Requeue(j) \/ Die(j) \/ Stay(j)
  /\ \A i, j \in Jobs : Start(i) /\ Start(j) => i = j

Spec == Init /\ [][Next]_vars
=============================================================================
