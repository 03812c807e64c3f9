------------------------------ MODULE JobStore ------------------------------
(***************************************************************************)
(* The jobs table and the statements that change it                        *)
(* (internal/platform/postgres/jobstore/store.go).  A row is written by    *)
(* one INSERT, one claim transaction, one Complete or one Fail statement;  *)
(* each is atomic in PostgreSQL and is one operator here.  All times come  *)
(* from the caller: the store never asks the database for the time.        *)
(*                                                                         *)
(* The columns no guard reads (payload, kind, last_error_code and the      *)
(* created, updated, started and completed timestamps) are left out; a job *)
(* stands for one intent key.                                              *)
(***************************************************************************)
EXTENDS Naturals

CONSTANTS
  Jobs,          (* the intent keys that may be enqueued                   *)
  Workers,       (* worker identities: each process start draws a new one  *)
  NoWorker,      (* lease_owner IS NULL                                    *)
  MaxAttempts    (* max_attempts of every intent                           *)

ASSUME JobStoreAssumption ==
  /\ MaxAttempts \in Nat \ {0}
  /\ NoWorker \notin Workers

VARIABLE job     (* the row of every intent key                            *)

Null == 0        (* the zero time, and a NULL timestamp                    *)

States == {"QUEUED", "RUNNING", "SUCCEEDED", "DEAD"}

Row == [state          : {"ABSENT"} \cup States,
        attempts       : 0..MaxAttempts,
        availableAt    : Nat,
        leaseOwner     : Workers \cup {NoWorker},
        leaseExpiresAt : Nat]

AbsentRow == [state |-> "ABSENT", attempts |-> 0, availableAt |-> Null,
              leaseOwner |-> NoWorker, leaseExpiresAt |-> Null]

(* A row without a lease, in state s. *)
Unleased(row, s) ==
  [row EXCEPT !.state = s, !.leaseOwner = NoWorker, !.leaseExpiresAt = Null]

StoreInit == job = [j \in Jobs |-> AbsentRow]

-----------------------------------------------------------------------------
(* Enqueue inserts the intent once; ON CONFLICT (intent_key) DO NOTHING    *)
(* makes every later call a read of the existing row, whatever its state.  *)
EnqueueTx(j, at) ==
  /\ job[j].state = "ABSENT"
  /\ job' = [job EXCEPT ![j] = [AbsentRow EXCEPT !.state = "QUEUED",
                                                 !.availableAt = at]]

-----------------------------------------------------------------------------
(* The claim transaction, at the time t the caller sampled.                *)

(* Variant for the mutation runs: the expiry is not compared. *)
LeaseExpiredAnyTime(row, t) == row.state = "RUNNING"

LeaseExpired(row, t) == row.state = "RUNNING" /\ row.leaseExpiresAt <= t

(* The rows of the transaction's first UPDATE: out of attempts and out of  *)
(* lease.                                                                  *)
Exhausted(t) ==
  {j \in Jobs : LeaseExpired(job[j], t) /\ job[j].attempts >= MaxAttempts}

(* Variant: attempts < max_attempts is missing. *)
DueWithoutLimit(t) ==
  {j \in Jobs :
     \/ job[j].state = "QUEUED" /\ job[j].availableAt <= t
     \/ LeaseExpired(job[j], t)}

(* The candidates of its second statement. *)
Due(t) ==
  {j \in Jobs :
     /\ \/ job[j].state = "QUEUED" /\ job[j].availableAt <= t
        \/ LeaseExpired(job[j], t)
     /\ job[j].attempts < MaxAttempts}

(* COALESCE(lease_expires_at, available_at) *)
DueAt(row) ==
  IF row.state = "RUNNING" THEN row.leaseExpiresAt ELSE row.availableAt

(* ORDER BY: expired leases first, then the earliest due time.  Ties,      *)
(* which the code breaks by created_at and a random id, stay open.         *)
Precedes(i, j) ==
  \/ job[i].state = "RUNNING" /\ job[j].state # "RUNNING"
  \/ job[i].state = job[j].state /\ DueAt(job[i]) < DueAt(job[j])

(* Variant: expired leases are not taken over. *)
CandidatesQueuedOnly(t, locked) ==
  {j \in Due(t) \ locked :
     /\ job[j].state = "QUEUED"
     /\ \A i \in Due(t) \ locked : ~Precedes(i, j)}

(* FOR UPDATE SKIP LOCKED LIMIT 1: a row in locked is passed over. *)
Candidates(t, locked) ==
  {j \in Due(t) \ locked : \A i \in Due(t) \ locked : ~Precedes(i, j)}

(* A claim that finds candidate j commits both statements. *)
ClaimTx(w, t, leaseDuration, locked, j) ==
  /\ j \in Candidates(t, locked)
  /\ job' = [k \in Jobs |->
               IF k = j
               THEN [job[k] EXCEPT !.state = "RUNNING",
                                   !.attempts = @ + 1,
                                   !.leaseOwner = w,
                                   !.leaseExpiresAt = t + leaseDuration]
               ELSE IF k \in Exhausted(t) THEN Unleased(job[k], "DEAD")
               ELSE job[k]]

(* A claim that finds no candidate returns ErrNoJob from inside the        *)
(* transaction, which rolls the first UPDATE back as well.                 *)
ClaimNoneTx(t, locked) ==
  /\ Candidates(t, locked) = {}
  /\ UNCHANGED job

-----------------------------------------------------------------------------
(* Variant: lease_owner is not compared. *)
LeasedByAnyone(j, w, t) ==
  /\ job[j].state = "RUNNING"
  /\ job[j].leaseExpiresAt > t

(* The WHERE clause of Complete and Fail.  It names the worker, not the    *)
(* attempt.                                                                *)
Leased(j, w, t) ==
  /\ job[j].state = "RUNNING"
  /\ job[j].leaseOwner = w
  /\ job[j].leaseExpiresAt > t

CompleteTx(j, w, t) ==
  /\ Leased(j, w, t)
  /\ job' = [job EXCEPT ![j] = Unleased(@, "SUCCEEDED")]

(* Variant: the last attempt is counted as one earlier. *)
FailTxOffByOne(j, w, t, retryAt, terminal) ==
  /\ Leased(j, w, t)
  /\ job' = [job EXCEPT ![j] =
       [Unleased(@, IF terminal \/ @.attempts + 1 >= MaxAttempts
                    THEN "DEAD" ELSE "QUEUED")
         EXCEPT !.availableAt = retryAt]]

(* Variant: attempts are not compared, so a used-up job is queued again. *)
FailTxRequeues(j, w, t, retryAt, terminal) ==
  /\ Leased(j, w, t)
  /\ job' = [job EXCEPT ![j] =
       [Unleased(@, IF terminal THEN "DEAD" ELSE "QUEUED")
         EXCEPT !.availableAt = retryAt]]

FailTx(j, w, t, retryAt, terminal) ==
  /\ Leased(j, w, t)
  /\ job' = [job EXCEPT ![j] =
       [Unleased(@, IF terminal \/ @.attempts >= MaxAttempts
                    THEN "DEAD" ELSE "QUEUED")
         EXCEPT !.availableAt = retryAt]]

(* Either statement matches no row: ErrLeaseLost. *)
LeaseLostTx(j, w, t) ==
  /\ ~Leased(j, w, t)
  /\ UNCHANGED job
=============================================================================
