----------------------------- MODULE JobWorker ------------------------------
(***************************************************************************)
(* Worker processes that lease jobs, run their handlers and report the     *)
(* outcome (internal/app/worker/app.go, internal/modules/jobs/service.go), *)
(* on top of the jobs table of module JobStore.                            *)
(*                                                                         *)
(* Every call of the queue samples the process's own clock first and       *)
(* reaches the database later, so the sample and the statement are two     *)
(* steps, and anything may happen between them.  A worker is one process:  *)
(* a restarted one has a new identity.                                     *)
(***************************************************************************)
EXTENDS JobStore, RetryBackoff, FiniteSets

CONSTANTS
  MaxConcurrency,  (* HUBCR_WORKER_MAX_CONCURRENCY                         *)
  LeaseDuration,   (* HUBCR_WORKER_LEASE_DURATION                          *)
  JobTimeout,      (* HUBCR_WORKER_JOB_TIMEOUT                             *)
  OpTimeout,       (* HUBCR_DATABASE_CONNECT_TIMEOUT: bound on one report  *)
  ClaimDelay,      (* longest time a claim takes to reach the database;    *)
                   (* the code sets no bound, timely steps assume this one *)
  RetryBase,       (* HUBCR_WORKER_RETRY_BASE                              *)
  RetryMax,        (* HUBCR_WORKER_RETRY_MAX                               *)
  Skew,            (* how far each process's clock is ahead of real time   *)
  MaxSkew,         (* the largest skew                                     *)
  Fallible,        (* the workers that may be stopped or may crash         *)
  MaxTime          (* bound of the clock, for TLC                          *)

ASSUME WorkerAssumption ==
  /\ MaxConcurrency \in 1..64
  /\ JobTimeout \in Nat \ {0}
  /\ LeaseDuration \in Nat
  /\ LeaseDuration > JobTimeout
  /\ OpTimeout \in Nat \ {0}
  /\ ClaimDelay \in Nat
  /\ RetryMax \in 1..MaxDuration
  /\ RetryBase \in 1..RetryMax
  /\ MaxSkew \in Nat
  /\ Skew \in [Workers -> 0..MaxSkew]
  /\ Fallible \subseteq Workers
  /\ MaxTime \in Nat

VARIABLES
  now,        (* real time                                                 *)
  proc,       (* the life of each worker process                           *)
  claimAt,    (* the time sampled by a claim in flight, or Null            *)
  running,    (* the executions: goroutines between claim and report       *)
  verdicts    (* history: what handlers returned for each job in time      *)

procVars == <<claimAt, running, verdicts>>
vars == <<job, now, proc, claimAt, running, verdicts>>

(* op is "none" while the handler runs, and then the report under way.     *)
(* leaseExpiresAt is the lease the claim returned, deadline the end of     *)
(* the handler's context, opAt the time sampled for the report.            *)
Execution ==
  [job            : Jobs,
   attempt        : 1..MaxAttempts,
   worker         : Workers,
   leaseExpiresAt : Nat,
   deadline       : Nat,
   op             : {"none", "complete", "retry", "terminal"},
   opAt           : Nat]

TypeOK ==
  /\ job \in [Jobs -> Row]
  /\ now \in Nat \ {0}
  /\ proc \in [Workers -> {"up", "draining", "down"}]
  /\ claimAt \in [Workers -> Nat]
  /\ running \subseteq Execution
  /\ verdicts \in [Jobs -> SUBSET {"complete", "terminal"}]

Clock(w) == now + Skew[w]

Active(w) == {e \in running : e.worker = w}

Init ==
  /\ StoreInit
  /\ now = 1
  /\ proc = [w \in Workers |-> "up"]
  /\ claimAt = [w \in Workers |-> Null]
  /\ running = {}
  /\ verdicts = [j \in Jobs |-> {}]

-----------------------------------------------------------------------------
(* The control plane enqueues an intent, due at once. *)
Enqueue(j) ==
  /\ EnqueueTx(j, now)
  /\ UNCHANGED <<now, proc, procVars>>

(* The inner loop of Run: below MaxConcurrency and not stopping, sample    *)
(* the clock and send a claim.  One loop per process, so one claim at a    *)
(* time.                                                                   *)
BeginClaim(w) ==
  /\ proc[w] = "up"
  /\ claimAt[w] = Null
  /\ Cardinality(Active(w)) < MaxConcurrency
  /\ claimAt' = [claimAt EXCEPT ![w] = Clock(w)]
  /\ UNCHANGED <<job, now, proc, running, verdicts>>

(* Rows another transaction may hold locked while w's claim runs: those    *)
(* of a report on its way and, if another claim is in flight, any.         *)
Lockable(w) ==
  {j \in Jobs :
     \/ \E e \in running : e.job = j /\ e.op # "none"
     \/ \E v \in Workers \ {w} : claimAt[v] # Null}

(* A claim in flight reaches the database and takes j. *)
Take(w, j) ==
  /\ proc[w] # "down"
  /\ claimAt[w] # Null
  /\ \E locked \in SUBSET Lockable(w) :
       ClaimTx(w, claimAt[w], LeaseDuration, locked, j)
  /\ claimAt' = [claimAt EXCEPT ![w] = Null]

(* The claim returns the job and its goroutine starts: the handler's       *)
(* context runs from here.                                                 *)
Claim(w, j) ==
  /\ Take(w, j)
  /\ running' = running \cup
       {[job |-> j, attempt |-> job'[j].attempts, worker |-> w,
         leaseExpiresAt |-> job'[j].leaseExpiresAt,
         deadline |-> now + JobTimeout, op |-> "none", opAt |-> Null]}
  /\ UNCHANGED <<now, proc, verdicts>>

(* The claim commits but its reply is lost: nobody runs the job. *)
LoseClaim(w, j) ==
  /\ Take(w, j)
  /\ UNCHANGED <<now, proc, running, verdicts>>

(* ErrNoJob: the loop goes back to waiting. *)
FindNoJob(w) ==
  /\ proc[w] # "down"
  /\ claimAt[w] # Null
  /\ \E locked \in SUBSET Lockable(w) : ClaimNoneTx(claimAt[w], locked)
  /\ claimAt' = [claimAt EXCEPT ![w] = Null]
  /\ UNCHANGED <<now, proc, running, verdicts>>

(* The database is unavailable, or the stop signal cancels the call. *)
FailClaim(w) ==
  /\ proc[w] # "down"
  /\ claimAt[w] # Null
  /\ claimAt' = [claimAt EXCEPT ![w] = Null]
  /\ UNCHANGED <<job, now, proc, running, verdicts>>

-----------------------------------------------------------------------------
(* execute, up to the report.                                              *)

(* The handler returns before its context ends: nil, a retryable error or  *)
(* a permanent one.                                                        *)
HandlerReturns(e, op) ==
  /\ e.op = "none"
  /\ proc[e.worker] = "up"
  /\ now < e.deadline
  /\ running' = (running \ {e}) \cup
                  {[e EXCEPT !.op = op, !.opAt = Clock(e.worker)]}
  /\ verdicts' = [verdicts EXCEPT ![e.job] = @ \cup ({op} \ {"retry"})]
  /\ UNCHANGED <<job, now, proc, claimAt>>

(* JOB_TIMEOUT: whatever the handler returned, its context had ended. *)
HandlerTimesOut(e) ==
  /\ e.op = "none"
  /\ proc[e.worker] = "up"
  /\ now >= e.deadline
  /\ running' = (running \ {e}) \cup
                  {[e EXCEPT !.op = "retry", !.opAt = Clock(e.worker)]}
  /\ UNCHANGED <<job, now, proc, claimAt, verdicts>>

(* The process is stopping: the outcome is dropped and the lease left to   *)
(* expire, even when the handler had succeeded.                            *)
Defer(e) ==
  /\ e.op = "none"
  /\ proc[e.worker] = "draining"
  /\ running' = running \ {e}
  /\ UNCHANGED <<job, now, proc, claimAt, verdicts>>

(* The report, Complete or Fail, reaches the database: one UPDATE, which   *)
(* takes the row's lock, and its COMMIT, which is sent only when the       *)
(* UPDATE has answered.  Report is the UPDATE of a transaction that will   *)
(* commit.  Nobody reads or writes the row before it does, even if that is *)
(* after OpTimeout has cut off the caller.                                 *)
Report(e) ==
  /\ e.op # "none"
  /\ \/ /\ e.op = "complete"
        /\ CompleteTx(e.job, e.worker, e.opAt)
     \/ /\ e.op # "complete"
        /\ FailTx(e.job, e.worker, e.opAt,
                  e.opAt + retryBackoff(RetryBase, RetryMax, e.attempt),
                  e.op = "terminal")
     \/ LeaseLostTx(e.job, e.worker, e.opAt)
  /\ running' = running \ {e}
  /\ UNCHANGED <<now, proc, claimAt, verdicts>>

(* The report never takes effect: OpTimeout, a lost connection or a stop   *)
(* before its COMMIT is sent, or a COMMIT that does not arrive.            *)
LoseReport(e) ==
  /\ e.op # "none"
  /\ running' = running \ {e}
  /\ UNCHANGED <<job, now, proc, claimAt, verdicts>>

-----------------------------------------------------------------------------
(* The stop signal cancels Run's context. *)
Stop(w) ==
  /\ w \in Fallible
  /\ proc[w] = "up"
  /\ proc' = [proc EXCEPT ![w] = "draining"]
  /\ UNCHANGED <<job, now, procVars>>

(* The process ends: it has drained, ShutdownTimeout has passed, or it     *)
(* crashed.  Its goroutines and its claim end with it.                     *)
Exit(w) ==
  /\ w \in Fallible
  /\ proc[w] # "down"
  /\ proc' = [proc EXCEPT ![w] = "down"]
  /\ claimAt' = [claimAt EXCEPT ![w] = Null]
  /\ running' = running \ Active(w)
  /\ UNCHANGED <<job, now, verdicts>>

Tick ==
  /\ now < MaxTime
  /\ now' = now + 1
  /\ UNCHANGED <<job, proc, procVars>>

(* No timer is overdue: a claim is not older than ClaimDelay, a handler    *)
(* returns when its context ends, and a report is cut off by OpTimeout.    *)
(* Time passes only so far; a paused process is what breaks this.          *)
OnTime ==
  /\ \A w \in Workers :
       claimAt[w] # Null => now < (claimAt[w] - Skew[w]) + ClaimDelay
  /\ \A e \in running :
       IF e.op = "none" THEN now < e.deadline
       ELSE now < (e.opAt - Skew[e.worker]) + OpTimeout

-----------------------------------------------------------------------------
Step ==
  \/ \E j \in Jobs : Enqueue(j)
  \/ \E w \in Workers :
       \/ BeginClaim(w)
       \/ \E j \in Jobs : Claim(w, j) \/ LoseClaim(w, j)
       \/ FindNoJob(w)
       \/ FailClaim(w)
       \/ Stop(w)
       \/ Exit(w)
  \/ \E e \in running :
       \/ \E op \in {"complete", "retry", "terminal"} : HandlerReturns(e, op)
       \/ HandlerTimesOut(e)
       \/ Defer(e)
       \/ Report(e)
       \/ LoseReport(e)

Next == Step \/ Tick

(* Processes may be paused at any point, for any time. *)
Spec == Init /\ [][Next]_vars

(* Timers fire on time. *)
TimelyNext == Step \/ (OnTime /\ Tick)
TimelySpec == Init /\ [][TimelyNext]_vars

-----------------------------------------------------------------------------
(* The lease is exclusive (README.md: "Exclusive PostgreSQL job lease"):   *)
(* while an execution of a job is under way no other execution of the same *)
(* job is, in any process.                                                 *)
ExclusiveLease ==
  \A e, f \in running : e.job = f.job => e = f

(* An execution under way still holds the lease it was started with, at    *)
(* any process's clock: whatever it reports will be accepted, and nobody   *)
(* can have taken the job over.                                            *)
LeaseHeld ==
  \A e \in running :
    LET row == job[e.job]
    IN  /\ row.state = "RUNNING"
        /\ row.attempts = e.attempt
        /\ row.leaseOwner = e.worker
        /\ row.leaseExpiresAt = e.leaseExpiresAt
        /\ now + MaxSkew < row.leaseExpiresAt

(* Complete and Fail check the worker, not the attempt.  A report that the *)
(* database would accept must still come from the attempt it ends.         *)
ReportsOwnAttempt ==
  \A e \in running :
    e.op # "none" /\ Leased(e.job, e.worker, e.opAt)
      => e.attempt = job[e.job].attempts

(* A job is SUCCEEDED only if one of its handlers returned nil in time,    *)
(* and DEAD only if one failed for good or all attempts were used up.      *)
VerdictEarned ==
  \A j \in Jobs :
    /\ job[j].state = "SUCCEEDED" => "complete" \in verdicts[j]
    /\ job[j].state = "DEAD" =>
         "terminal" \in verdicts[j] \/ job[j].attempts = MaxAttempts

(* The delay after a failed attempt is the doubling that retryBackoff      *)
(* stands for, cut off at the maximum, whatever the bounds and the number  *)
(* of the attempt: no duration wraps around on the way, even when the      *)
(* maximum is the largest duration there is.  (The delay depends on the    *)
(* bounds and the attempt only, so one moment is enough to compare it in;  *)
(* after MaxDuration turns any base has reached any maximum.)              *)
BackoffIsCappedDoubling ==
  now = 1 =>
    \A max \in 1..MaxDuration :
      \A base \in 1..max, attempt \in 1..(MaxDuration + 1) :
        retryBackoff(base, max, attempt) = CutOff(DoubledExactly(base)[attempt - 1], max)

(* The rows hide leases, clocks and processes but behave as module         *)
(* JobLifecycle says.                                                      *)
Lifecycle == INSTANCE JobLifecycle WITH
  state    <- [j \in Jobs |-> job[j].state],
  attempts <- [j \in Jobs |-> job[j].attempts]

RefinesLifecycle == Lifecycle!Spec

(* And the executions are those of module JobExecutions: what the modules  *)
(* about handlers take for granted, that a late report neither completes   *)
(* nor fails an attempt that is not its own, holds of the worker and the   *)
(* table together.                                                         *)
Attempts(executions) == {<<e.job, e.attempt>> : e \in executions}

Executions == INSTANCE JobExecutions WITH
  state    <- [j \in Jobs |-> job[j].state],
  attempts <- [j \in Jobs |-> job[j].attempts],
  underWay <- Attempts(running),
  finished <- Attempts({e \in running : e.op = "complete"})

RefinesExecutions == Executions!ExecSpec

-----------------------------------------------------------------------------
(* Fairness: Run's loop keeps polling, a claim in flight returns, a        *)
(* handler returns and a report is settled.  The database may fail any     *)
(* number of claims, but not every claim that would have found a job.      *)
Fairness ==
  /\ \A w \in Workers :
       /\ WF_vars(BeginClaim(w))
       /\ WF_vars(FindNoJob(w) \/ FailClaim(w)
                    \/ \E j \in Jobs : Claim(w, j) \/ LoseClaim(w, j))
       /\ SF_vars(\E j \in Jobs : Claim(w, j))
  /\ WF_vars(\E e \in running :
       \/ \E op \in {"complete", "retry", "terminal"} : HandlerReturns(e, op)
       \/ HandlerTimesOut(e)
       \/ Defer(e))
  /\ WF_vars(\E e \in running : Report(e) \/ LoseReport(e))

FairSpec == Spec /\ Fairness

(* A job that is due, queued or abandoned by a lost process, does not stay *)
(* so: as long as one worker lives it is taken.                            *)
EventuallyTaken ==
  \A j \in Jobs : j \in Due(now) ~> j \notin Due(now)

(* FR-JOB-002: a job out of attempts whose lease has expired reaches the   *)
(* terminal dead-letter state.                                             *)
EventuallyDeadLettered ==
  \A j \in Jobs : j \in Exhausted(now) ~> job[j].state = "DEAD"
=============================================================================
