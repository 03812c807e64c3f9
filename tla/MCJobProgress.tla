--------------------------- MODULE MCJobProgress ----------------------------
(***************************************************************************)
(* Instances of JobWorker in which processes may be paused for any time    *)
(* and that still have to make progress.  Either both workers live and     *)
(* one job is used, or the second worker was lost before and two jobs      *)
(* compete for the first.                                                  *)
(***************************************************************************)
EXTENDS MCJobWorker

CONSTANT j1         (* the job that is used when only one is *)

VARIABLE used       (* the jobs that may be enqueued *)

ProgressInit ==
  /\ used \in {{j1}, Jobs}
  /\ StoreInit
  /\ now = 1
  /\ proc = [w \in Workers |-> IF w = w2 /\ used = Jobs THEN "down" ELSE "up"]
  /\ claimAt = [w \in Workers |-> Null]
  /\ running = {}
  /\ verdicts = [j \in Jobs |-> {}]

ProgressNext ==
  /\ Next
  /\ \A j \in Jobs \ used : job'[j] = job[j]
  /\ UNCHANGED used

ProgressSpec ==
  ProgressInit /\ [][ProgressNext]_<<vars, used>> /\ Fairness
=============================================================================
