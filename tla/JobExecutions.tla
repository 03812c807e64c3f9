--------------------------- MODULE JobExecutions ----------------------------
(***************************************************************************)
(* The life cycle together with the executions of the attempts: what a     *)
(* handler may rely on that is started by the engine, and what the modules *)
(* that model handlers assume of it.  An execution may outlive its attempt *)
(* (a zombie) and may be lost; but an attempt is executed at most once,    *)
(* and only the execution of a job's newest attempt decides what becomes   *)
(* of the job.                                                             *)
(***************************************************************************)
EXTENDS JobLifecycle

VARIABLES
  underWay,    (* the executions, each a job and the number of an attempt  *)
  finished     (* those whose handler has done its work                    *)

execVars == <<state, attempts, underWay, finished>>

ExecInit ==
  /\ Init
  /\ underWay = {}
  /\ finished = {}

Newest(j) == <<j, attempts[j]>>

(* The ways out of RUNNING that need a report.  A job that has used up its *)
(* attempts may also be buried without one.                                *)
Decided(j) ==
  /\ state[j] = "RUNNING"
  /\ \/ state'[j] \in {"SUCCEEDED", "QUEUED"}
     \/ state'[j] = "DEAD" /\ attempts[j] < MaxAttempts

(* A report is that of the newest attempt, and ends its execution; success *)
(* is reported only of work that is done.                                  *)
Settles(j) ==
  /\ Newest(j) \in underWay \ underWay'
  /\ state'[j] = "SUCCEEDED" => Newest(j) \in finished

ExecNext ==
  /\ Next \/ UNCHANGED vars
  /\ \A j \in Jobs : Decided(j) => Settles(j)
  /\ \A x \in underWay' \ underWay :
       \E j \in Jobs : Start(j) /\ x = <<j, attempts'[j]>>
  /\ finished' \subseteq finished \cup underWay
  /\ finished \cap underWay' \subseteq finished'

ExecSpec == ExecInit /\ [][ExecNext]_execVars
=============================================================================
