---------------------------- MODULE ResultStatus ----------------------------
(***************************************************************************)
(* What the readers of security details say of a job and its result        *)
(* (internal/modules/security/domain.go).                                  *)
(***************************************************************************)

JobStates == {"ABSENT", "QUEUED", "RUNNING", "SUCCEEDED", "DEAD"}

Statuses == {"NONE", "QUEUED", "RUNNING", "FAILED", "RESULT_MISSING",
             "STALE", "COMPLETED"}

(* Variant: what would make the result stale is not compared.              *)
StatusIgnoringPolicy(state, present, stale) ==
  CASE state = "QUEUED"    -> "QUEUED"
    [] state = "RUNNING"   -> "RUNNING"
    [] state = "DEAD"      -> "FAILED"
    [] state = "SUCCEEDED" ->
         IF present THEN "COMPLETED" ELSE "RESULT_MISSING"

(* ResultStatusFromJob.  FAILED with the code RESULT_MISSING is a status of *)
(* its own here.                                                           *)
ResultStatusFromJob(state, present, stale) ==
  CASE state = "QUEUED"    -> "QUEUED"
    [] state = "RUNNING"   -> "RUNNING"
    [] state = "DEAD"      -> "FAILED"
    [] state = "SUCCEEDED" ->
         IF ~present THEN "RESULT_MISSING"
         ELSE IF stale THEN "STALE" ELSE "COMPLETED"
=============================================================================
