-------------------------- MODULE TrustVerification --------------------------
(***************************************************************************)
(* Trust policies of one namespace and the signature verification they     *)
(* drive (internal/modules/security/trust*.go,                             *)
(* internal/platform/postgres/securitystore/truststore.go): an owner adds  *)
(* policy versions, a repair gives every artifact a workflow and a job for *)
(* the current version, a worker turns the signatures of an artifact into  *)
(* evidence, and a reader puts workflow, job, result and policy together   *)
(* again with five separate queries.                                       *)
(*                                                                         *)
(* A subject stands for a public key or a keyless identity; the signatures *)
(* of an artifact are added and removed in the registry, outside.  A job   *)
(* row is reduced to what module JobLifecycle shows of it, and an          *)
(* execution may outlive its job's lease.                                  *)
(***************************************************************************)
EXTENDS Naturals, Sequences, FiniteSets, ResultStatus

CONSTANTS
  Digests,        (* artifacts that may be discovered                      *)
  Subjects,       (* keys and identities a policy may name                 *)
  Signers,        (* the subjects that may sign                            *)
  Offered,        (* subject sets an owner may submit                      *)
  Creators,       (* connections that create policies, one after another   *)
  Asked,          (* artifacts a reader may ask for                        *)
  Periodic,       (* the worker's repair loop                              *)
  None,           (* no lock holder, no result, no version                 *)
  MaxVersions,    (* bound on the policy versions, for TLC                 *)
  MaxAttempts,    (* DefaultAttempts of a verification job                 *)
  MaxExecutions,  (* bound on the executions under way, for TLC            *)
  RepairBatch     (* HUBCR_SCANNER_REPAIR_BATCH and MaxRepairBatch         *)

ASSUME TrustAssumption ==
  /\ Offered \subseteq (SUBSET Subjects) \ {{}}
  /\ Signers \subseteq Subjects
  /\ Asked \subseteq Digests
  /\ Periodic \notin Creators
  /\ None \notin Creators
  /\ MaxVersions \in Nat
  /\ MaxAttempts \in Nat \ {0}
  /\ MaxExecutions \in Nat
  /\ RepairBatch \in Nat \ {0}

VARIABLES
  known,       (* the artifact rows, in the order of discovered_at         *)
  policies,    (* the subject sets of the versions 1, 2, ...               *)
  lock,        (* the creator that holds FOR UPDATE on the namespace row   *)
  creator,     (* how far each CreatePolicy is                             *)
  todo,        (* targets each repairer listed and has not handled         *)
  pending,     (* the oldest of them and the version read for it           *)
  job,         (* workflow and job row of each digest and version          *)
  executions,  (* handler calls under way                                  *)
  results,     (* the saved evidence of each workflow                      *)
  reader       (* one request for an artifact's security detail            *)

policyVars == <<policies, lock, creator>>
repairVars == <<todo, pending>>
workVars   == <<job, executions, results>>
vars == <<known, policyVars, repairVars, workVars, reader>>

Versions  == 1..MaxVersions
Workflows == Digests \X Versions
Repairers == Creators \cup {Periodic}
Current   == Len(policies)

(* What saved evidence says of a signature; "NONE" if there is none.       *)
Verdicts == {"NONE", "NOT_EVALUATED", "UNTRUSTED", "TRUSTED"}

ASSUME NoneIsNoEvidence == None \notin [Subjects -> Verdicts]

Creator == [step     : {"idle", "read", "insert", "repair"},
            subjects : SUBSET Subjects,
            version  : Nat]

Job == [state    : JobStates,
        attempts : 0..MaxAttempts]

Execution == [workflow   : Workflows,
              attempt    : 1..MaxAttempts,
              step       : {"resolve", "verify", "save", "report"},
              candidates : SUBSET Subjects,
              evidence   : [Subjects -> Verdicts]]

Reader == [step     : {"idle", "job", "result", "policy", "evidence",
                       "done"},
           since    : Nat,
           workflow : Workflows \cup {None},
           state    : JobStates,
           present  : BOOLEAN,
           status   : Statuses,
           evidence : [Subjects -> Verdicts]]

NoEvidence == [s \in Subjects |-> "NONE"]

IdleReader == [step |-> "idle", since |-> 0, workflow |-> None,
               state |-> "ABSENT", present |-> FALSE, status |-> "NONE",
               evidence |-> NoEvidence]

TypeOK ==
  /\ known \in Seq(Digests)
  /\ policies \in Seq(Offered) /\ Current <= MaxVersions
  /\ lock \in Creators \cup {None}
  /\ creator \in [Creators -> Creator]
  /\ todo \in [Repairers -> SUBSET Digests]
  /\ pending \in [Repairers -> Workflows \cup {None}]
  /\ job \in [Workflows -> Job]
  /\ executions \subseteq Execution
  /\ results \in [Workflows -> [Subjects -> Verdicts] \cup {None}]
  /\ reader \in Reader

Init ==
  /\ known = << >>
  /\ policies = << >>
  /\ lock = None
  /\ creator = [c \in Creators |->
                  [step |-> "idle", subjects |-> {}, version |-> 0]]
  /\ todo = [r \in Repairers |-> {}]
  /\ pending = [r \in Repairers |-> None]
  /\ job = [w \in Workflows |-> [state |-> "ABSENT", attempts |-> 0]]
  /\ executions = {}
  /\ results = [w \in Workflows |-> None]
  /\ reader = IdleReader

-----------------------------------------------------------------------------
(* Outside this module.                                                    *)

KnownDigests == {known[i] : i \in DOMAIN known}

(* A push is reconciled (module ArtifactStore).  Its discovered_at may lie *)
(* before that of artifacts already known.                                 *)
Discover(d, i) ==
  /\ d \notin KnownDigests
  /\ known' = SubSeq(known, 1, i) \o <<d>> \o SubSeq(known, i + 1, Len(known))
  /\ UNCHANGED <<policyVars, repairVars, workVars, reader>>

-----------------------------------------------------------------------------
(* CreatePolicy, one transaction in three statements.                      *)

Submitted(c, subjects) ==
  /\ creator[c].step = "idle"
  /\ todo[c] = {}
  /\ creator' = [creator EXCEPT ![c].step = "read", ![c].subjects = subjects]

(* Variant for the mutation runs: the namespace row is read without FOR    *)
(* UPDATE.                                                                 *)
ReadNamespace(c, subjects) ==
  /\ Submitted(c, subjects)
  /\ UNCHANGED <<known, policies, lock, repairVars, workVars, reader>>

LockNamespace(c, subjects) ==
  /\ lock = None
  /\ lock' = c
  /\ Submitted(c, subjects)
  /\ UNCHANGED <<known, policies, repairVars, workVars, reader>>

ReadVersion(c) ==
  /\ Current < MaxVersions
  /\ creator[c].step = "read"
  /\ creator' = [creator EXCEPT ![c].step = "insert",
                                ![c].version = Current + 1]
  /\ UNCHANGED <<known, policies, lock, repairVars, workVars, reader>>

Finished(step) == [step |-> step, subjects |-> {}, version |-> 0]

Released(c) == lock' = IF lock = c THEN None ELSE lock

InsertPolicy(c) ==
  /\ creator[c].step = "insert"
  /\ creator[c].version \notin DOMAIN policies
  /\ policies' = Append(policies, creator[c].subjects)
  /\ creator' = [creator EXCEPT ![c] = Finished("repair")]
  /\ Released(c)
  /\ UNCHANGED <<known, repairVars, workVars, reader>>

(* The request ends without a commit: the version was taken (unique index  *)
(* on namespace and version), the database failed or the process died.     *)
AbandonPolicy(c) ==
  /\ creator[c].step \in {"read", "insert"}
  /\ creator' = [creator EXCEPT ![c] = Finished("idle")]
  /\ Released(c)
  /\ UNCHANGED <<known, policies, repairVars, workVars, reader>>

-----------------------------------------------------------------------------
(* RepairMissingVerificationWorkflows and its namespace-scoped counterpart *)

HasWorkflow(d, v) == job[<<d, v>>].state # "ABSENT"

(* Variant: an artifact is missing only if it has no workflow at all.      *)
MissingAny == {d \in KnownDigests : \A v \in Versions : ~HasWorkflow(d, v)}

(* Artifacts without a workflow for the current version. *)
Missing == {d \in KnownDigests : ~HasWorkflow(d, Current)}

Before(c, d) ==
  \E i, j \in DOMAIN known : i < j /\ known[i] = c /\ known[j] = d

(* The rows its query returns: the oldest. *)
ListMissing(r) ==
  /\ Current > 0
  /\ todo[r] = {}
  /\ todo' = [todo EXCEPT ![r] =
       {d \in Missing :
          Cardinality({c \in Missing : Before(c, d)}) < RepairBatch}]
  /\ UNCHANGED pending

(* After its commit CreatePolicy repairs once, and ignores how that went.  *)
EagerRepair(c) ==
  /\ creator[c].step = "repair"
  /\ creator' = [creator EXCEPT ![c] = Finished("idle")]
  /\ ListMissing(c)
  /\ UNCHANGED <<known, policies, lock, workVars, reader>>

PeriodicRepair ==
  /\ Current > 0 /\ Missing # {}
  /\ ListMissing(Periodic)
  /\ UNCHANGED <<known, policyVars, workVars, reader>>

(* EnsureCurrentVerification, for one row after the other, reads the       *)
(* current policy without a lock ...                                       *)
EnsureRead(r) ==
  /\ pending[r] = None
  /\ \E d \in todo[r] :
       /\ \A c \in todo[r] : ~Before(c, d)
       /\ pending' = [pending EXCEPT ![r] = <<d, Current>>]
  /\ UNCHANGED <<known, policyVars, todo, workVars, reader>>

(* ... and inserts the job and the workflow for it unless they exist.      *)
EnsureWrite(r) ==
  /\ pending[r] # None
  /\ job' = [job EXCEPT ![pending[r]] =
       IF @.state = "ABSENT" THEN [@ EXCEPT !.state = "QUEUED"] ELSE @]
  /\ todo' = [todo EXCEPT ![r] = @ \ {pending[r][1]}]
  /\ pending' = [pending EXCEPT ![r] = None]
  /\ UNCHANGED <<known, policyVars, executions, results, reader>>

(* An error of one target, or the end of the process, ends the repair.     *)
AbortRepair(r) ==
  /\ todo[r] # {}
  /\ todo' = [todo EXCEPT ![r] = {}]
  /\ pending' = [pending EXCEPT ![r] = None]
  /\ UNCHANGED <<known, policyVars, workVars, reader>>

-----------------------------------------------------------------------------
(* Verification jobs.                                                      *)

(* Variant: attempts are not limited.                                      *)
StartUnlimited(w) ==
  /\ job[w].state \in {"QUEUED", "RUNNING"}
  /\ Cardinality(executions) < MaxExecutions
  /\ job' = [job EXCEPT ![w] =
       [state |-> "RUNNING", attempts |-> @.attempts + 1]]
  /\ executions' = executions \cup
       {[workflow |-> w, attempt |-> job[w].attempts + 1, step |-> "resolve",
         candidates |-> {}, evidence |-> NoEvidence]}
  /\ UNCHANGED <<known, policyVars, repairVars, results, reader>>

(* A first start, a retry, or the takeover of an expired lease, whose      *)
(* execution may go on.                                                    *)
StartJob(w) ==
  /\ job[w].state \in {"QUEUED", "RUNNING"}
  /\ job[w].attempts < MaxAttempts
  /\ Cardinality(executions) < MaxExecutions
  /\ job' = [job EXCEPT ![w] =
       [state |-> "RUNNING", attempts |-> @.attempts + 1]]
  /\ executions' = executions \cup
       {[workflow |-> w, attempt |-> job[w].attempts + 1, step |-> "resolve",
         candidates |-> {}, evidence |-> NoEvidence]}
  /\ UNCHANGED <<known, policyVars, repairVars, results, reader>>

(* The dead-letter update of a later claim. *)
BuryJob(w) ==
  /\ job[w].state = "RUNNING"
  /\ job[w].attempts = MaxAttempts
  /\ job' = [job EXCEPT ![w].state = "DEAD"]
  /\ UNCHANGED <<known, policyVars, repairVars, executions, results, reader>>

Advance(e, f) ==
  executions' = (executions \ {e}) \cup {f}

(* Variant: only the current version's subjects are candidates.            *)
CurrentSubjects == policies[Current]

(* candidateSubjectsByNamespace: the subjects of every version.            *)
CandidateSubjects == UNION {policies[v] : v \in DOMAIN policies}

(* ResolveVerificationJob.  Its queries for the policy, the keys and the   *)
(* identities are one step: policies are only added, so what the earlier   *)
(* ones return stays part of what the later ones would.                    *)
Resolve(e) ==
  /\ e.step = "resolve"
  /\ Advance(e, [e EXCEPT !.step = "verify",
                          !.candidates = CandidateSubjects])
  /\ UNCHANGED <<known, policyVars, repairVars, job, results, reader>>

(* Variant: trust is granted to every candidate.                           *)
TrustsCandidates(v, s, verified) ==
  IF s \in verified THEN "TRUSTED" ELSE "NOT_EVALUATED"

(* EvaluateTrust for a signature of s under version v: one that has not    *)
(* been verified stays unevaluated.                                        *)
Evaluated(v, s, verified) ==
  IF s \notin verified THEN "NOT_EVALUATED"
  ELSE IF s \in policies[v] THEN "TRUSTED" ELSE "UNTRUSTED"

(* Verify downloads the signatures there are just now, made by found, and  *)
(* checks each against the candidates.  It need not verify those that a    *)
(* candidate made: an outage in a keyless check, a payload or a key hint   *)
(* may keep it from that (module CosignVerify).                            *)
Verify(e, found, verified) ==
  /\ e.step = "verify"
  /\ verified \subseteq found \cap e.candidates
  /\ Advance(e, [e EXCEPT !.step = "save", !.candidates = {},
       !.evidence = [s \in Subjects |->
         IF s \in found THEN Evaluated(e.workflow[2], s, verified)
         ELSE "NONE"]])
  /\ UNCHANGED <<known, policyVars, repairVars, job, results, reader>>

(* SaveVerificationResult replaces the workflow's rows.  It does not ask   *)
(* whether the caller still holds the job's lease.                         *)
SaveResult(e) ==
  /\ e.step = "save"
  /\ results' = [results EXCEPT ![e.workflow] = e.evidence]
  /\ Advance(e, [e EXCEPT !.step = "report", !.evidence = NoEvidence])
  /\ UNCHANGED <<known, policyVars, repairVars, job, reader>>

(* Variant: lease_owner is not compared.                                   *)
LeasedByAnyone(e) == job[e.workflow].state = "RUNNING"

(* A report settles only its own attempt (modules JobExecutions, JobWorker). *)
Leased(e) ==
  /\ job[e.workflow].state = "RUNNING"
  /\ job[e.workflow].attempts = e.attempt

(* Variant: the job is completed before its result is saved.               *)
ReportEarly(e) ==
  /\ e.step = "save"
  /\ Leased(e)
  /\ job' = [job EXCEPT ![e.workflow].state = "SUCCEEDED"]
  /\ UNCHANGED <<known, policyVars, repairVars, executions, results, reader>>

(* Complete. *)
ReportSuccess(e) ==
  /\ e.step = "report"
  /\ Leased(e)
  /\ job' = [job EXCEPT ![e.workflow].state = "SUCCEEDED"]
  /\ executions' = executions \ {e}
  /\ UNCHANGED <<known, policyVars, repairVars, results, reader>>

(* A step of the handler fails, for good (DEAD) or not. *)
ReportFailure(e) ==
  /\ Leased(e)
  /\ \E state \in {"QUEUED", "DEAD"} :
       /\ state = "QUEUED" => e.attempt < MaxAttempts
       /\ job' = [job EXCEPT ![e.workflow].state = state]
  /\ executions' = executions \ {e}
  /\ UNCHANGED <<known, policyVars, repairVars, results, reader>>

(* The execution ends without a report that counts. *)
Vanish(e) ==
  /\ executions' = executions \ {e}
  /\ UNCHANGED <<known, policyVars, repairVars, job, results, reader>>

-----------------------------------------------------------------------------
(* signatureDetail: five queries without a transaction.                    *)

Read(from, update) ==
  /\ reader.step = from
  /\ reader' = update
  /\ UNCHANGED <<known, policyVars, repairVars, workVars>>

(* What the reader is told; evidence is shown with every status. *)
Answer(status, evidence) ==
  [step |-> "done", since |-> reader.since, workflow |-> None,
   state |-> "ABSENT", present |-> FALSE, status |-> status,
   evidence |-> evidence]

(* latestSignatureWorkflowByTarget; without a workflow the detail has no   *)
(* signature part.                                                         *)
Latest(d) ==
  {v \in Versions : /\ HasWorkflow(d, v)
                    /\ \A u \in Versions : HasWorkflow(d, u) => u <= v}

ReadWorkflow(d) ==
  Read("idle",
       IF Latest(d) = {} THEN Answer("NONE", NoEvidence)
       ELSE [reader EXCEPT !.step = "job", !.since = Current,
               !.workflow = <<d, CHOOSE v \in Latest(d) : TRUE>>])

ReadJob ==
  Read("job", [reader EXCEPT !.step = "result",
                             !.state = job[reader.workflow].state])

ReadResult ==
  Read("result", [reader EXCEPT !.step = "policy",
                    !.present = results[reader.workflow] # None])

ReadPolicy ==
  LET status == ResultStatusFromJob(reader.state, reader.present,
                                    Current # reader.workflow[2])
  IN  Read("policy",
           IF reader.present
           THEN [reader EXCEPT !.step = "evidence", !.status = status,
                               !.state = "ABSENT", !.present = FALSE]
           ELSE Answer(status, NoEvidence))

ReadEvidence ==
  Read("evidence", Answer(reader.status, results[reader.workflow]))

-----------------------------------------------------------------------------
Next ==
  \/ \E d \in Digests, i \in 0..Len(known) : Discover(d, i)
  \/ \E c \in Creators, subjects \in Offered : LockNamespace(c, subjects)
  \/ \E c \in Creators : ReadVersion(c) \/ InsertPolicy(c)
                           \/ AbandonPolicy(c) \/ EagerRepair(c)
  \/ PeriodicRepair
  \/ \E r \in Repairers : EnsureRead(r) \/ EnsureWrite(r) \/ AbortRepair(r)
  \/ \E w \in Workflows : StartJob(w) \/ BuryJob(w)
  \/ \E e \in executions :
       \/ Resolve(e) \/ SaveResult(e)
       \/ \E found, verified \in SUBSET Signers : Verify(e, found, verified)
       \/ ReportSuccess(e) \/ ReportFailure(e) \/ Vanish(e)
  \/ \E d \in Asked : ReadWorkflow(d)
  \/ ReadJob \/ ReadResult \/ ReadPolicy \/ ReadEvidence

Spec == Init /\ [][Next]_vars

-----------------------------------------------------------------------------
(* A policy being created never meets its version in the table, however    *)
(* many owners create one at once: no owner is refused for another one's   *)
(* write (CreateTrustPolicy locks the namespace before it counts).         *)
VersionFresh ==
  \A c \in Creators :
    creator[c].step = "insert" => creator[c].version = Current + 1

(* Evidence that is saved was judged by the policy its workflow is for,    *)
(* whichever attempt saved it last and whatever versions came meanwhile:   *)
(* a signature that was verified is trusted if and only if it is of a      *)
(* subject of that version.  And every execution looks for signatures of   *)
(* all of these, so that none is left unevaluated for want of a candidate. *)
TrustByPolicy ==
  /\ \A w \in Workflows : results[w] # None =>
       \A s \in Subjects : results[w][s] \in {"TRUSTED", "UNTRUSTED"} =>
         (results[w][s] = "TRUSTED" <=> s \in policies[w[2]])
  /\ \A e \in executions : e.step = "verify" =>
       policies[e.workflow[2]] \subseteq e.candidates

(* m5-01: a result of an older policy is STALE, never COMPLETED.  A reader *)
(* that began after a version was committed and is told COMPLETED sees as  *)
(* trusted only subjects of a version that was current during its request. *)
RevokedNotTrusted ==
  reader.step = "done" /\ reader.status = "COMPLETED" =>
    \A s \in Subjects : reader.evidence[s] = "TRUSTED" =>
      \E v \in DOMAIN policies : v >= reader.since /\ s \in policies[v]

(* A reader is never told RESULT_MISSING: a job that has succeeded has its *)
(* result, although neither is read or written with the other.             *)
NeverMissing == reader.status # "RESULT_MISSING"

(* The reduced job rows and the executions behave as the engine promises   *)
(* (JobExecutions), so what module JobWorker shows of that promise applies *)
(* here; in particular its life cycle.                                     *)
Engine == INSTANCE JobExecutions WITH
  Jobs     <- Workflows,
  state    <- [w \in Workflows |-> job[w].state],
  attempts <- [w \in Workflows |-> job[w].attempts],
  underWay <- {<<e.workflow, e.attempt>> : e \in executions},
  finished <- {<<e.workflow, e.attempt>> :
                 e \in {f \in executions : f.step = "report"}}

JobsFollowLifecycle  == Engine!Spec
JobsFollowExecutions == Engine!ExecSpec

-----------------------------------------------------------------------------
(* Fairness: the worker's loop runs its repair again and again, and what   *)
(* it attempts again and again is not failed every time.                   *)
FairSpec ==
  /\ Spec
  /\ WF_vars(PeriodicRepair)
  /\ SF_vars(EnsureRead(Periodic))
  /\ SF_vars(EnsureWrite(Periodic))

(* m5-01: the repair loop backfills what the eager repair of CreatePolicy  *)
(* did not reach.  Every known artifact gets a workflow for the current    *)
(* version, or a newer version replaces it first.                          *)
EventuallyReverified ==
  \A d \in Digests, v \in Versions :
    d \in KnownDigests /\ Current = v ~> HasWorkflow(d, v) \/ Current > v
=============================================================================
