----------------------- MODULE TrustVerificationProofs -----------------------
(***************************************************************************)
(* Proofs about module TrustVerification, for any artifacts, signers,      *)
(* concurrent creators, repairs and executions.                            *)
(***************************************************************************)
EXTENDS TrustVerification, SequenceTheorems, TLAPS

LEMMA CurrentIsNat == TypeOK => Current \in Nat /\ DOMAIN policies = 1..Current
BY LenProperties DEF TypeOK, Current

LEMMA VersionOfWorkflow ==
  ASSUME NEW w \in Workflows
  PROVE  w[1] \in Digests /\ w[2] \in Versions /\ w[2] \in Nat /\ w[2] > 0
BY TrustAssumption DEF Workflows, Versions

LEMMA EvaluatedType ==
  ASSUME NEW v, NEW s, NEW verified
  PROVE  Evaluated(v, s, verified) \in Verdicts \ {"NONE"}
BY DEF Evaluated, Verdicts

LEMMA NoEvidenceType == NoEvidence \in [Subjects -> Verdicts]
BY DEF NoEvidence, Verdicts

-----------------------------------------------------------------------------
LEMMA TypeInit == Init => TypeOK
  <1> SUFFICES ASSUME Init PROVE TypeOK
    OBVIOUS
  <1>1. policies \in Seq(Offered) /\ Current = 0 /\ known \in Seq(Digests)
    BY DEF Init, Current
  <1>2. IdleReader \in Reader
    BY NoEvidenceType DEF IdleReader, Reader, Statuses, JobStates
  <1>3. \A c \in Creators : creator[c] \in Creator
    BY DEF Init, Creator
  <1>4. \A w \in Workflows : job[w] \in Job
    BY TrustAssumption DEF Init, Job, JobStates
  <1>5. QED
    BY <1>1, <1>2, <1>3, <1>4, TrustAssumption DEF Init, TypeOK

(* A creator's record after a step. *)
LEMMA CreatorTypes ==
  ASSUME TypeOK, NEW c \in Creators, NEW r \in Creator,
         creator' = [creator EXCEPT ![c] = r]
  PROVE  creator' \in [Creators -> Creator]
BY DEF TypeOK

LEMMA FinishedType ==
  /\ Finished("idle") \in Creator
  /\ Finished("repair") \in Creator
BY DEF Finished, Creator

(* A version between 1 and the current one names a workflow. *)
LEMMA CurrentWorkflow ==
  ASSUME TypeOK, NEW d \in Digests, Current > 0
  PROVE  <<d, Current>> \in Workflows
BY CurrentIsNat, TrustAssumption DEF TypeOK, Workflows, Versions

(* Between its lock and its insert a creator holds the lock, so the        *)
(* version it read is still the next one.                                  *)
PolicyInv ==
  \A c \in Creators :
    /\ creator[c].step \in {"read", "insert"} =>
         lock = c /\ creator[c].subjects \in Offered
    /\ creator[c].step = "insert" =>
         creator[c].version = Current + 1 /\ creator[c].version \in Versions

(* Only repairs that listed something have something to do, and then a     *)
(* policy exists.                                                          *)
RepairInv ==
  \A r \in Repairers :
    /\ todo[r] # {} => Current > 0
    /\ pending[r] # None => pending[r][2] <= Current

Structure == TypeOK /\ PolicyInv /\ RepairInv

LEMMA StructureInit == Init => Structure
BY TypeInit DEF Init, Structure, PolicyInv, RepairInv

(* CreatePolicy changes its own record, and policies only by appending.    *)
LEMMA LockStep ==
  ASSUME Structure, NEW c \in Creators, NEW subjects \in Offered,
         LockNamespace(c, subjects)
  PROVE  Structure'
  <1> DEFINE r == [creator[c] EXCEPT !.step = "read", !.subjects = subjects]
  <1>1. r \in Creator
    <2>1. subjects \in SUBSET Subjects /\ creator[c] \in Creator
      BY TrustAssumption DEF Structure, TypeOK
    <2>2. QED
      BY <2>1 DEF Creator
  <1>2. creator' = [creator EXCEPT ![c] = r]
    BY DEF LockNamespace, Submitted, Structure, TypeOK
  <1>3. r.step = "read" /\ r.subjects = subjects
    BY DEF Structure, TypeOK, Creator
  <1> HIDE DEF r
  <1>4. creator' \in [Creators -> Creator] /\ creator'[c] = r
    BY <1>1, <1>2, CreatorTypes DEF Structure, TypeOK
  <1>5. TypeOK'
    BY <1>4 DEF LockNamespace, Structure, TypeOK, repairVars, workVars, Current
  <1>6. PolicyInv'
    BY <1>2, <1>3, <1>4, TrustAssumption
       DEF LockNamespace, Structure, TypeOK, PolicyInv, Current
  <1>7. RepairInv'
    BY DEF LockNamespace, Structure, RepairInv, repairVars, Current
  <1>8. QED
    BY <1>5, <1>6, <1>7 DEF Structure

LEMMA ReadVersionStep ==
  ASSUME Structure, NEW c \in Creators, ReadVersion(c)
  PROVE  Structure'
  <1> DEFINE r == [creator[c] EXCEPT !.step = "insert", !.version = Current + 1]
  <1>1. r \in Creator
    <2>1. Current + 1 \in Nat /\ creator[c] \in Creator
      BY CurrentIsNat DEF Structure, TypeOK
    <2>2. QED
      BY <2>1 DEF Creator
  <1>2. creator' = [creator EXCEPT ![c] = r]
    BY DEF ReadVersion, Structure, TypeOK
  <1>3. /\ r.step = "insert" /\ r.version = Current + 1
        /\ r.subjects = creator[c].subjects
        /\ Current + 1 \in Versions
    BY CurrentIsNat, TrustAssumption
       DEF Structure, TypeOK, Creator, ReadVersion, Versions
  <1> HIDE DEF r
  <1>4. creator' \in [Creators -> Creator] /\ creator'[c] = r
    BY <1>1, <1>2, CreatorTypes DEF Structure, TypeOK
  <1>5. TypeOK'
    BY <1>4 DEF ReadVersion, Structure, TypeOK, repairVars, workVars, Current
  <1>6. PolicyInv'
    BY <1>2, <1>3, <1>4
       DEF ReadVersion, Structure, TypeOK, PolicyInv, Current
  <1>7. RepairInv'
    BY DEF ReadVersion, Structure, RepairInv, repairVars, Current
  <1>8. QED
    BY <1>5, <1>6, <1>7 DEF Structure

LEMMA InsertStep ==
  ASSUME Structure, NEW c \in Creators, InsertPolicy(c)
  PROVE  Structure'
  <1>1. /\ creator[c].step = "insert"
        /\ creator' = [creator EXCEPT ![c] = Finished("repair")]
        /\ policies' = Append(policies, creator[c].subjects)
        /\ lock = c /\ creator[c].subjects \in Offered
        /\ creator[c].version = Current + 1 /\ creator[c].version \in Versions
    BY DEF InsertPolicy, Structure, PolicyInv
  <1>2. /\ policies' \in Seq(Offered)
        /\ Current' = Current + 1
        /\ Current' <= MaxVersions
        /\ Current \in Nat
    BY <1>1, AppendProperties, CurrentIsNat, TrustAssumption
       DEF Structure, TypeOK, Current, Versions
  <1>3. creator' \in [Creators -> Creator]
    BY <1>1, CreatorTypes, FinishedType DEF Structure
  <1>4. lock' \in Creators \cup {None}
    BY DEF InsertPolicy, Released, Structure, TypeOK
  <1>5. TypeOK'
    BY <1>2, <1>3, <1>4
       DEF InsertPolicy, Structure, TypeOK, repairVars, workVars
  <1>6. \A k \in Creators \ {c} : creator[k].step \notin {"read", "insert"}
    BY <1>1 DEF Structure, PolicyInv
  <1>7. PolicyInv'
    BY <1>1, <1>6 DEF PolicyInv, Structure, TypeOK, Finished
  <1>8. RepairInv'
    <2>1. ASSUME NEW r \in Repairers, pending[r] # None
          PROVE  pending[r][2] \in Nat /\ pending[r][2] <= Current
      BY <2>1, VersionOfWorkflow DEF Structure, TypeOK, RepairInv
    <2>2. QED
      BY <1>2, <2>1 DEF InsertPolicy, Structure, RepairInv, repairVars
  <1>9. QED
    BY <1>5, <1>7, <1>8 DEF Structure

LEMMA AbandonStep ==
  ASSUME Structure, NEW c \in Creators, AbandonPolicy(c)
  PROVE  Structure'
  <1>1. /\ creator' = [creator EXCEPT ![c] = Finished("idle")]
        /\ creator[c].step \in {"read", "insert"}
        /\ UNCHANGED <<known, policies, repairVars, workVars, reader>>
        /\ lock' = None
        /\ lock = c
    BY DEF AbandonPolicy, Released, Structure, PolicyInv
  <1>2. creator' \in [Creators -> Creator]
    BY <1>1, CreatorTypes, FinishedType DEF Structure
  <1>3. TypeOK'
    BY <1>1, <1>2 DEF Structure, TypeOK, repairVars, workVars, Current
  <1>4. \A k \in Creators \ {c} : creator[k].step \notin {"read", "insert"}
    BY <1>1 DEF Structure, PolicyInv
  <1>5. PolicyInv'
    BY <1>1, <1>4 DEF PolicyInv, Structure, TypeOK, Finished
  <1>6. RepairInv'
    BY <1>1 DEF Structure, RepairInv, repairVars, Current
  <1>7. QED
    BY <1>3, <1>5, <1>6 DEF Structure

(* A listing puts known digests into todo, and only when a policy exists.  *)
LEMMA ListStep ==
  ASSUME Structure, NEW r \in Repairers, ListMissing(r), policies' = policies
  PROVE  todo' \in [Repairers -> SUBSET Digests] /\ RepairInv'
  <1>1. Missing \subseteq Digests
    BY ElementOfSeq DEF Structure, TypeOK, Missing, KnownDigests
  <1>2. QED
    BY <1>1 DEF ListMissing, Structure, TypeOK, RepairInv, Current

LEMMA EagerStep ==
  ASSUME Structure, NEW c \in Creators, EagerRepair(c)
  PROVE  Structure'
  <1>1. /\ creator' = [creator EXCEPT ![c] = Finished("idle")]
        /\ UNCHANGED <<known, policies, lock, workVars, reader, pending>>
        /\ ListMissing(c) /\ c \in Repairers
    BY DEF EagerRepair, ListMissing, Repairers
  <1>2. creator' \in [Creators -> Creator]
    BY <1>1, CreatorTypes, FinishedType DEF Structure
  <1>3. todo' \in [Repairers -> SUBSET Digests] /\ RepairInv'
    BY <1>1, ListStep
  <1>4. TypeOK'
    BY <1>1, <1>2, <1>3 DEF Structure, TypeOK, workVars, Current
  <1>5. PolicyInv'
    BY <1>1 DEF PolicyInv, Structure, TypeOK, Finished, Current
  <1>6. QED
    BY <1>3, <1>4, <1>5 DEF Structure

LEMMA PeriodicStep == Structure /\ PeriodicRepair => Structure'
  <1> SUFFICES ASSUME Structure, PeriodicRepair PROVE Structure'
    OBVIOUS
  <1>1. /\ UNCHANGED <<known, policyVars, workVars, reader, pending>>
        /\ ListMissing(Periodic) /\ Periodic \in Repairers
    BY DEF PeriodicRepair, ListMissing, Repairers
  <1>2. todo' \in [Repairers -> SUBSET Digests] /\ RepairInv'
    BY <1>1, ListStep DEF policyVars
  <1>3. TypeOK' /\ PolicyInv'
    BY <1>1, <1>2
       DEF Structure, TypeOK, PolicyInv, policyVars, workVars, Current
  <1>4. QED
    BY <1>2, <1>3 DEF Structure

LEMMA EnsureReadStep ==
  ASSUME Structure, NEW r \in Repairers, EnsureRead(r)
  PROVE  Structure'
  <1>1. PICK d \in todo[r] : pending' = [pending EXCEPT ![r] = <<d, Current>>]
    BY DEF EnsureRead
  <1>2. d \in Digests /\ Current > 0
    BY <1>1 DEF Structure, TypeOK, RepairInv
  <1>3. <<d, Current>> \in Workflows
    BY <1>2, CurrentWorkflow DEF Structure
  <1>4. UNCHANGED <<known, policyVars, todo, workVars, reader>>
    BY DEF EnsureRead
  <1>5. TypeOK' /\ PolicyInv'
    BY <1>1, <1>3, <1>4
       DEF Structure, TypeOK, PolicyInv, policyVars, workVars, Current
  <1>6. RepairInv'
    BY <1>1, <1>4, CurrentIsNat
       DEF Structure, TypeOK, RepairInv, policyVars, Current
  <1>7. QED
    BY <1>5, <1>6 DEF Structure

LEMMA EnsureWriteStep ==
  ASSUME Structure, NEW r \in Repairers, EnsureWrite(r)
  PROVE  /\ Structure'
         /\ pending[r] \in Workflows
         /\ \A w \in Workflows : job'[w] =
              IF w = pending[r] /\ job[w].state = "ABSENT"
              THEN [job[w] EXCEPT !.state = "QUEUED"] ELSE job[w]
  <1> DEFINE w == pending[r]
             q == IF job[w].state = "ABSENT"
                  THEN [job[w] EXCEPT !.state = "QUEUED"] ELSE job[w]
  <1>1. w \in Workflows /\ job' = [job EXCEPT ![w] = q]
    BY DEF EnsureWrite, Structure, TypeOK
  <1>2. q \in Job
    BY <1>1 DEF Structure, TypeOK, Job, JobStates
  <1>3. job' \in [Workflows -> Job]
    BY <1>1, <1>2 DEF Structure, TypeOK
  <1>4. /\ UNCHANGED <<known, policyVars, executions, results, reader>>
        /\ todo' = [todo EXCEPT ![r] = @ \ {w[1]}]
        /\ pending' = [pending EXCEPT ![r] = None]
    BY DEF EnsureWrite
  <1>5. TypeOK' /\ PolicyInv'
    BY <1>3, <1>4 DEF Structure, TypeOK, PolicyInv, policyVars, Current
  <1>6. RepairInv'
    BY <1>4 DEF Structure, TypeOK, RepairInv, policyVars, Current
  <1>7. QED
    BY <1>1, <1>5, <1>6 DEF Structure, TypeOK

LEMMA AbortStep ==
  ASSUME Structure, NEW r \in Repairers, AbortRepair(r)
  PROVE  Structure'
BY DEF AbortRepair, Structure, TypeOK, PolicyInv, RepairInv, policyVars,
       workVars, Current

-----------------------------------------------------------------------------
(* Executions.  A step replaces at most one of them, and writes at most    *)
(* one job row or one result.                                              *)
LEMMA WorkTypes ==
  ASSUME Structure, UNCHANGED <<known, policyVars, repairVars, reader>>,
         job' \in [Workflows -> Job], executions' \subseteq Execution,
         results' \in [Workflows -> [Subjects -> Verdicts] \cup {None}]
  PROVE  Structure'
BY DEF Structure, TypeOK, PolicyInv, RepairInv, policyVars, repairVars, Current

LEMMA StartStep ==
  ASSUME Structure, NEW w \in Workflows, StartJob(w)
  PROVE  /\ Structure'
         /\ job'[w] = [state |-> "RUNNING", attempts |-> job[w].attempts + 1]
         /\ job[w].attempts < MaxAttempts
         /\ job[w].state \in {"QUEUED", "RUNNING"}
         /\ \A v \in Workflows \ {w} : job'[v] = job[v]
         /\ \A e \in executions' \ executions :
              e.workflow = w /\ e.step = "resolve"
  <1> DEFINE n == job[w].attempts + 1
             q == [state |-> "RUNNING", attempts |-> n]
             e == [workflow |-> w, attempt |-> n, step |-> "resolve",
                   candidates |-> {}, evidence |-> NoEvidence]
  <1>1. job[w] \in Job /\ job[w].attempts < MaxAttempts
    BY DEF StartJob, Structure, TypeOK
  <1>2. n \in 1..MaxAttempts /\ n \in 0..MaxAttempts
    BY <1>1, TrustAssumption DEF Job, JobStates
  <1>3. e \in Execution /\ q \in Job
    BY <1>2, NoEvidenceType DEF Execution, Job, JobStates
  <1>4. executions' = executions \cup {e}
    BY DEF StartJob
  <1>5. job' = [job EXCEPT ![w] = q]
    BY DEF StartJob, Structure, TypeOK
  <1>6. UNCHANGED <<known, policyVars, repairVars, results, reader>>
    BY DEF StartJob
  <1>7. Structure'
    BY <1>3, <1>4, <1>5, <1>6, WorkTypes DEF Structure, TypeOK
  <1>8. job'[w] = q /\ \A v \in Workflows \ {w} : job'[v] = job[v]
    BY <1>5 DEF Structure, TypeOK
  <1>9. e.workflow = w /\ e.step = "resolve"
    OBVIOUS
  <1>10. job[w].state \in {"QUEUED", "RUNNING"}
    BY DEF StartJob
  <1> HIDE DEF e, q
  <1>11. \A f \in executions' \ executions :
           f.workflow = w /\ f.step = "resolve"
    BY <1>4, <1>9
  <1>12. QED
    BY <1>1, <1>7, <1>8, <1>10, <1>11 DEF q

(* A job row that only changes its state. *)
LEMMA StateTypes ==
  ASSUME Structure, NEW w \in Workflows,
         NEW state \in {"QUEUED", "RUNNING", "SUCCEEDED", "DEAD"},
         job' = [job EXCEPT ![w].state = state]
  PROVE  /\ job' \in [Workflows -> Job]
         /\ job'[w] = [state |-> state, attempts |-> job[w].attempts]
         /\ \A v \in Workflows \ {w} : job'[v] = job[v]
  <1>1. job[w] \in Job
    BY DEF Structure, TypeOK
  <1>2. [job[w] EXCEPT !.state = state]
          = [state |-> state, attempts |-> job[w].attempts]
    BY <1>1 DEF Job, JobStates
  <1>3. [state |-> state, attempts |-> job[w].attempts] \in Job
    BY <1>1 DEF Job, JobStates
  <1>4. job' = [job EXCEPT ![w] =
                  [state |-> state, attempts |-> job[w].attempts]]
    BY <1>2
  <1>5. QED
    BY <1>3, <1>4 DEF Structure, TypeOK

LEMMA BuryStep ==
  ASSUME Structure, NEW w \in Workflows, BuryJob(w)
  PROVE  /\ Structure'
         /\ job'[w] = [state |-> "DEAD", attempts |-> job[w].attempts]
         /\ \A v \in Workflows \ {w} : job'[v] = job[v]
  <1>1. job' = [job EXCEPT ![w].state = "DEAD"]
    BY DEF BuryJob
  <1>2. UNCHANGED <<known, policyVars, repairVars, executions, results, reader>>
    BY DEF BuryJob
  <1>3. QED
    BY <1>1, <1>2, StateTypes, WorkTypes DEF Structure, TypeOK

LEMMA ExecutionType ==
  ASSUME Structure, NEW e \in executions
  PROVE  e \in Execution /\ e.workflow \in Workflows
BY DEF Structure, TypeOK, Execution

LEMMA ResolveStep ==
  ASSUME Structure, NEW e \in executions, Resolve(e)
  PROVE  /\ Structure'
         /\ \E f \in Execution :
              /\ executions' = (executions \ {e}) \cup {f}
              /\ f.workflow = e.workflow
              /\ f.step = "verify"
              /\ f.candidates = CandidateSubjects
  <1> DEFINE f == [e EXCEPT !.step = "verify",
                            !.candidates = CandidateSubjects]
  <1>1. CandidateSubjects \in SUBSET Subjects
    <2>1. ASSUME NEW v \in DOMAIN policies PROVE policies[v] \subseteq Subjects
      BY <2>1, ElementOfSeq, LenProperties, TrustAssumption
         DEF Structure, TypeOK
    <2>2. QED
      BY <2>1 DEF CandidateSubjects
  <1>2. e \in Execution
    BY ExecutionType
  <1> HIDE DEF CandidateSubjects
  <1>3. /\ f \in Execution /\ f.workflow = e.workflow /\ f.step = "verify"
        /\ f.candidates = CandidateSubjects
    BY <1>1, <1>2 DEF Execution
  <1>4. executions' = (executions \ {e}) \cup {f}
    BY DEF Resolve, Advance
  <1>5. UNCHANGED <<known, policyVars, repairVars, job, results, reader>>
    BY DEF Resolve
  <1>6. Structure'
    BY <1>3, <1>4, <1>5, WorkTypes DEF Structure, TypeOK
  <1>7. QED
    BY <1>3, <1>4, <1>6

LEMMA VerifyStep ==
  ASSUME Structure, NEW e \in executions,
         NEW found \in SUBSET Signers, NEW verified \in SUBSET Signers,
         Verify(e, found, verified)
  PROVE  /\ Structure'
         /\ \E f \in Execution :
              /\ executions' = (executions \ {e}) \cup {f}
              /\ f.workflow = e.workflow
              /\ f.step = "save"
              /\ f.evidence = [s \in Subjects |->
                   IF s \in found
                   THEN Evaluated(e.workflow[2], s, verified) ELSE "NONE"]
  <1> DEFINE ev == [s \in Subjects |->
                      IF s \in found
                      THEN Evaluated(e.workflow[2], s, verified)
                      ELSE "NONE"]
             f == [e EXCEPT !.step = "save", !.candidates = {},
                            !.evidence = ev]
  <1>1. ev \in [Subjects -> Verdicts]
    BY EvaluatedType DEF Verdicts
  <1>2. e \in Execution
    BY ExecutionType
  <1>3. executions' = (executions \ {e}) \cup {f}
    BY DEF Verify, Advance
  <1> HIDE DEF ev
  <1>4. /\ f \in Execution /\ f.workflow = e.workflow /\ f.step = "save"
        /\ f.evidence = ev
    BY <1>1, <1>2 DEF Execution
  <1>5. UNCHANGED <<known, policyVars, repairVars, job, results, reader>>
    BY DEF Verify
  <1>6. Structure'
    BY <1>3, <1>4, <1>5, WorkTypes DEF Structure, TypeOK
  <1>7. QED
    BY <1>3, <1>4, <1>6 DEF ev

LEMMA SaveStep ==
  ASSUME Structure, NEW e \in executions, SaveResult(e)
  PROVE  /\ Structure'
         /\ e.step = "save"
         /\ results' = [results EXCEPT ![e.workflow] = e.evidence]
         /\ e.evidence # None
         /\ \E f \in Execution :
              /\ executions' = (executions \ {e}) \cup {f}
              /\ f.workflow = e.workflow
              /\ f.step = "report"
  <1> DEFINE f == [e EXCEPT !.step = "report", !.evidence = NoEvidence]
  <1>1. e \in Execution
    BY ExecutionType
  <1>2. f \in Execution /\ f.workflow = e.workflow /\ f.step = "report"
    BY <1>1, NoEvidenceType DEF Execution
  <1>3. executions' = (executions \ {e}) \cup {f}
    BY DEF SaveResult, Advance
  <1>4. e.evidence \in [Subjects -> Verdicts] /\ e.workflow \in Workflows
    BY <1>1 DEF Execution
  <1>5. results' = [results EXCEPT ![e.workflow] = e.evidence]
    BY DEF SaveResult
  <1>6. UNCHANGED <<known, policyVars, repairVars, job, reader>>
    BY DEF SaveResult
  <1>7. Structure'
    BY <1>2, <1>3, <1>4, <1>5, <1>6, WorkTypes DEF Structure, TypeOK
  <1>8. QED
    BY <1>2, <1>3, <1>4, <1>5, <1>7, NoneIsNoEvidence DEF SaveResult

(* A report that counts settles the job of its own attempt. *)
LEMMA ReportStep ==
  ASSUME Structure, NEW e \in executions, ReportSuccess(e) \/ ReportFailure(e)
  PROVE  /\ Structure'
         /\ executions' = executions \ {e}
         /\ e.workflow \in Workflows
         /\ job[e.workflow].state = "RUNNING"
         /\ \E state \in {"QUEUED", "SUCCEEDED", "DEAD"} :
              /\ job'[e.workflow] = [state    |-> state,
                                     attempts |-> job[e.workflow].attempts]
              /\ state = "QUEUED" => job[e.workflow].attempts < MaxAttempts
              /\ state = "SUCCEEDED" => e.step = "report"
         /\ \A v \in Workflows \ {e.workflow} : job'[v] = job[v]
         /\ results' = results
  <1>1. e.workflow \in Workflows
    BY ExecutionType
  <1>2. PICK state \in {"QUEUED", "SUCCEEDED", "DEAD"} :
          /\ job' = [job EXCEPT ![e.workflow].state = state]
          /\ state = "QUEUED" => e.attempt < MaxAttempts
          /\ state = "SUCCEEDED" => e.step = "report"
    BY DEF ReportSuccess, ReportFailure
  <1>3. /\ Leased(e)
        /\ executions' = executions \ {e}
        /\ UNCHANGED <<known, policyVars, repairVars, results, reader>>
    BY DEF ReportSuccess, ReportFailure
  <1>4. /\ job' \in [Workflows -> Job]
        /\ job'[e.workflow] = [state    |-> state,
                               attempts |-> job[e.workflow].attempts]
        /\ \A v \in Workflows \ {e.workflow} : job'[v] = job[v]
    BY <1>1, <1>2, StateTypes
  <1>5. Structure'
    BY <1>3, <1>4, WorkTypes DEF Structure, TypeOK
  <1>6. QED
    BY <1>1, <1>2, <1>3, <1>4, <1>5 DEF Leased

LEMMA VanishStep ==
  ASSUME Structure, NEW e \in executions, Vanish(e)
  PROVE  Structure' /\ executions' = executions \ {e}
  <1>1. /\ executions' = executions \ {e}
        /\ UNCHANGED <<known, policyVars, repairVars, job, results, reader>>
    BY DEF Vanish
  <1>2. QED
    BY <1>1, WorkTypes DEF Structure, TypeOK

LEMMA DiscoverStep ==
  ASSUME Structure, NEW d \in Digests, NEW i \in 0..Len(known), Discover(d, i)
  PROVE  Structure'
  <1>1. known \in Seq(Digests) /\ Len(known) \in Nat
    BY LenProperties DEF Structure, TypeOK
  <1>2. SubSeq(known, 1, i) \in Seq(Digests)
    BY <1>1
  <1>3. SubSeq(known, i + 1, Len(known)) \in Seq(Digests)
    BY <1>1
  <1>4. known' \in Seq(Digests)
    BY <1>2, <1>3, ConcatProperties DEF Discover
  <1>5. UNCHANGED <<policyVars, repairVars, workVars, reader>>
    BY DEF Discover
  <1>6. QED
    BY <1>4, <1>5 DEF Structure, TypeOK, PolicyInv, RepairInv, policyVars,
                      repairVars, workVars, Current

-----------------------------------------------------------------------------
(* The reader. *)
LEMMA ReadTypes ==
  ASSUME Structure, NEW update \in Reader, NEW from, Read(from, update)
  PROVE  Structure'
BY DEF Read, Structure, TypeOK, PolicyInv, RepairInv, policyVars, repairVars,
       workVars, Current

LEMMA StatusType ==
  ASSUME NEW state \in JobStates \ {"ABSENT"}, NEW present \in BOOLEAN,
         NEW stale \in BOOLEAN
  PROVE  LET status == ResultStatusFromJob(state, present, stale)
         IN  /\ status \in Statuses
             /\ status = "RESULT_MISSING" => state = "SUCCEEDED" /\ ~present
             /\ status = "COMPLETED" => ~stale
BY DEF ResultStatusFromJob, JobStates, Statuses

LEMMA AnswerType ==
  ASSUME NEW status \in Statuses, NEW evidence \in [Subjects -> Verdicts],
         reader \in Reader
  PROVE  LET a == Answer(status, evidence)
         IN  /\ a \in Reader
             /\ a.step = "done"
             /\ a.since = reader.since
             /\ a.status = status
             /\ a.evidence = evidence
BY DEF Answer, Reader, JobStates, Statuses

(* Evidence judged by the policy of workflow w. *)
Judged(w, evidence) ==
  \A s \in Subjects : evidence[s] \in {"TRUSTED", "UNTRUSTED"} =>
    (evidence[s] = "TRUSTED" <=> s \in policies[w[2]])

(* A workflow is for a version that exists, a job that has succeeded has   *)
(* its result, and results are judged by the workflow's own policy.        *)
WorkflowOK(w) ==
  /\ job[w].state = "ABSENT" => job[w].attempts = 0
  /\ job[w].state # "ABSENT" => w[2] <= Current
  /\ job[w].state = "SUCCEEDED" => results[w] # None
  /\ results[w] # None => w[2] <= Current /\ Judged(w, results[w])

(* An execution knows every subject of its policy before it verifies, and  *)
(* reports only what is saved.                                             *)
ExecutionOK(e) ==
  /\ e.workflow[2] <= Current
  /\ e.step = "verify" => policies[e.workflow[2]] \subseteq e.candidates
  /\ e.step = "save" => Judged(e.workflow, e.evidence)
  /\ e.step = "report" => results[e.workflow] # None

WorkInv ==
  /\ \A w \in Workflows : WorkflowOK(w)
  /\ \A e \in executions : ExecutionOK(e)

LEMMA WorkInit == Init => WorkInv
BY DEF Init, WorkInv, WorkflowOK

(* Policies are only appended to. *)
Grows ==
  /\ Current <= Current'
  /\ \A v \in 1..Current : policies'[v] = policies[v]

LEMMA InsertGrows ==
  ASSUME Structure, NEW c \in Creators, InsertPolicy(c)
  PROVE  Grows
  <1>1. /\ policies \in Seq(Offered) /\ creator[c].subjects \in Offered
        /\ policies' = Append(policies, creator[c].subjects)
    BY DEF InsertPolicy, Structure, TypeOK, PolicyInv
  <1>2. QED
    BY <1>1, AppendProperties, LenProperties DEF Grows, Current

LEMMA SameGrows == Structure /\ policies' = policies => Grows
BY CurrentIsNat DEF Grows, Current, Structure

(* Versions and judgements survive the growth. *)
LEMMA VersionStays ==
  ASSUME Structure, Structure', Grows, NEW w \in Workflows, w[2] <= Current
  PROVE  /\ w[2] <= Current'
         /\ policies'[w[2]] = policies[w[2]]
  <1>1. Current \in Nat
    BY CurrentIsNat DEF Structure
  <1>2. TypeOK' => Current' \in Nat
    BY LenProperties DEF TypeOK, Current
  <1>3. w[2] \in Nat /\ w[2] > 0 /\ w[2] \in 1..Current
    BY <1>1, VersionOfWorkflow
  <1>4. QED
    BY <1>1, <1>2, <1>3 DEF Grows, Structure

LEMMA JudgedStays ==
  ASSUME NEW w \in Workflows, policies'[w[2]] = policies[w[2]],
         NEW evidence, Judged(w, evidence)
  PROVE  Judged(w, evidence)'
BY DEF Judged

(* What a workflow and an execution are known by survives a step that does *)
(* not touch them.                                                         *)
LEMMA WorkflowStays ==
  ASSUME Structure, Structure', Grows, NEW w \in Workflows, WorkflowOK(w),
         job'[w] = job[w], results'[w] = results[w]
  PROVE  WorkflowOK(w)'
  <1>1. CASE job[w].state = "ABSENT" /\ results[w] = None
    BY <1>1 DEF WorkflowOK
  <1>2. CASE job[w].state # "ABSENT" \/ results[w] # None
    <2>1. w[2] <= Current' /\ policies'[w[2]] = policies[w[2]]
      BY <1>2, VersionStays DEF WorkflowOK
    <2>2. results[w] # None => Judged(w, results[w])'
      BY <2>1 DEF WorkflowOK, Judged
    <2>3. QED
      BY <2>1, <2>2 DEF WorkflowOK
  <1>3. QED
    BY <1>1, <1>2

LEMMA ExecutionStays ==
  ASSUME Structure, Structure', Grows, NEW e \in executions, ExecutionOK(e),
         results[e.workflow] # None => results'[e.workflow] # None
  PROVE  ExecutionOK(e)'
  <1>1. e.workflow \in Workflows /\ e.workflow[2] <= Current
    BY ExecutionType DEF ExecutionOK
  <1>2. /\ e.workflow[2] <= Current'
        /\ policies'[e.workflow[2]] = policies[e.workflow[2]]
    BY <1>1, VersionStays
  <1>3. e.step = "save" => Judged(e.workflow, e.evidence)'
    BY <1>1, <1>2, JudgedStays DEF ExecutionOK
  <1>4. QED
    BY <1>2, <1>3 DEF ExecutionOK

(* A step that leaves jobs, executions and results alone keeps WorkInv. *)
LEMMA WorkStays ==
  ASSUME Structure, Structure', WorkInv, Grows, UNCHANGED workVars
  PROVE  WorkInv'
  <1>1. job' = job /\ executions' = executions /\ results' = results
    BY DEF workVars
  <1>2. \A w \in Workflows : WorkflowOK(w)'
    BY <1>1, WorkflowStays DEF WorkInv
  <1>3. \A e \in executions : ExecutionOK(e)'
    BY <1>1, ExecutionStays DEF WorkInv
  <1>4. QED
    BY <1>1, <1>2, <1>3 DEF WorkInv

(* A step that replaces execution e by one that is in order, and leaves    *)
(* jobs and results alone, keeps WorkInv.                                  *)
LEMMA ReplacementKeeps ==
  ASSUME Structure, Structure', WorkInv, Grows, NEW e \in executions, NEW f,
         job' = job, results' = results,
         executions' = (executions \ {e}) \cup {f}, ExecutionOK(f)'
  PROVE  WorkInv'
  <1>1. \A w \in Workflows : WorkflowOK(w)'
    BY WorkflowStays DEF WorkInv
  <1>2. \A g \in executions : ExecutionOK(g)'
    BY ExecutionStays DEF WorkInv
  <1>3. QED
    BY <1>1, <1>2 DEF WorkInv

LEMMA EnsureWork ==
  ASSUME Structure, WorkInv, NEW r \in Repairers, EnsureWrite(r)
  PROVE  WorkInv'
  <1>1. /\ Structure' /\ pending[r] \in Workflows
        /\ \A w \in Workflows : job'[w] =
             IF w = pending[r] /\ job[w].state = "ABSENT"
             THEN [job[w] EXCEPT !.state = "QUEUED"] ELSE job[w]
    BY EnsureWriteStep
  <1>2. /\ executions' = executions /\ results' = results
        /\ policies' = policies
    BY DEF EnsureWrite, policyVars
  <1>3. Grows
    BY <1>2, SameGrows
  <1>4. ASSUME NEW w \in Workflows PROVE WorkflowOK(w)'
    <2>1. CASE job'[w] = job[w]
      BY <1>1, <1>2, <1>3, <2>1, WorkflowStays DEF WorkInv
    <2>2. CASE w = pending[r] /\ job[w].state = "ABSENT"
      <3>1. job[w] \in Job
        BY DEF Structure, TypeOK
      <3>2. job'[w].state = "QUEUED"
        BY <1>1, <2>2, <3>1 DEF Job, JobStates
      <3>3. w[2] <= Current'
        BY <1>2, <2>2 DEF Structure, RepairInv, EnsureWrite, Current
      <3>4. results[w] # None => Judged(w, results[w])
        BY DEF WorkInv, WorkflowOK
      <3>5. QED
        BY <1>2, <3>2, <3>3, <3>4 DEF WorkflowOK, Judged
    <2>3. QED
      BY <1>1, <2>1, <2>2
  <1>5. \A e \in executions : ExecutionOK(e)'
    BY <1>1, <1>2, <1>3, ExecutionStays DEF WorkInv
  <1>6. QED
    BY <1>2, <1>4, <1>5 DEF WorkInv

(* A job row that was there and stays there, and did not succeed just now. *)
LEMMA JobMoves ==
  ASSUME Structure, Structure', WorkInv, NEW w \in Workflows,
         job[w].state # "ABSENT", job'[w].state # "ABSENT",
         job'[w].state = "SUCCEEDED" => results[w] # None,
         \A v \in Workflows \ {w} : job'[v] = job[v],
         results' = results, policies' = policies
  PROVE  \A v \in Workflows : WorkflowOK(v)'
  <1>1. Grows
    BY SameGrows
  <1>2. \A v \in Workflows \ {w} : WorkflowOK(v)'
    BY <1>1, WorkflowStays DEF WorkInv
  <1>3. WorkflowOK(w)'
    BY DEF WorkInv, WorkflowOK, Judged, Current
  <1>4. QED
    BY <1>2, <1>3

LEMMA StartWork ==
  ASSUME Structure, WorkInv, NEW w \in Workflows, StartJob(w)
  PROVE  WorkInv'
  <1>0. /\ job'[w] = [state |-> "RUNNING", attempts |-> job[w].attempts + 1]
        /\ job[w].state \in {"QUEUED", "RUNNING"}
        /\ Structure'
        /\ \A v \in Workflows \ {w} : job'[v] = job[v]
        /\ \A e \in executions' \ executions :
             e.workflow = w /\ e.step = "resolve"
    BY StartStep
  <1>1. job'[w].state = "RUNNING" /\ job[w].state # "ABSENT"
    BY <1>0
  <1>2. results' = results /\ policies' = policies
    BY DEF StartJob, policyVars
  <1>3. \A v \in Workflows : WorkflowOK(v)'
    BY <1>0, <1>1, <1>2, JobMoves
  <1>4. \A e \in executions : ExecutionOK(e)'
    BY <1>0, <1>2, SameGrows, ExecutionStays DEF WorkInv
  <1>5. w[2] <= Current'
    BY <1>1, <1>2 DEF WorkInv, WorkflowOK, Current
  <1>6. \A e \in executions' \ executions : ExecutionOK(e)'
    BY <1>0, <1>5 DEF ExecutionOK
  <1>7. QED
    BY <1>3, <1>4, <1>6 DEF WorkInv

LEMMA BuryWork ==
  ASSUME Structure, WorkInv, NEW w \in Workflows, BuryJob(w)
  PROVE  WorkInv'
  <1>0. /\ job'[w] = [state |-> "DEAD", attempts |-> job[w].attempts]
        /\ Structure'
        /\ \A v \in Workflows \ {w} : job'[v] = job[v]
    BY BuryStep
  <1>1. job'[w].state = "DEAD"
    BY <1>0
  <1>2. /\ job[w].state = "RUNNING" /\ executions' = executions
        /\ results' = results /\ policies' = policies
    BY DEF BuryJob, policyVars
  <1>3. \A v \in Workflows : WorkflowOK(v)'
    BY <1>0, <1>1, <1>2, JobMoves
  <1>4. \A e \in executions : ExecutionOK(e)'
    BY <1>0, <1>2, SameGrows, ExecutionStays DEF WorkInv
  <1>5. QED
    BY <1>2, <1>3, <1>4 DEF WorkInv

LEMMA ReportWork ==
  ASSUME Structure, WorkInv, NEW e \in executions,
         ReportSuccess(e) \/ ReportFailure(e)
  PROVE  WorkInv'
  <1> DEFINE w == e.workflow
  <1>1. /\ Structure' /\ w \in Workflows /\ executions' = executions \ {e}
        /\ job[w].state = "RUNNING" /\ results' = results
        /\ \A v \in Workflows \ {w} : job'[v] = job[v]
    BY ReportStep
  <1>2. PICK state \in {"QUEUED", "SUCCEEDED", "DEAD"} :
          /\ job'[w] = [state |-> state, attempts |-> job[w].attempts]
          /\ state = "SUCCEEDED" => e.step = "report"
    BY ReportStep
  <1>3. policies' = policies
    BY DEF ReportSuccess, ReportFailure, policyVars
  <1>4. state = "SUCCEEDED" => results[w] # None
    BY <1>2 DEF WorkInv, ExecutionOK
  <1>5. job'[w].state = state
    BY <1>2
  <1>6. \A v \in Workflows : WorkflowOK(v)'
    BY <1>1, <1>3, <1>4, <1>5, JobMoves
  <1>7. \A f \in executions : ExecutionOK(f)'
    BY <1>1, <1>3, SameGrows, ExecutionStays DEF WorkInv
  <1>8. QED
    BY <1>1, <1>6, <1>7 DEF WorkInv

LEMMA ResolveWork ==
  ASSUME Structure, WorkInv, NEW e \in executions, Resolve(e)
  PROVE  WorkInv'
  <1>1. PICK f \in Execution :
          /\ executions' = (executions \ {e}) \cup {f}
          /\ f.workflow = e.workflow /\ f.step = "verify"
          /\ f.candidates = CandidateSubjects
    BY ResolveStep
  <1>2. /\ Structure' /\ policies' = policies
        /\ job' = job /\ results' = results
    BY ResolveStep DEF Resolve, policyVars
  <1>3. e.workflow \in Workflows /\ e.workflow[2] <= Current
    BY ExecutionType DEF WorkInv, ExecutionOK
  <1>4. e.workflow[2] \in DOMAIN policies
    BY <1>3, VersionOfWorkflow, CurrentIsNat DEF Structure
  <1>5. policies[e.workflow[2]] \subseteq CandidateSubjects
    BY <1>4 DEF CandidateSubjects
  <1>6. ExecutionOK(f)'
    BY <1>1, <1>2, <1>3, <1>5 DEF ExecutionOK, Current
  <1>7. QED
    BY <1>1, <1>2, <1>6, SameGrows, ReplacementKeeps

LEMMA VerifyWork ==
  ASSUME Structure, WorkInv, NEW e \in executions,
         NEW found \in SUBSET Signers, NEW verified \in SUBSET Signers,
         Verify(e, found, verified)
  PROVE  WorkInv'
  <1>1. PICK f \in Execution :
          /\ executions' = (executions \ {e}) \cup {f}
          /\ f.workflow = e.workflow /\ f.step = "save"
          /\ f.evidence = [s \in Subjects |->
               IF s \in found
               THEN Evaluated(e.workflow[2], s, verified) ELSE "NONE"]
    BY VerifyStep
  <1>2. /\ Structure' /\ policies' = policies
        /\ job' = job /\ results' = results
    BY VerifyStep DEF Verify, policyVars
  <1>3. e.workflow[2] <= Current
    BY DEF WorkInv, ExecutionOK
  <1>4. Judged(e.workflow, f.evidence)
    BY <1>1 DEF Judged, Evaluated
  <1>5. ExecutionOK(f)'
    BY <1>1, <1>2, <1>3, <1>4 DEF ExecutionOK, Judged, Current
  <1>6. QED
    BY <1>1, <1>2, <1>5, SameGrows, ReplacementKeeps

LEMMA SaveWork ==
  ASSUME Structure, WorkInv, NEW e \in executions, SaveResult(e)
  PROVE  WorkInv'
  <1> DEFINE w == e.workflow
  <1>1. PICK f \in Execution :
          /\ executions' = (executions \ {e}) \cup {f}
          /\ f.workflow = w /\ f.step = "report"
    BY SaveStep
  <1>2. /\ Structure' /\ policies' = policies /\ job' = job
        /\ results' = [results EXCEPT ![w] = e.evidence]
        /\ e.evidence # None /\ e.step = "save" /\ w \in Workflows
    BY SaveStep, ExecutionType DEF SaveResult, policyVars
  <1>3. /\ results'[w] = e.evidence
        /\ \A v \in Workflows \ {w} : results'[v] = results[v]
    BY <1>2 DEF Structure, TypeOK
  <1>4. w[2] <= Current /\ Judged(w, e.evidence)
    BY <1>2 DEF WorkInv, ExecutionOK
  <1>5. WorkflowOK(w)'
    BY <1>2, <1>3, <1>4 DEF WorkInv, WorkflowOK, Judged, Current
  <1>6. \A v \in Workflows \ {w} : WorkflowOK(v)'
    BY <1>2, <1>3, SameGrows, WorkflowStays DEF WorkInv
  <1>7. ASSUME NEW g \in executions PROVE ExecutionOK(g)'
    <2>1. results[g.workflow] # None => results'[g.workflow] # None
      BY <1>2, <1>3, ExecutionType
    <2>2. QED
      BY <1>2, <2>1, SameGrows, ExecutionStays DEF WorkInv
  <1>8. ExecutionOK(f)'
    BY <1>1, <1>2, <1>3, <1>4 DEF ExecutionOK, Current
  <1>9. QED
    BY <1>1, <1>5, <1>6, <1>7, <1>8 DEF WorkInv

LEMMA VanishWork ==
  ASSUME Structure, WorkInv, NEW e \in executions, Vanish(e)
  PROVE  WorkInv'
  <1>1. /\ Structure' /\ executions' = executions \ {e}
        /\ job' = job /\ results' = results /\ policies' = policies
    BY VanishStep DEF Vanish, policyVars
  <1>2. Grows
    BY <1>1, SameGrows
  <1>3. \A w \in Workflows : WorkflowOK(w)'
    BY <1>1, <1>2, WorkflowStays DEF WorkInv
  <1>4. \A f \in executions : ExecutionOK(f)'
    BY <1>1, <1>2, ExecutionStays DEF WorkInv
  <1>5. QED
    BY <1>1, <1>3, <1>4 DEF WorkInv

(* Whatever was there stays there: versions, workflows and results. *)
Persists ==
  /\ Grows
  /\ \A w \in Workflows :
       /\ job[w].state # "ABSENT" => job'[w].state # "ABSENT"
       /\ results[w] # None => results'[w] # None

LEMMA WorkStayed ==
  Structure /\ Grows /\ UNCHANGED workVars => Persists
BY DEF Persists, workVars

(* What the reader does changes nothing else. *)
ReaderMoves ==
  \/ \E d \in Asked : ReadWorkflow(d)
  \/ ReadJob \/ ReadResult \/ ReadPolicy \/ ReadEvidence

LEMMA PolicyMoves ==
  ASSUME Structure, WorkInv, NEW c \in Creators,
         \/ \E subjects \in Offered : LockNamespace(c, subjects)
         \/ ReadVersion(c) \/ InsertPolicy(c) \/ AbandonPolicy(c)
         \/ EagerRepair(c)
  PROVE  Structure' /\ WorkInv' /\ Persists /\ reader' = reader
  <1>1. Structure'
    BY LockStep, ReadVersionStep, InsertStep, AbandonStep, EagerStep
  <1>2. UNCHANGED workVars /\ reader' = reader
    BY DEF LockNamespace, ReadVersion, InsertPolicy, AbandonPolicy, EagerRepair
  <1>3. CASE InsertPolicy(c)
    BY <1>1, <1>2, <1>3, InsertGrows, WorkStays, WorkStayed
  <1>4. CASE ~InsertPolicy(c)
    <2>1. policies' = policies
      BY <1>4 DEF LockNamespace, ReadVersion, AbandonPolicy, EagerRepair
    <2>2. QED
      BY <1>1, <1>2, <2>1, SameGrows, WorkStays, WorkStayed
  <1>5. QED
    BY <1>3, <1>4

LEMMA RepairMoves ==
  ASSUME Structure, WorkInv, NEW r \in Repairers,
         PeriodicRepair \/ EnsureRead(r) \/ EnsureWrite(r) \/ AbortRepair(r)
  PROVE  Structure' /\ WorkInv' /\ Persists /\ reader' = reader
  <1>1. /\ Structure'
        /\ reader' = reader /\ policies' = policies
    BY PeriodicStep, EnsureReadStep, EnsureWriteStep, AbortStep
       DEF PeriodicRepair, EnsureRead, EnsureWrite, AbortRepair, policyVars
  <1>2. Grows
    BY <1>1, SameGrows
  <1>3. CASE EnsureWrite(r)
    <2>1. \A w \in Workflows : job'[w] =
            IF w = pending[r] /\ job[w].state = "ABSENT"
            THEN [job[w] EXCEPT !.state = "QUEUED"] ELSE job[w]
      BY <1>3, EnsureWriteStep
    <2>2. \A w \in Workflows :
            job[w].state # "ABSENT" => job'[w].state # "ABSENT"
      BY <2>1
    <2>3. results' = results
      BY <1>3 DEF EnsureWrite
    <2>4. QED
      BY <1>1, <1>2, <1>3, <2>2, <2>3, EnsureWork DEF Persists
  <1>4. CASE ~EnsureWrite(r)
    <2>1. UNCHANGED workVars
      BY <1>4 DEF PeriodicRepair, EnsureRead, AbortRepair
    <2>2. QED
      BY <1>1, <1>2, <2>1, WorkStays, WorkStayed
  <1>5. QED
    BY <1>3, <1>4

LEMMA JobMovesOn ==
  ASSUME Structure, WorkInv, NEW w \in Workflows, StartJob(w) \/ BuryJob(w)
  PROVE  Structure' /\ WorkInv' /\ Persists /\ reader' = reader
  <1>1. Structure' /\ WorkInv'
    BY StartStep, BuryStep, StartWork, BuryWork
  <1>2. /\ policies' = policies /\ results' = results /\ reader' = reader
    BY DEF StartJob, BuryJob, policyVars
  <1>3. \E q \in {"RUNNING", "DEAD"}, n \in Int :
          job'[w] = [state |-> q, attempts |-> n]
    <2>1. job[w].attempts \in Int /\ job[w].attempts + 1 \in Int
      BY TrustAssumption DEF Structure, TypeOK, Job, JobStates
    <2>2. \/ job'[w] = [state |-> "RUNNING", attempts |-> job[w].attempts + 1]
          \/ job'[w] = [state |-> "DEAD", attempts |-> job[w].attempts]
      BY StartStep, BuryStep
    <2>3. QED
      BY <2>1, <2>2
  <1>4. \A v \in Workflows \ {w} : job'[v] = job[v]
    BY StartStep, BuryStep
  <1>5. job'[w].state # "ABSENT"
    BY <1>3
  <1>6. QED
    BY <1>1, <1>2, <1>4, <1>5, SameGrows DEF Persists

LEMMA ExecutionMoves ==
  ASSUME Structure, WorkInv, NEW e \in executions,
         \/ Resolve(e) \/ SaveResult(e)
         \/ \E found, verified \in SUBSET Signers : Verify(e, found, verified)
         \/ ReportSuccess(e) \/ ReportFailure(e) \/ Vanish(e)
  PROVE  Structure' /\ WorkInv' /\ Persists /\ reader' = reader
  <1>1. Structure'
    BY ResolveStep, SaveStep, VerifyStep, ReportStep, VanishStep
  <1>2. WorkInv'
    BY ResolveWork, SaveWork, VerifyWork, ReportWork, VanishWork
  <1>3. policies' = policies /\ reader' = reader
    BY DEF Resolve, SaveResult, Verify, ReportSuccess, ReportFailure, Vanish,
           policyVars
  <1>4. Grows
    BY <1>3, SameGrows
  <1>5. CASE ReportSuccess(e) \/ ReportFailure(e)
    <2>1. /\ e.workflow \in Workflows /\ results' = results
          /\ \A v \in Workflows \ {e.workflow} : job'[v] = job[v]
      BY <1>5, ReportStep
    <2>2. PICK q \in {"QUEUED", "SUCCEEDED", "DEAD"} :
            job'[e.workflow] = [state    |-> q,
                                attempts |-> job[e.workflow].attempts]
      BY <1>5, ReportStep
    <2>3. job'[e.workflow].state # "ABSENT"
      BY <2>2
    <2>4. QED
      BY <1>1, <1>2, <1>3, <1>4, <2>1, <2>3 DEF Persists
  <1>6. CASE SaveResult(e)
    <2>1. /\ results' = [results EXCEPT ![e.workflow] = e.evidence]
          /\ e.evidence # None
          /\ job' = job
      BY <1>6, SaveStep DEF SaveResult
    <2>2. QED
      BY <1>1, <1>2, <1>3, <1>4, <2>1 DEF Persists, Structure, TypeOK
  <1>7. CASE Resolve(e) \/ Vanish(e)
             \/ \E found, verified \in SUBSET Signers : Verify(e, found, verified)
    <2>1. job' = job /\ results' = results
      BY <1>7 DEF Resolve, Verify, Vanish
    <2>2. QED
      BY <1>1, <1>2, <1>3, <1>4, <2>1 DEF Persists
  <1>8. QED
    BY <1>5, <1>6, <1>7

-----------------------------------------------------------------------------
(* What the reader knows after each of its queries.  A result it has seen  *)
(* is still there, whatever happened since; COMPLETED was decided while    *)
(* the policy of its workflow was current.                                 *)
Reading == {"job", "result", "policy", "evidence"}

ReaderInv ==
  /\ reader.since <= Current
  /\ NeverMissing
  /\ reader.step \in Reading => reader.workflow \in Workflows
  /\ reader.step = "job" => job[reader.workflow].state # "ABSENT"
  /\ reader.step \in {"result", "policy"} =>
       /\ reader.state # "ABSENT"
       /\ reader.state = "SUCCEEDED" => results[reader.workflow] # None
  /\ reader.step = "policy" =>
       /\ reader.state = "SUCCEEDED" => reader.present
       /\ reader.present => results[reader.workflow] # None
  /\ reader.step = "evidence" =>
       /\ results[reader.workflow] # None
       /\ reader.status = "COMPLETED" => reader.workflow[2] >= reader.since
  /\ RevokedNotTrusted

LEMMA ReaderInit == Init => ReaderInv
BY DEF Init, IdleReader, ReaderInv, NeverMissing, RevokedNotTrusted, Reading,
       Current

LEMMA ReaderStays ==
  ASSUME Structure, Structure', ReaderInv, Persists, reader' = reader
  PROVE  ReaderInv'
  <1>1. Current \in Nat /\ DOMAIN policies = 1..Current
    BY CurrentIsNat DEF Structure
  <1>2. Current' \in Nat /\ DOMAIN policies' = 1..Current'
    <2>1. TypeOK'
      BY DEF Structure
    <2>2. QED
      BY <2>1, LenProperties DEF TypeOK, Current
  <1>3. reader.since \in Nat
    BY DEF Structure, TypeOK, Reader, Statuses, JobStates
  <1>4. reader.since <= Current'
    BY <1>1, <1>2, <1>3 DEF ReaderInv, Persists, Grows
  <1>5. RevokedNotTrusted'
    <2>1. \A v \in DOMAIN policies :
            v \in DOMAIN policies' /\ policies'[v] = policies[v]
      BY <1>1, <1>2 DEF Persists, Grows
    <2>2. QED
      BY <2>1 DEF ReaderInv, RevokedNotTrusted
  <1>6. QED
    BY <1>4, <1>5 DEF ReaderInv, NeverMissing, Reading, Persists

LEMMA LatestType ==
  ASSUME NEW d \in Digests, Latest(d) # {}
  PROVE  LET w == <<d, CHOOSE v \in Latest(d) : TRUE>>
         IN  w \in Workflows /\ job[w].state # "ABSENT"
  <1> DEFINE v == CHOOSE v \in Latest(d) : TRUE
  <1>1. v \in Latest(d)
    OBVIOUS
  <1> HIDE DEF v
  <1>2. v \in Versions /\ job[<<d, v>>].state # "ABSENT"
    BY <1>1 DEF Latest, HasWorkflow
  <1>3. <<d, v>> \in Workflows
    BY <1>2 DEF Workflows
  <1>4. QED
    BY <1>2, <1>3 DEF v

LEMMA ReaderType == Structure => reader \in Reader
BY DEF Structure, TypeOK

LEMMA ReadWorkflowStep ==
  ASSUME Structure, WorkInv, ReaderInv, NEW d \in Asked, ReadWorkflow(d)
  PROVE  Structure' /\ ReaderInv'
  <1> DEFINE w == <<d, CHOOSE v \in Latest(d) : TRUE>>
             r == [reader EXCEPT !.step = "job", !.since = Current,
                                 !.workflow = w]
  <1>1. UNCHANGED <<known, policyVars, repairVars, workVars>>
    BY DEF ReadWorkflow, Read
  <1>2. d \in Digests /\ reader \in Reader /\ Current \in Nat
    BY TrustAssumption, ReaderType, CurrentIsNat DEF Structure
  <1>3. CASE Latest(d) = {}
    <2> DEFINE a == Answer("NONE", NoEvidence)
    <2>1. /\ a \in Reader /\ a.step = "done" /\ a.since = reader.since
          /\ a.status = "NONE"
      BY <1>2, NoEvidenceType, AnswerType DEF Statuses
    <2> HIDE DEF a
    <2>2. Read("idle", a)
      BY <1>3 DEF ReadWorkflow, a
    <2>3. Structure'
      BY <2>1, <2>2, ReadTypes
    <2>4. reader' = a
      BY <2>2 DEF Read
    <2>5. ReaderInv'
      BY <1>1, <2>1, <2>4
         DEF ReaderInv, NeverMissing, RevokedNotTrusted, Reading, Current,
             policyVars, workVars
    <2>6. QED
      BY <2>3, <2>5
  <1>4. CASE Latest(d) # {}
    <2>1. w \in Workflows /\ job[w].state # "ABSENT"
      BY <1>2, <1>4, LatestType
    <2>2. Read("idle", r)
      BY <1>4 DEF ReadWorkflow
    <2> HIDE DEF w
    <2>3. /\ r \in Reader /\ r.step = "job" /\ r.since = Current
          /\ r.workflow = w /\ r.status = reader.status
      BY <1>2, <2>1 DEF Reader, Statuses, JobStates
    <2> HIDE DEF r
    <2>4. Structure'
      BY <2>2, <2>3, ReadTypes
    <2>5. reader' = r
      BY <2>2 DEF Read
    <2>6. ReaderInv'
      BY <1>1, <1>2, <2>1, <2>3, <2>5
         DEF ReaderInv, NeverMissing, RevokedNotTrusted, Reading, Current,
             policyVars, workVars
    <2>7. QED
      BY <2>4, <2>6
  <1>5. QED
    BY <1>3, <1>4

LEMMA ReadJobStep ==
  ASSUME Structure, WorkInv, ReaderInv, ReadJob
  PROVE  Structure' /\ ReaderInv'
  <1> DEFINE w == reader.workflow
             r == [reader EXCEPT !.step = "result", !.state = job[w].state]
  <1>1. /\ reader.step = "job" /\ reader' = r
        /\ UNCHANGED <<known, policyVars, repairVars, workVars>>
    BY DEF ReadJob, Read
  <1>2. reader \in Reader /\ w \in Workflows /\ job[w] \in Job
    BY <1>1, ReaderType DEF ReaderInv, Reading, Structure, TypeOK
  <1>3. /\ job[w].state # "ABSENT"
        /\ job[w].state = "SUCCEEDED" => results[w] # None
    BY <1>1, <1>2 DEF ReaderInv, WorkInv, WorkflowOK
  <1>4. /\ r \in Reader /\ r.step = "result" /\ r.since = reader.since
        /\ r.workflow = w /\ r.status = reader.status
        /\ r.state = job[w].state
    BY <1>2 DEF Reader, Statuses, JobStates, Job
  <1>5. Structure'
    <2>1. Read("job", r)
      BY DEF ReadJob
    <2> HIDE DEF r
    <2>2. QED
      BY <1>4, <2>1, ReadTypes
  <1> HIDE DEF r, w
  <1>6. ReaderInv'
    BY <1>1, <1>2, <1>3, <1>4
       DEF ReaderInv, NeverMissing, RevokedNotTrusted, Reading, Current,
           policyVars, workVars
  <1>7. QED
    BY <1>5, <1>6

LEMMA ReadResultStep ==
  ASSUME Structure, ReaderInv, ReadResult
  PROVE  Structure' /\ ReaderInv'
  <1> DEFINE w == reader.workflow
             r == [reader EXCEPT !.step = "policy",
                                 !.present = results[w] # None]
  <1>1. /\ reader.step = "result" /\ reader' = r
        /\ UNCHANGED <<known, policyVars, repairVars, workVars>>
    BY DEF ReadResult, Read
  <1>2. /\ reader \in Reader /\ w \in Workflows
        /\ reader.state # "ABSENT"
        /\ reader.state = "SUCCEEDED" => results[w] # None
    BY <1>1, ReaderType DEF ReaderInv, Reading
  <1>3. /\ r \in Reader /\ r.step = "policy" /\ r.since = reader.since
        /\ r.workflow = w /\ r.status = reader.status
        /\ r.state = reader.state
        /\ r.present = (results[w] # None)
    BY <1>2 DEF Reader, Statuses, JobStates
  <1>4. Structure'
    <2>1. Read("result", r)
      BY DEF ReadResult
    <2> HIDE DEF r
    <2>2. QED
      BY <1>3, <2>1, ReadTypes
  <1> HIDE DEF r, w
  <1>5. ReaderInv'
    BY <1>1, <1>2, <1>3
       DEF ReaderInv, NeverMissing, RevokedNotTrusted, Reading, Current,
           policyVars, workVars
  <1>6. QED
    BY <1>4, <1>5

LEMMA ReadPolicyStep ==
  ASSUME Structure, ReaderInv, ReadPolicy
  PROVE  Structure' /\ ReaderInv'
  <1> DEFINE w == reader.workflow
             stale == Current # w[2]
             status == ResultStatusFromJob(reader.state, reader.present, stale)
             r == [reader EXCEPT !.step = "evidence", !.status = status,
                                 !.state = "ABSENT", !.present = FALSE]
             a == Answer(status, NoEvidence)
  <1>1. /\ reader.step = "policy"
        /\ reader' = IF reader.present THEN r ELSE a
        /\ UNCHANGED <<known, policyVars, repairVars, workVars>>
    BY DEF ReadPolicy, Read
  <1>2. /\ reader \in Reader /\ w \in Workflows
        /\ reader.state # "ABSENT"
        /\ reader.state = "SUCCEEDED" => reader.present
        /\ reader.present => results[w] # None
        /\ reader.since <= Current
    BY <1>1, ReaderType DEF ReaderInv, Reading
  <1>3. reader.state \in JobStates \ {"ABSENT"} /\ reader.present \in BOOLEAN
    BY <1>2 DEF Reader, Statuses, JobStates
  <1>4. /\ status \in Statuses
        /\ status = "RESULT_MISSING" =>
             reader.state = "SUCCEEDED" /\ ~reader.present
        /\ status = "COMPLETED" => ~stale
    BY <1>3, StatusType
  <1>5. status = "COMPLETED" => reader.present
    BY <1>3 DEF ResultStatusFromJob, JobStates
  <1> HIDE DEF status
  <1>6. /\ r \in Reader /\ r.step = "evidence" /\ r.since = reader.since
        /\ r.workflow = w /\ r.status = status
    BY <1>2, <1>4 DEF Reader, JobStates, Statuses
  <1>7. /\ a \in Reader /\ a.step = "done" /\ a.since = reader.since
        /\ a.status = status
    BY <1>2, <1>4, NoEvidenceType, AnswerType
  <1>8. Read("policy", IF reader.present THEN r ELSE a)
    BY DEF ReadPolicy, status
  <1> HIDE DEF r, a, w
  <1>9. Structure'
    BY <1>6, <1>7, <1>8, ReadTypes
  <1>10. CASE reader.present
    <2>1. reader' = r /\ results[w] # None /\ status # "RESULT_MISSING"
      BY <1>1, <1>2, <1>4, <1>10
    <2>2. status = "COMPLETED" => w[2] >= reader.since
      BY <1>2, <1>4, <1>10, VersionOfWorkflow
    <2>3. QED
      BY <1>1, <1>2, <1>6, <1>9, <2>1, <2>2
         DEF ReaderInv, NeverMissing, RevokedNotTrusted, Reading, Current,
             policyVars, workVars
  <1>11. CASE ~reader.present
    <2>1. reader' = a
      BY <1>1, <1>11
    <2>2. status # "COMPLETED" /\ status # "RESULT_MISSING"
      BY <1>2, <1>4, <1>5, <1>11
    <2>3. QED
      BY <1>1, <1>2, <1>7, <1>9, <2>1, <2>2
         DEF ReaderInv, NeverMissing, RevokedNotTrusted, Reading, Current,
             policyVars, workVars
  <1>12. QED
    BY <1>9, <1>10, <1>11

LEMMA ReadEvidenceStep ==
  ASSUME Structure, WorkInv, ReaderInv, ReadEvidence
  PROVE  Structure' /\ ReaderInv'
  <1> DEFINE w == reader.workflow
             a == Answer(reader.status, results[w])
  <1>1. /\ reader.step = "evidence" /\ Read("evidence", a)
        /\ UNCHANGED <<known, policyVars, repairVars, workVars>>
    BY DEF ReadEvidence, Read
  <1>2. /\ reader \in Reader /\ w \in Workflows /\ results[w] # None
        /\ reader.since <= Current
        /\ reader.status # "RESULT_MISSING"
        /\ reader.status = "COMPLETED" => w[2] >= reader.since
    BY <1>1, ReaderType DEF ReaderInv, NeverMissing, Reading
  <1>3. reader.status \in Statuses /\ results[w] \in [Subjects -> Verdicts]
    BY <1>2 DEF Reader, JobStates, Statuses, Structure, TypeOK
  <1>4. /\ a \in Reader /\ a.step = "done" /\ a.since = reader.since
        /\ a.status = reader.status /\ a.evidence = results[w]
    BY <1>2, <1>3, AnswerType
  <1> HIDE DEF a
  <1>5. Structure'
    BY <1>1, <1>4, ReadTypes
  <1>6. reader' = a
    BY <1>1 DEF Read
  <1>7. w[2] \in DOMAIN policies /\ Judged(w, results[w])
    BY <1>2, VersionOfWorkflow, CurrentIsNat
       DEF WorkInv, WorkflowOK, Structure
  <1>8. RevokedNotTrusted'
    <2>1. SUFFICES ASSUME reader.status = "COMPLETED",
                          NEW s \in Subjects, results[w][s] = "TRUSTED"
                   PROVE  w[2] >= reader.since /\ s \in policies[w[2]]
      BY <1>1, <1>4, <1>6, <1>7 DEF RevokedNotTrusted, policyVars
    <2>2. QED
      BY <1>2, <1>7, <2>1 DEF Judged
  <1>9. ReaderInv'
    BY <1>1, <1>2, <1>4, <1>6, <1>8
       DEF ReaderInv, NeverMissing, Reading, Current, policyVars, workVars
  <1>10. QED
    BY <1>5, <1>9

-----------------------------------------------------------------------------
(* One step of the module. *)
Inv == Structure /\ WorkInv /\ ReaderInv

LEMMA OtherMoves ==
  ASSUME Structure, WorkInv, Next, ~ReaderMoves,
         ~(\E d \in Digests, i \in 0..Len(known) : Discover(d, i))
  PROVE  Structure' /\ WorkInv' /\ Persists /\ reader' = reader
  <1>1. ASSUME NEW c \in Creators,
               \/ \E subjects \in Offered : LockNamespace(c, subjects)
               \/ ReadVersion(c) \/ InsertPolicy(c) \/ AbandonPolicy(c)
               \/ EagerRepair(c)
        PROVE  Structure' /\ WorkInv' /\ Persists /\ reader' = reader
    BY <1>1, PolicyMoves
  <1>2. ASSUME NEW r \in Repairers,
               PeriodicRepair \/ EnsureRead(r) \/ EnsureWrite(r) \/ AbortRepair(r)
        PROVE  Structure' /\ WorkInv' /\ Persists /\ reader' = reader
    BY <1>2, RepairMoves
  <1>3. ASSUME NEW w \in Workflows, StartJob(w) \/ BuryJob(w)
        PROVE  Structure' /\ WorkInv' /\ Persists /\ reader' = reader
    BY <1>3, JobMovesOn
  <1>4. ASSUME NEW e \in executions,
               \/ Resolve(e) \/ SaveResult(e)
               \/ \E found, verified \in SUBSET Signers : Verify(e, found, verified)
               \/ ReportSuccess(e) \/ ReportFailure(e) \/ Vanish(e)
        PROVE  Structure' /\ WorkInv' /\ Persists /\ reader' = reader
    BY <1>4, ExecutionMoves
  <1>5. Periodic \in Repairers
    BY DEF Repairers
  <1>6. QED
    BY <1>1, <1>2, <1>3, <1>4, <1>5 DEF Next, ReaderMoves

LEMMA InvInit == Init => Inv
BY StructureInit, WorkInit, ReaderInit DEF Inv

LEMMA InvStep == Inv /\ [Next]_vars => Inv'
  <1> SUFFICES ASSUME Structure, WorkInv, ReaderInv, [Next]_vars
               PROVE  Structure' /\ WorkInv' /\ ReaderInv'
    BY DEF Inv
  <1>1. CASE ReaderMoves
    <2>1. UNCHANGED <<policies, workVars>>
      BY <1>1 DEF ReaderMoves, ReadWorkflow, ReadJob, ReadResult, ReadPolicy,
                  ReadEvidence, Read, policyVars
    <2>2. Structure' /\ ReaderInv'
      BY <1>1, ReadWorkflowStep, ReadJobStep, ReadResultStep, ReadPolicyStep,
         ReadEvidenceStep DEF ReaderMoves
    <2>3. QED
      BY <2>1, <2>2, SameGrows, WorkStays
  <1>2. CASE \E d \in Digests, i \in 0..Len(known) : Discover(d, i)
    <2>1. UNCHANGED <<policies, workVars, reader>> /\ Structure'
      BY <1>2, DiscoverStep DEF Discover, policyVars
    <2>2. Persists /\ WorkInv'
      BY <2>1, SameGrows, WorkStays, WorkStayed
    <2>3. QED
      BY <2>1, <2>2, ReaderStays
  <1>3. CASE UNCHANGED vars
    <2>1. /\ UNCHANGED <<known, policyVars, repairVars, workVars, reader>>
          /\ UNCHANGED <<job, executions, results, policies>>
      BY <1>3 DEF vars, workVars, policyVars
    <2>2. Structure'
      BY <2>1, WorkTypes DEF Structure, TypeOK
    <2>3. Persists /\ WorkInv'
      BY <2>1, <2>2, SameGrows, WorkStays, WorkStayed
    <2>4. QED
      BY <2>1, <2>2, <2>3, ReaderStays
  <1>4. CASE /\ Next /\ ~ReaderMoves
             /\ ~(\E d \in Digests, i \in 0..Len(known) : Discover(d, i))
    BY <1>4, OtherMoves, ReaderStays
  <1>5. QED
    BY <1>1, <1>2, <1>3, <1>4

LEMMA Invariance == Spec => []Inv
BY InvInit, InvStep, PTL DEF Spec

(***************************************************************************)
(* Every variable keeps its type, for any number of creators, repairs,     *)
(* executions and versions.                                                *)
(***************************************************************************)
THEOREM TypeCorrect == Spec => []TypeOK
  <1>1. Inv => TypeOK
    BY DEF Inv, Structure
  <1>2. QED
    BY <1>1, Invariance, PTL

(***************************************************************************)
(* CreateTrustPolicy's lock on the namespace row keeps the version it read *)
(* free until it inserts: concurrent owners never collide.                 *)
(***************************************************************************)
THEOREM VersionsNeverCollide == Spec => []VersionFresh
  <1>1. Inv => VersionFresh
    BY DEF Inv, Structure, PolicyInv, VersionFresh
  <1>2. QED
    BY <1>1, Invariance, PTL

(***************************************************************************)
(* Saved evidence was judged by the policy of its own workflow, whichever  *)
(* execution, in possession of the lease or not, saved it last: what was   *)
(* verified is trusted if and only if that policy names its subject.  And  *)
(* what an execution looks for includes all subjects of that policy.       *)
(***************************************************************************)
THEOREM TrustedByPolicy == Spec => []TrustByPolicy
  <1>1. Inv => TrustByPolicy
    BY DEF Inv, WorkInv, WorkflowOK, ExecutionOK, Judged, TrustByPolicy
  <1>2. QED
    BY <1>1, Invariance, PTL

(***************************************************************************)
(* The five unsynchronised queries of a reader never add up to a result    *)
(* that is missing ...                                                     *)
(***************************************************************************)
THEOREM ResultsNeverMissing == Spec => []NeverMissing
  <1>1. Inv => NeverMissing
    BY DEF Inv, ReaderInv
  <1>2. QED
    BY <1>1, Invariance, PTL

(***************************************************************************)
(* ... nor to a COMPLETED answer that trusts a subject which no version    *)
(* since the reader began names.                                           *)
(***************************************************************************)
THEOREM RevokedNeverTrusted == Spec => []RevokedNotTrusted
  <1>1. Inv => RevokedNotTrusted
    BY DEF Inv, ReaderInv
  <1>2. QED
    BY <1>1, Invariance, PTL

-----------------------------------------------------------------------------
(* The life cycle of the jobs. *)
LEMMA EngineInit == Init => Engine!Init
BY DEF Init, Engine!Init

(* What a step may do to one job row. *)
JobStep(w) ==
  \/ job[w].state = "ABSENT"
       /\ job'[w] = [state |-> "QUEUED", attempts |-> job[w].attempts]
  \/ /\ job[w].state \in {"QUEUED", "RUNNING"}
     /\ job[w].attempts < MaxAttempts
     /\ job'[w] = [state |-> "RUNNING", attempts |-> job[w].attempts + 1]
  \/ /\ job[w].state = "RUNNING"
     /\ \E q \in {"QUEUED", "SUCCEEDED", "DEAD"} :
          /\ q = "QUEUED" => job[w].attempts < MaxAttempts
          /\ job'[w] = [state |-> q, attempts |-> job[w].attempts]

OneJobSteps ==
  \/ \A v \in Workflows : job'[v] = job[v]
  \/ \E w \in Workflows :
       JobStep(w) /\ \A v \in Workflows \ {w} : job'[v] = job[v]

LEMMA OneJob == Structure /\ [Next]_vars => OneJobSteps
  <1> SUFFICES ASSUME Structure, [Next]_vars PROVE OneJobSteps
    OBVIOUS
  <1>1. ASSUME NEW r \in Repairers, EnsureWrite(r) PROVE OneJobSteps
    <2> DEFINE w == pending[r]
    <2>1. /\ w \in Workflows
          /\ \A v \in Workflows : job'[v] =
               IF v = w /\ job[v].state = "ABSENT"
               THEN [job[v] EXCEPT !.state = "QUEUED"] ELSE job[v]
      BY <1>1, EnsureWriteStep
    <2>2. job[w] \in Job
      BY <2>1 DEF Structure, TypeOK
    <2>3. [job[w] EXCEPT !.state = "QUEUED"]
            = [state |-> "QUEUED", attempts |-> job[w].attempts]
      BY <2>2 DEF Job, JobStates
    <2> HIDE DEF w
    <2>4. CASE job[w].state = "ABSENT"
      <3>1. /\ job'[w] = [state |-> "QUEUED", attempts |-> job[w].attempts]
            /\ \A v \in Workflows \ {w} : job'[v] = job[v]
        BY <2>1, <2>3, <2>4
      <3>2. QED
        BY <2>1, <2>4, <3>1 DEF OneJobSteps, JobStep
    <2>5. CASE job[w].state # "ABSENT"
      BY <2>1, <2>5 DEF OneJobSteps
    <2>6. QED
      BY <2>4, <2>5
  <1>2. ASSUME NEW w \in Workflows, StartJob(w) PROVE OneJobSteps
    BY <1>2, StartStep DEF OneJobSteps, JobStep
  <1>3. ASSUME NEW w \in Workflows, BuryJob(w) PROVE OneJobSteps
    <2>1. /\ job[w].state = "RUNNING"
          /\ job'[w] = [state |-> "DEAD", attempts |-> job[w].attempts]
          /\ \A v \in Workflows \ {w} : job'[v] = job[v]
      BY <1>3, BuryStep DEF BuryJob
    <2>2. JobStep(w)
      BY <2>1 DEF JobStep
    <2>3. QED
      BY <2>1, <2>2 DEF OneJobSteps
  <1>4. ASSUME NEW e \in executions, ReportSuccess(e) \/ ReportFailure(e)
        PROVE  OneJobSteps
    <2> DEFINE w == e.workflow
    <2>1. /\ w \in Workflows /\ job[w].state = "RUNNING"
          /\ \A v \in Workflows \ {w} : job'[v] = job[v]
      BY <1>4, ReportStep
    <2>2. \E q \in {"QUEUED", "SUCCEEDED", "DEAD"} :
            /\ job'[w] = [state |-> q, attempts |-> job[w].attempts]
            /\ q = "QUEUED" => job[w].attempts < MaxAttempts
      BY <1>4, ReportStep
    <2> HIDE DEF w
    <2>3. JobStep(w)
      BY <2>1, <2>2 DEF JobStep
    <2>4. QED
      BY <2>1, <2>3 DEF OneJobSteps
  <1>5. CASE job' = job
    BY <1>5 DEF OneJobSteps
  <1>6. ASSUME NEW e \in executions,
               \/ Resolve(e) \/ SaveResult(e) \/ Vanish(e)
               \/ \E found, verified \in SUBSET Signers : Verify(e, found, verified)
        PROVE  job' = job
    BY <1>6 DEF Resolve, SaveResult, Vanish, Verify
  <1>7. ASSUME NEW c \in Creators,
               \/ \E subjects \in Offered : LockNamespace(c, subjects)
               \/ ReadVersion(c) \/ InsertPolicy(c) \/ AbandonPolicy(c)
               \/ EagerRepair(c)
        PROVE  job' = job
    BY <1>7 DEF LockNamespace, ReadVersion, InsertPolicy, AbandonPolicy,
                EagerRepair, workVars
  <1>8. ASSUME NEW r \in Repairers,
               PeriodicRepair \/ EnsureRead(r) \/ AbortRepair(r)
        PROVE  job' = job
    BY <1>8 DEF PeriodicRepair, EnsureRead, AbortRepair, workVars
  <1>9. ASSUME \/ ReaderMoves \/ UNCHANGED vars
               \/ \E d \in Digests, i \in 0..Len(known) : Discover(d, i)
        PROVE  job' = job
    BY <1>9 DEF ReaderMoves, ReadWorkflow, ReadJob, ReadResult, ReadPolicy,
                ReadEvidence, Read, Discover, vars, workVars
  <1>10. Periodic \in Repairers
    BY DEF Repairers
  <1>11. QED
    BY <1>1, <1>2, <1>3, <1>4, <1>5, <1>6, <1>7, <1>8, <1>9, <1>10
       DEF Next, ReaderMoves

LEMMA EngineStep ==
  Structure /\ WorkInv /\ [Next]_vars => [Engine!Next]_Engine!vars
  <1> SUFFICES ASSUME Structure, WorkInv, [Next]_vars
               PROVE  [Engine!Next]_Engine!vars
    OBVIOUS
  <1>1. CASE \A v \in Workflows : job'[v] = job[v]
    <2>1. UNCHANGED Engine!vars
      BY <1>1 DEF Engine!vars
    <2>2. QED
      BY <2>1
  <1>2. ASSUME NEW w \in Workflows, JobStep(w),
               \A v \in Workflows \ {w} : job'[v] = job[v]
        PROVE  Engine!Next
    <2>1. job[w] \in Job
      BY DEF Structure, TypeOK
    <2>2. job[w].attempts \in Nat
      BY <2>1, TrustAssumption DEF Job, JobStates
    <2>3. job[w].state = "ABSENT" => job[w].attempts = 0
      BY DEF WorkInv, WorkflowOK
    <2>4. \/ Engine!Enqueue(w) \/ Engine!Start(w) \/ Engine!Succeed(w)
          \/ Engine!Requeue(w) \/ Engine!Die(w)
      BY <1>2, <2>2, <2>3
         DEF JobStep, Engine!Enqueue, Engine!Start, Engine!Succeed,
             Engine!Requeue, Engine!Die
    <2>5. \A v \in Workflows \ {w} : Engine!Stay(v)
      BY <1>2 DEF Engine!Stay
    <2>6. \A v \in Workflows \ {w} : ~Engine!Start(v)
      <3>1. \A v \in Workflows : job[v].attempts \in Nat
        BY TrustAssumption DEF Structure, TypeOK, Job, JobStates
      <3>2. QED
        BY <1>2, <3>1 DEF Engine!Start
    <2>7. QED
      BY <2>4, <2>5, <2>6 DEF Engine!Next
  <1>3. QED
    BY <1>1, <1>2, OneJob DEF OneJobSteps

(***************************************************************************)
(* The verification jobs behave as the job engine promises, so what        *)
(* JobWorkerProofs proves of the engine's promise holds for them.          *)
(***************************************************************************)
THEOREM ImplementsLifecycle == Spec => JobsFollowLifecycle
  <1>1. Inv /\ [Next]_vars => [Engine!Next]_Engine!vars
    BY EngineStep DEF Inv
  <1>2. QED
    BY <1>1, EngineInit, Invariance, PTL
       DEF Spec, JobsFollowLifecycle, Engine!Spec
-----------------------------------------------------------------------------
(* The executions behave as module JobExecutions says.  Their attempts are *)
(* counted by the job, and no two executions share one.                    *)
AttemptOf(e) == <<e.workflow, e.attempt>>

UnderWay == {AttemptOf(e) : e \in executions}
Reporting == {e \in executions : e.step = "report"}
Finishing == {AttemptOf(e) : e \in Reporting}

AttemptsDiffer ==
  /\ \A e \in executions : e.attempt <= job[e.workflow].attempts
  /\ \A e, f \in executions : AttemptOf(e) = AttemptOf(f) => e = f

(* What a step has to do for its jobs and executions to be a step there.   *)
Undecided(w) ==
  ~ /\ job[w].state = "RUNNING"
    /\ \/ job'[w].state \in {"SUCCEEDED", "QUEUED"}
       \/ job'[w].state = "DEAD" /\ job[w].attempts < MaxAttempts

SettledByReport(w) ==
  /\ <<w, job[w].attempts>> \in UnderWay \ UnderWay'
  /\ job'[w].state = "SUCCEEDED" => <<w, job[w].attempts>> \in Finishing

Starts(w) ==
  /\ job[w].state \in {"QUEUED", "RUNNING"} /\ job'[w].state = "RUNNING"
  /\ job[w].attempts < MaxAttempts
  /\ job'[w].attempts = job[w].attempts + 1

OnlyStarts ==
  \A x \in UnderWay' \ UnderWay :
    \E w \in Workflows : Starts(w) /\ x = <<w, job'[w].attempts>>

FinishingGrows ==
  /\ Finishing' \subseteq Finishing \cup UnderWay
  /\ Finishing \cap UnderWay' \subseteq Finishing'

LEMMA ExecutionsFrom ==
  ASSUME [Engine!Next]_Engine!vars,
         \A w \in Workflows : Undecided(w) \/ SettledByReport(w),
         OnlyStarts, FinishingGrows
  PROVE  Engine!ExecNext
  <1> USE DEF AttemptOf, UnderWay, Reporting, Finishing
  <1>1. ASSUME NEW w \in Workflows, Engine!Decided(w) PROVE Engine!Settles(w)
    <2>1. ~Undecided(w)
      BY <1>1 DEF Engine!Decided, Undecided
    <2>2. SettledByReport(w)
      BY <2>1
    <2>3. QED
      BY <2>2 DEF SettledByReport, Engine!Settles, Engine!Newest
  <1>2. ASSUME NEW x \in UnderWay' \ UnderWay
        PROVE  \E w \in Workflows :
                 /\ Engine!Start(w)
                 /\ x = <<w, ([v \in Workflows |-> job[v].attempts])'[w]>>
    <2>1. PICK w \in Workflows : Starts(w) /\ x = <<w, job'[w].attempts>>
      BY <1>2 DEF OnlyStarts
    <2>2. Engine!Start(w)
      BY <2>1 DEF Starts, Engine!Start
    <2>3. QED
      BY <2>1, <2>2
  <1>3. QED
    BY <1>1, <1>2 DEF Engine!ExecNext, FinishingGrows

(* Executions that end ... *)
LEMMA ExecutionsEnd ==
  ASSUME AttemptsDiffer, executions' \subseteq executions
  PROVE  OnlyStarts /\ FinishingGrows
  <1>1. UnderWay' \subseteq UnderWay
    BY DEF UnderWay, AttemptOf
  <1>2. Finishing' \subseteq UnderWay
    BY DEF Finishing, Reporting, UnderWay, AttemptOf
  <1>3. ASSUME NEW x \in Finishing, x \in UnderWay' PROVE x \in Finishing'
    <2>1. PICK e \in executions : e.step = "report" /\ x = AttemptOf(e)
      BY DEF Finishing, Reporting
    <2>2. PICK f \in executions' : x = AttemptOf(f)
      BY <1>3 DEF UnderWay, AttemptOf
    <2>3. e = f
      BY <2>1, <2>2 DEF AttemptsDiffer
    <2>4. QED
      BY <2>1, <2>2, <2>3 DEF Finishing, Reporting, AttemptOf
  <1>4. QED
    BY <1>1, <1>2, <1>3 DEF OnlyStarts, FinishingGrows

(* ... and one that goes on. *)
Continues(e, f) ==
  /\ executions' = (executions \ {e}) \cup {f}
  /\ AttemptOf(f) = AttemptOf(e)
  /\ f.workflow = e.workflow /\ f.attempt = e.attempt
  /\ e.step # "report"

LEMMA ExecutionContinues ==
  ASSUME NEW e \in executions, NEW f, Continues(e, f)
  PROVE  OnlyStarts /\ FinishingGrows
  <1>1. UnderWay' \subseteq UnderWay
    BY DEF UnderWay, Continues, AttemptOf
  <1>2. Finishing' \subseteq UnderWay
    BY DEF Finishing, Reporting, UnderWay, Continues, AttemptOf
  <1>3. ASSUME NEW x \in Finishing PROVE x \in Finishing'
    <2>1. PICK d \in executions : d.step = "report" /\ x = AttemptOf(d)
      BY DEF Finishing, Reporting
    <2>2. d \in executions'
      BY <2>1 DEF Continues
    <2>3. QED
      BY <2>1, <2>2 DEF Finishing, Reporting, AttemptOf
  <1>4. QED
    BY <1>1, <1>2, <1>3 DEF OnlyStarts, FinishingGrows

LEMMA HandlerContinues ==
  ASSUME Structure, NEW e \in executions,
         \/ Resolve(e) \/ SaveResult(e)
         \/ \E found, verified \in SUBSET Signers : Verify(e, found, verified)
  PROVE  \E f : Continues(e, f)
  <1>1. e \in Execution
    BY ExecutionType
  <1>2. CASE Resolve(e)
    <2> DEFINE f == [e EXCEPT !.step = "verify",
                              !.candidates = CandidateSubjects]
    <2>1. f.workflow = e.workflow /\ f.attempt = e.attempt
      BY <1>1 DEF Execution
    <2>2. executions' = (executions \ {e}) \cup {f} /\ e.step # "report"
      BY <1>2 DEF Resolve, Advance
    <2> HIDE DEF f
    <2>3. QED
      BY <2>1, <2>2 DEF Continues, AttemptOf
  <1>3. CASE SaveResult(e)
    <2> DEFINE f == [e EXCEPT !.step = "report", !.evidence = NoEvidence]
    <2>1. f.workflow = e.workflow /\ f.attempt = e.attempt
      BY <1>1 DEF Execution
    <2>2. executions' = (executions \ {e}) \cup {f} /\ e.step # "report"
      BY <1>3 DEF SaveResult, Advance
    <2> HIDE DEF f
    <2>3. QED
      BY <2>1, <2>2 DEF Continues, AttemptOf
  <1>4. ASSUME NEW found \in SUBSET Signers, NEW verified \in SUBSET Signers,
               Verify(e, found, verified)
        PROVE  \E f : Continues(e, f)
    <2> DEFINE ev == [s \in Subjects |->
                        IF s \in found
                        THEN Evaluated(e.workflow[2], s, verified)
                        ELSE "NONE"]
               f == [e EXCEPT !.step = "save", !.candidates = {},
                              !.evidence = ev]
    <2>1. executions' = (executions \ {e}) \cup {f} /\ e.step # "report"
      BY <1>4 DEF Verify, Advance
    <2> HIDE DEF ev
    <2>2. f.workflow = e.workflow /\ f.attempt = e.attempt
      BY <1>1 DEF Execution
    <2> HIDE DEF f
    <2>3. QED
      BY <2>1, <2>2 DEF Continues, AttemptOf
  <1>5. QED
    BY <1>2, <1>3, <1>4

(* A start adds the execution of the attempt it counts. *)
LEMMA StartAdds ==
  ASSUME Structure, NEW w \in Workflows, StartJob(w)
  PROVE  \E d : /\ executions' = executions \cup {d}
                /\ d.workflow = w /\ d.attempt = job[w].attempts + 1
                /\ d.step = "resolve"
  <1> DEFINE d == [workflow |-> w, attempt |-> job[w].attempts + 1,
                   step |-> "resolve", candidates |-> {},
                   evidence |-> NoEvidence]
  <1>1. executions' = executions \cup {d}
    BY DEF StartJob
  <1>2. /\ d.workflow = w /\ d.attempt = job[w].attempts + 1
        /\ d.step = "resolve"
    OBVIOUS
  <1> HIDE DEF d
  <1>3. QED
    BY <1>1, <1>2

(* The steps that leave jobs and executions alone. *)
LEMMA WorkUntouched ==
  ASSUME \/ ReaderMoves \/ PeriodicRepair
         \/ \E d \in Digests, i \in 0..Len(known) : Discover(d, i)
         \/ \E c \in Creators :
              \/ \E subjects \in Offered : LockNamespace(c, subjects)
              \/ ReadVersion(c) \/ InsertPolicy(c) \/ AbandonPolicy(c)
              \/ EagerRepair(c)
         \/ \E r \in Repairers : EnsureRead(r) \/ AbortRepair(r)
         \/ UNCHANGED vars
  PROVE  job' = job /\ executions' = executions
BY DEF ReaderMoves, ReadWorkflow, ReadJob, ReadResult, ReadPolicy,
       ReadEvidence, Read, Discover, vars, workVars, PeriodicRepair,
       LockNamespace, ReadVersion, InsertPolicy, AbandonPolicy, EagerRepair,
       EnsureRead, AbortRepair

LEMMA AttemptsCount ==
  ASSUME Structure, [Next]_vars, NEW w \in Workflows
  PROVE  job[w].attempts \in Nat /\ job'[w].attempts \in Nat
         /\ job'[w].attempts >= job[w].attempts
  <1>1. job[w].attempts \in Nat
    BY TrustAssumption DEF Structure, TypeOK, Job, JobStates
  <1>2. CASE \A v \in Workflows : job'[v] = job[v]
    BY <1>1, <1>2
  <1>3. ASSUME NEW u \in Workflows, JobStep(u),
               \A v \in Workflows \ {u} : job'[v] = job[v]
        PROVE  job'[w].attempts \in Nat /\ job'[w].attempts >= job[w].attempts
    <2>1. CASE u = w
      BY <1>1, <1>3, <2>1 DEF JobStep
    <2>2. CASE u # w
      BY <1>1, <1>3, <2>2
    <2>3. QED
      BY <2>1, <2>2
  <1>4. QED
    BY <1>1, <1>2, <1>3, OneJob DEF OneJobSteps

LEMMA AttemptsDifferStep ==
  Structure /\ AttemptsDiffer /\ [Next]_vars => AttemptsDiffer'
  <1> SUFFICES ASSUME Structure, AttemptsDiffer, [Next]_vars
               PROVE  AttemptsDiffer'
    OBVIOUS
  <1>1. ASSUME NEW e \in executions
        PROVE  /\ e.workflow \in Workflows /\ e.attempt \in Nat
               /\ e.attempt <= job[e.workflow].attempts
               /\ e.attempt <= job'[e.workflow].attempts
    <2>1. e \in Execution /\ e.workflow \in Workflows
      BY ExecutionType
    <2>2. e.attempt \in Nat
      BY <2>1, TrustAssumption DEF Execution
    <2>3. e.attempt <= job[e.workflow].attempts
      BY DEF AttemptsDiffer
    <2>4. QED
      BY <2>1, <2>2, <2>3, AttemptsCount
  <1>2. CASE executions' \subseteq executions
    BY <1>1, <1>2 DEF AttemptsDiffer, AttemptOf
  <1>3. ASSUME NEW e \in executions, NEW f, Continues(e, f)
        PROVE  AttemptsDiffer'
    <2>1. ASSUME NEW d \in executions' PROVE d.attempt <= job'[d.workflow].attempts
      BY <1>1, <1>3 DEF Continues
    <2>2. ASSUME NEW c \in executions', NEW d \in executions',
                 AttemptOf(c) = AttemptOf(d)
          PROVE  c = d
      <3>1. \A b \in executions' : b = f \/ (b \in executions /\ b # e)
        BY <1>3 DEF Continues
      <3>2. \A b \in executions : AttemptOf(b) = AttemptOf(f) => b = e
        BY <1>3 DEF Continues, AttemptsDiffer
      <3>3. QED
        BY <2>2, <3>1, <3>2 DEF AttemptsDiffer
    <2>3. QED
      BY <2>1, <2>2 DEF AttemptsDiffer, AttemptOf
  <1>4. ASSUME NEW w \in Workflows, StartJob(w) PROVE AttemptsDiffer'
    <2>1. PICK d : /\ executions' = executions \cup {d}
                   /\ d.workflow = w /\ d.attempt = job[w].attempts + 1
      BY <1>4, StartAdds
    <2>2. job[w].attempts \in Nat /\ job'[w].attempts = job[w].attempts + 1
      <3>1. job'[w] = [state |-> "RUNNING", attempts |-> job[w].attempts + 1]
        BY <1>4, StartStep
      <3>2. QED
        BY <3>1, AttemptsCount
    <2>3. \A e \in executions : AttemptOf(e) # AttemptOf(d)
      <3>1. ASSUME NEW e \in executions, AttemptOf(e) = AttemptOf(d) PROVE FALSE
        <4>1. e.workflow = w /\ e.attempt = job[w].attempts + 1
          BY <2>1, <3>1 DEF AttemptOf
        <4>2. e.attempt <= job[w].attempts
          BY <1>1, <4>1
        <4>3. QED
          BY <2>2, <4>1, <4>2
      <3>2. QED
        BY <3>1
    <2>4. \A e \in executions' : e.attempt <= job'[e.workflow].attempts
      BY <1>1, <2>1, <2>2
    <2>5. \A e, f \in executions' : AttemptOf(e) = AttemptOf(f) => e = f
      BY <2>1, <2>3 DEF AttemptsDiffer
    <2>6. QED
      BY <2>4, <2>5 DEF AttemptsDiffer, AttemptOf
  <1>5. ASSUME NEW e \in executions, ReportSuccess(e) \/ ReportFailure(e) \/ Vanish(e)
        PROVE  AttemptsDiffer'
    BY <1>2, <1>5 DEF ReportSuccess, ReportFailure, Vanish
  <1>6. CASE \/ \E r \in Repairers : EnsureWrite(r)
             \/ \E w \in Workflows : BuryJob(w)
    BY <1>2, <1>6 DEF EnsureWrite, BuryJob
  <1>7. QED
    BY <1>2, <1>3, <1>4, <1>5, <1>6, HandlerContinues, WorkUntouched
       DEF Next, ReaderMoves

LEMMA AttemptsInvariance == Spec => [](Inv /\ AttemptsDiffer)
  <1>1. Init => AttemptsDiffer
    BY DEF Init, AttemptsDiffer
  <1>2. Inv /\ AttemptsDiffer /\ [Next]_vars => AttemptsDiffer'
    BY AttemptsDifferStep DEF Inv
  <1>3. QED
    BY <1>1, <1>2, Invariance, PTL DEF Spec

(* The report decides what becomes of the job of its own attempt. *)
LEMMA ReportSettles ==
  ASSUME Structure, AttemptsDiffer, NEW e \in executions,
         ReportSuccess(e) \/ ReportFailure(e)
  PROVE  \A w \in Workflows : Undecided(w) \/ SettledByReport(w)
  <1>1. /\ e.workflow \in Workflows /\ executions' = executions \ {e}
        /\ \A v \in Workflows \ {e.workflow} : job'[v] = job[v]
    BY ReportStep
  <1>2. AttemptOf(e) = <<e.workflow, job[e.workflow].attempts>>
    BY DEF ReportSuccess, ReportFailure, Leased, AttemptOf
  <1>3. AttemptOf(e) \in UnderWay \ UnderWay'
    <2>1. AttemptOf(e) \in UnderWay
      BY DEF UnderWay
    <2>2. \A f \in executions \ {e} : AttemptOf(f) # AttemptOf(e)
      BY DEF AttemptsDiffer
    <2>3. QED
      BY <1>1, <2>1, <2>2 DEF UnderWay, AttemptOf
  <1>4. job'[e.workflow].state = "SUCCEEDED" => AttemptOf(e) \in Finishing
    <2>1. PICK state \in {"QUEUED", "SUCCEEDED", "DEAD"} :
            /\ job'[e.workflow] = [state    |-> state,
                                   attempts |-> job[e.workflow].attempts]
            /\ state = "SUCCEEDED" => e.step = "report"
      BY ReportStep
    <2>2. job'[e.workflow].state = state
      BY <2>1
    <2>3. QED
      BY <2>1, <2>2 DEF Finishing, Reporting
  <1>5. SettledByReport(e.workflow)
    BY <1>2, <1>3, <1>4 DEF SettledByReport
  <1>6. QED
    BY <1>1, <1>5 DEF Undecided

LEMMA ExecutionsStep ==
  Inv /\ AttemptsDiffer /\ [Next]_vars => [Engine!ExecNext]_Engine!execVars
  <1> SUFFICES ASSUME Inv, AttemptsDiffer, Next PROVE Engine!ExecNext
    BY DEF vars, workVars, Engine!execVars
  <1>1. Structure /\ [Engine!Next]_Engine!vars
    BY EngineStep DEF Inv
  <1>2. ASSUME job' = job, OnlyStarts, FinishingGrows PROVE Engine!ExecNext
    <2>1. \A w \in Workflows : Undecided(w)
      BY <1>2 DEF Undecided
    <2>2. QED
      BY <1>1, <1>2, <2>1, ExecutionsFrom
  <1>3. ASSUME job' = job, executions' \subseteq executions PROVE Engine!ExecNext
    BY <1>2, <1>3, ExecutionsEnd
  <1>4. ASSUME NEW r \in Repairers, EnsureWrite(r) PROVE Engine!ExecNext
    <2>1. \A v \in Workflows : job'[v] =
            IF v = pending[r] /\ job[v].state = "ABSENT"
            THEN [job[v] EXCEPT !.state = "QUEUED"] ELSE job[v]
      BY <1>1, <1>4, EnsureWriteStep
    <2>2. \A w \in Workflows : Undecided(w)
      BY <2>1 DEF Undecided
    <2>3. OnlyStarts /\ FinishingGrows
      BY <1>4, ExecutionsEnd DEF EnsureWrite
    <2>4. QED
      BY <1>1, <2>2, <2>3, ExecutionsFrom
  <1>5. ASSUME NEW w \in Workflows, StartJob(w) PROVE Engine!ExecNext
    <2>1. PICK d : /\ executions' = executions \cup {d}
                   /\ d.workflow = w /\ d.attempt = job[w].attempts + 1
                   /\ d.step = "resolve"
      BY <1>1, <1>5, StartAdds
    <2>2. /\ job'[w].state = "RUNNING"
          /\ job'[w].attempts = job[w].attempts + 1
          /\ \A v \in Workflows \ {w} : job'[v] = job[v]
      <3>1. /\ job'[w] = [state |-> "RUNNING", attempts |-> job[w].attempts + 1]
            /\ \A v \in Workflows \ {w} : job'[v] = job[v]
        BY <1>1, <1>5, StartStep
      <3>2. QED
        BY <3>1
    <2>3. \A v \in Workflows : Undecided(v)
      BY <2>2 DEF Undecided
    <2>4. OnlyStarts
      <3>1. \A x \in UnderWay' \ UnderWay : x = <<w, job'[w].attempts>>
        BY <2>1, <2>2 DEF UnderWay, AttemptOf
      <3>2. Starts(w)
        BY <1>5, <2>2 DEF StartJob, Starts
      <3>3. QED
        BY <3>1, <3>2 DEF OnlyStarts
    <2>5. FinishingGrows
      <3>1. Finishing' = Finishing
        BY <2>1 DEF Finishing, Reporting, AttemptOf
      <3>2. QED
        BY <3>1 DEF FinishingGrows
    <2>6. QED
      BY <1>1, <2>3, <2>4, <2>5, ExecutionsFrom
  <1>6. ASSUME NEW w \in Workflows, BuryJob(w) PROVE Engine!ExecNext
    <2>1. \A v \in Workflows : Undecided(v)
      <3>1. /\ job'[w] = [state |-> "DEAD", attempts |-> job[w].attempts]
            /\ \A v \in Workflows \ {w} : job'[v] = job[v]
        BY <1>1, <1>6, BuryStep
      <3>2. Undecided(w)
        BY <1>6, <3>1, TrustAssumption DEF BuryJob, Undecided
      <3>3. QED
        BY <3>1, <3>2 DEF Undecided
    <2>2. OnlyStarts /\ FinishingGrows
      BY <1>6, ExecutionsEnd DEF BuryJob
    <2>3. QED
      BY <1>1, <2>1, <2>2, ExecutionsFrom
  <1>7. ASSUME NEW e \in executions, ReportSuccess(e) \/ ReportFailure(e)
        PROVE  Engine!ExecNext
    <2>1. OnlyStarts /\ FinishingGrows
      BY <1>7, ExecutionsEnd DEF ReportSuccess, ReportFailure
    <2>2. QED
      BY <1>1, <1>7, <2>1, ReportSettles, ExecutionsFrom
  <1>8. ASSUME NEW e \in executions,
               \/ Resolve(e) \/ SaveResult(e)
               \/ \E found, verified \in SUBSET Signers : Verify(e, found, verified)
        PROVE  Engine!ExecNext
    <2>1. job' = job
      BY <1>8 DEF Resolve, SaveResult, Verify
    <2>2. QED
      BY <1>1, <1>2, <1>8, <2>1, HandlerContinues, ExecutionContinues
  <1>9. ASSUME NEW e \in executions, Vanish(e) PROVE Engine!ExecNext
    BY <1>3, <1>9 DEF Vanish
  <1>10. CASE job' = job /\ executions' = executions
    BY <1>3, <1>10
  <1>11. QED
    BY <1>4, <1>5, <1>6, <1>7, <1>8, <1>9, <1>10, WorkUntouched
       DEF Next, ReaderMoves

(***************************************************************************)
(* The verifications are executions as the engine runs them: an attempt is *)
(* executed once, and only the execution of the newest attempt, when it    *)
(* has saved its evidence, completes the job.                              *)
(***************************************************************************)
THEOREM ImplementsExecutions == Spec => JobsFollowExecutions
  <1>1. Init => Engine!ExecInit
    BY EngineInit DEF Init, Engine!ExecInit
  <1>2. QED
    BY <1>1, ExecutionsStep, AttemptsInvariance, PTL
       DEF Spec, JobsFollowExecutions, Engine!ExecSpec
=============
