----------------------------- MODULE ScanResults -----------------------------
(***************************************************************************)
(* Vulnerability scans and SBOMs (internal/modules/security/handler.go,    *)
(* internal/platform/scanner/trivy, internal/platform/postgres/            *)
(* securitystore/store.go): workers run Trivy behind a lock on a cache     *)
(* that its runs share, save what it found together with the version of    *)
(* the database it used, and a reader puts job, report, SBOM, tool state   *)
(* and counts together with one query for each.                            *)
(*                                                                         *)
(* A database is the number of its publication; what a scan found stands   *)
(* as the database it was made with.  A job row is reduced to what module  *)
(* JobLifecycle shows of it, and a handler may outlive its job's lease.    *)
(***************************************************************************)
EXTENDS Naturals, FiniteSets, ResultStatus

CONSTANTS
  Artifacts,        (* artifacts that get a workflow                       *)
  SBOMArtifacts,    (* those whose SBOM job is followed too                *)
  ReadArtifacts,    (* those a reader may ask for                          *)
  ScanWorkers,      (* worker processes, each with a cache of its own      *)
  ScannerOf,        (* the Trivy version in each worker's image            *)
  Nothing,          (* no holder of the lock, no report, no SBOM           *)
  ScanAttempts,     (* DefaultAttempts of a scan or SBOM job               *)
  ScanSlots,        (* HUBCR_WORKER_CONCURRENCY                            *)
  MaxDatabases,     (* bound on the published databases, for TLC           *)
  MaxClaims         (* bound on the claims of all jobs together, for TLC   *)

ASSUME ScanAssumption ==
  /\ SBOMArtifacts \subseteq Artifacts
  /\ ReadArtifacts \subseteq Artifacts
  /\ ScannerOf \in [ScanWorkers -> Nat \ {0}]
  /\ ScanAttempts \in Nat \ {0}
  /\ ScanSlots \in Nat \ {0}
  /\ MaxDatabases \in Nat \ {0}
  /\ MaxClaims \in Nat

VARIABLES
  published,   (* the newest vulnerability database one can download       *)
  cache,       (* the database in each worker's cache, 0 for none          *)
  mutex,       (* the handler call that holds each worker's Scanner        *)
  tasks,       (* the job rows of the workflows                            *)
  handlers,    (* handler calls under way                                  *)
  reports,     (* scan report and findings of each workflow                *)
  sboms,       (* SBOM of each workflow: the version that generated it     *)
  tool,        (* the row of security_tool_state                           *)
  detail       (* one request for an artifact's security detail            *)

toolVars   == <<published, cache, mutex>>
resultVars == <<reports, sboms, tool>>
scanVars   == <<toolVars, tasks, handlers, resultVars, detail>>

Databases == 1..MaxDatabases
Tasks     == (Artifacts \X {"scan"}) \cup (SBOMArtifacts \X {"sbom"})
Calls     == Tasks \X (1..ScanAttempts)

TaskRow == [state : JobStates, attempts : 0..ScanAttempts]

Handler == [call    : Calls,
            worker  : ScanWorkers,
            step    : {"lock", "update", "scan", "version", "generate",
                       "save", "report", "failed"},
            scanned : {0} \cup Databases,   (* used by the scan            *)
            named   : {0} \cup Databases]   (* in the version it reports   *)

Report == [database : Databases, scanner : Nat, findings : Databases]

Detail == [step       : {"idle", "results", "tool", "counts", "done"},
           since      : {0} \cup Databases,
           artifact   : ReadArtifacts \cup {Nothing},
           scanState  : JobStates,
           sbomState  : JobStates,
           report     : Report \cup {Nothing},
           sbom       : Nat \cup {Nothing},
           scanStatus : Statuses,
           sbomStatus : Statuses,
           counted    : {0} \cup Databases]

NoDetail == [step |-> "idle", since |-> 0, artifact |-> Nothing,
             scanState |-> "ABSENT", sbomState |-> "ABSENT",
             report |-> Nothing, sbom |-> Nothing,
             scanStatus |-> "NONE", sbomStatus |-> "NONE", counted |-> 0]

ASSUME NothingAssumption ==
  /\ Nothing \notin Calls /\ Nothing \notin Report
  /\ Nothing \notin Nat /\ Nothing \notin ReadArtifacts

ScanTypeOK ==
  /\ published \in Databases
  /\ cache \in [ScanWorkers -> {0} \cup Databases]
  /\ mutex \in [ScanWorkers -> Calls \cup {Nothing}]
  /\ tasks \in [Tasks -> TaskRow]
  /\ handlers \subseteq Handler
  /\ reports \in [Artifacts -> Report \cup {Nothing}]
  /\ sboms \in [SBOMArtifacts -> Nat \cup {Nothing}]
  /\ tool \in [database : {0} \cup Databases, scanner : Nat]
  /\ detail \in Detail

ScanInit ==
  /\ published = 1
  /\ cache = [w \in ScanWorkers |-> 0]
  /\ mutex = [w \in ScanWorkers |-> Nothing]
  /\ tasks = [t \in Tasks |-> [state |-> "ABSENT", attempts |-> 0]]
  /\ handlers = {}
  /\ reports = [a \in Artifacts |-> Nothing]
  /\ sboms = [a \in SBOMArtifacts |-> Nothing]
  /\ tool = [database |-> 0, scanner |-> 0]
  /\ detail = NoDetail

-----------------------------------------------------------------------------
(* Outside this module: the project that publishes the databases, and the  *)
(* engine that claims and buries jobs.                                     *)

Publish ==
  /\ published < MaxDatabases
  /\ published' = published + 1
  /\ UNCHANGED <<cache, mutex, tasks, handlers, resultVars, detail>>

(* EnsureWorkflow queues both jobs of an artifact in one transaction. *)
EnsureTasks(a) ==
  /\ tasks[<<a, "scan">>].state = "ABSENT"
  /\ tasks' = [t \in Tasks |-> IF t[1] = a
                               THEN [tasks[t] EXCEPT !.state = "QUEUED"]
                               ELSE tasks[t]]
  /\ UNCHANGED <<toolVars, handlers, resultVars, detail>>

Claimed == {c \in Calls : c[2] <= tasks[c[1]].attempts}

Busy(w) == {h \in handlers : h.worker = w}

(* A first start, a retry, or the takeover of an expired lease, whose      *)
(* handler may go on.  ResolveJob, the image reference and the pull token  *)
(* follow; they read only what never changes.                              *)
ClaimTask(t, w) ==
  /\ tasks[t].state \in {"QUEUED", "RUNNING"}
  /\ tasks[t].attempts < ScanAttempts
  /\ Cardinality(Busy(w)) < ScanSlots
  /\ Cardinality(Claimed) < MaxClaims
  /\ tasks' = [tasks EXCEPT ![t] =
       [state |-> "RUNNING", attempts |-> @.attempts + 1]]
  /\ handlers' = handlers \cup
       {[call |-> <<t, tasks[t].attempts + 1>>, worker |-> w,
         step |-> "lock", scanned |-> 0, named |-> 0]}
  /\ UNCHANGED <<toolVars, resultVars, detail>>

(* The dead-letter update of a later claim. *)
BuryTask(t) ==
  /\ tasks[t].state = "RUNNING"
  /\ tasks[t].attempts = ScanAttempts
  /\ tasks' = [tasks EXCEPT ![t].state = "DEAD"]
  /\ UNCHANGED <<toolVars, handlers, resultVars, detail>>

(* A worker process dies.  Its lock dies with it, its cache does not. *)
WorkerDies(w) ==
  /\ Busy(w) # {}
  /\ handlers' = handlers \ Busy(w)
  /\ mutex' = [mutex EXCEPT ![w] = Nothing]
  /\ UNCHANGED <<published, cache, tasks, resultVars, detail>>

-----------------------------------------------------------------------------
(* Scan and GenerateSBOM of the Trivy adapter.                             *)

Proceeds(h, next) == handlers' = (handlers \ {h}) \cup {next}

FirstStep(h) == IF h.call[1][2] = "scan" THEN "update" ELSE "generate"

(* Variant: the runs of one process are not serialized. *)
StartUnlocked(h) ==
  /\ h.step = "lock"
  /\ mutex' = [mutex EXCEPT ![h.worker] = h.call]
  /\ Proceeds(h, [h EXCEPT !.step = FirstStep(h)])
  /\ UNCHANGED <<published, cache, tasks, resultVars, detail>>

LockScanner(h) ==
  /\ h.step = "lock"
  /\ mutex[h.worker] = Nothing
  /\ mutex' = [mutex EXCEPT ![h.worker] = h.call]
  /\ Proceeds(h, [h EXCEPT !.step = FirstStep(h)])
  /\ UNCHANGED <<published, cache, tasks, resultVars, detail>>

Unlocked(h) ==
  mutex' = [mutex EXCEPT ![h.worker] = IF @ = h.call THEN Nothing ELSE @]

(* Trivy downloads the newest database, or finds its own recent enough. *)
UpdateDatabase(h) ==
  /\ h.step = "update"
  /\ \E database \in {cache[h.worker], published} \ {0} :
       cache' = [cache EXCEPT ![h.worker] = database]
  /\ Proceeds(h, [h EXCEPT !.step = "scan"])
  /\ UNCHANGED <<published, mutex, tasks, resultVars, detail>>

(* The scan itself does not update the database. *)
ScanImage(h) ==
  /\ h.step = "scan"
  /\ Proceeds(h, [h EXCEPT !.step = "version",
                           !.scanned = cache[h.worker]])
  /\ UNCHANGED <<toolVars, tasks, resultVars, detail>>

ReadToolVersion(h) ==
  /\ h.step = "version"
  /\ Proceeds(h, [h EXCEPT !.step = "save", !.named = cache[h.worker]])
  /\ Unlocked(h)
  /\ UNCHANGED <<published, cache, tasks, resultVars, detail>>

GenerateSBOM(h) ==
  /\ h.step = "generate"
  /\ Proceeds(h, [h EXCEPT !.step = "save"])
  /\ Unlocked(h)
  /\ UNCHANGED <<published, cache, tasks, resultVars, detail>>

(* Variant: an error returns without giving the lock back. *)
FailsHolding(h) ==
  /\ h.step \in {"lock", "update", "scan", "version", "generate", "save"}
  /\ Proceeds(h, [h EXCEPT !.step = "failed", !.scanned = 0, !.named = 0])
  /\ UNCHANGED <<toolVars, tasks, resultVars, detail>>

(* Any step may fail: the tool, its output, the token or the database.     *)
Fails(h) ==
  /\ h.step \in {"lock", "update", "scan", "version", "generate", "save"}
  /\ Proceeds(h, [h EXCEPT !.step = "failed", !.scanned = 0, !.named = 0])
  /\ Unlocked(h)
  /\ UNCHANGED <<published, cache, tasks, resultVars, detail>>

-----------------------------------------------------------------------------
(* SaveScanResult and SaveSBOMResult, each one transaction that locks the  *)
(* workflow row and asks neither for the lease nor for what it replaces.   *)

(* Variant: the last one to save writes the tool state. *)
ToolAfterAny(database, scanner) == {[database |-> database,
                                     scanner  |-> scanner]}

(* The upsert of the tool state: a newer database replaces the row; of two *)
(* observations of the same one the later stands, by the clocks of the     *)
(* workers that made them.                                                 *)
ToolAfter(database, scanner) ==
  LET observed == [database |-> database, scanner |-> scanner]
  IN  IF database > tool.database THEN {observed}
      ELSE IF database = tool.database THEN {observed, tool}
      ELSE {tool}

(* Variant: the findings of an earlier report are kept. *)
SaveReportOnly(h) ==
  LET a == h.call[1][1]
  IN  /\ h.step = "save" /\ h.call[1][2] = "scan"
      /\ reports' = [reports EXCEPT ![a] =
           [database |-> h.named, scanner |-> ScannerOf[h.worker],
            findings |-> IF @ = Nothing THEN h.scanned ELSE @.findings]]
      /\ tool' \in ToolAfter(h.named, ScannerOf[h.worker])
      /\ Proceeds(h, [h EXCEPT !.step = "report", !.scanned = 0,
                               !.named = 0])
      /\ UNCHANGED <<toolVars, tasks, sboms, detail>>

(* Variant: the same call may save again after it has saved. *)
SaveScanAgain(h) ==
  LET a == h.call[1][1]
  IN  /\ h.step = "save" /\ h.call[1][2] = "scan"
      /\ reports' = [reports EXCEPT ![a] =
           [database |-> h.named, scanner |-> ScannerOf[h.worker],
            findings |-> h.scanned]]
      /\ tool' \in ToolAfter(h.named, ScannerOf[h.worker])
      /\ \E step \in {"lock", "report"} :
           Proceeds(h, [h EXCEPT !.step = step, !.scanned = 0, !.named = 0])
      /\ UNCHANGED <<toolVars, tasks, sboms, detail>>

SaveScanResult(h) ==
  LET a == h.call[1][1]
  IN  /\ h.step = "save" /\ h.call[1][2] = "scan"
      /\ reports' = [reports EXCEPT ![a] =
           [database |-> h.named, scanner |-> ScannerOf[h.worker],
            findings |-> h.scanned]]
      /\ tool' \in ToolAfter(h.named, ScannerOf[h.worker])
      /\ Proceeds(h, [h EXCEPT !.step = "report", !.scanned = 0,
                               !.named = 0])
      /\ UNCHANGED <<toolVars, tasks, sboms, detail>>

SaveSBOMResult(h) ==
  /\ h.step = "save" /\ h.call[1][2] = "sbom"
  /\ sboms' = [sboms EXCEPT ![h.call[1][1]] = ScannerOf[h.worker]]
  /\ Proceeds(h, [h EXCEPT !.step = "report"])
  /\ UNCHANGED <<toolVars, tasks, reports, tool, detail>>

-----------------------------------------------------------------------------
(* Reports to the engine.                                                  *)

(* A report settles only its own attempt (modules JobExecutions, JobWorker). *)
Holds(h) == tasks[h.call[1]] = [state |-> "RUNNING", attempts |-> h.call[2]]

(* Variant: the report does not wait for the result. *)
SucceedEarly(h) ==
  /\ h.step \in {"save", "report"}
  /\ Holds(h)
  /\ tasks' = [tasks EXCEPT ![h.call[1]].state = "SUCCEEDED"]
  /\ handlers' = handlers \ {h}
  /\ UNCHANGED <<toolVars, resultVars, detail>>

Succeed(h) ==
  /\ h.step = "report"
  /\ Holds(h)
  /\ tasks' = [tasks EXCEPT ![h.call[1]].state = "SUCCEEDED"]
  /\ handlers' = handlers \ {h}
  /\ UNCHANGED <<toolVars, resultVars, detail>>

(* A permanent error is DEAD at once, a retryable one after the last       *)
(* attempt.                                                                *)
ReportFails(h) ==
  /\ h.step = "failed"
  /\ Holds(h)
  /\ \E state \in {"QUEUED", "DEAD"} :
       /\ state = "QUEUED" => h.call[2] < ScanAttempts
       /\ tasks' = [tasks EXCEPT ![h.call[1]].state = state]
  /\ handlers' = handlers \ {h}
  /\ UNCHANGED <<toolVars, resultVars, detail>>

(* The report is lost, or comes after the lease was taken over. *)
ReportLost(h) ==
  /\ h.step \in {"report", "failed"}
  /\ handlers' = handlers \ {h}
  /\ UNCHANGED <<toolVars, tasks, resultVars, detail>>

-----------------------------------------------------------------------------
(* Detail: one query after the other, without a transaction.               *)

Asks(from, update) ==
  /\ detail.step = from
  /\ detail' = update
  /\ UNCHANGED <<toolVars, tasks, handlers, resultVars>>

(* The newest database any stored report was made with. *)
NewestReported ==
  LET saved == {reports[a].database :
                  a \in {b \in Artifacts : reports[b] # Nothing}}
  IN  CHOOSE n \in {0} \cup saved : \A m \in saved : m <= n

(* What is said of scan and SBOM never depends on the other one, so two    *)
(* neighbouring queries, one for each, are one step here.                  *)
AskJobs(a) ==
  /\ tasks[<<a, "scan">>].state # "ABSENT"
  /\ Asks("idle", [detail EXCEPT !.step = "results", !.artifact = a,
         !.since = NewestReported,
         !.scanState = tasks[<<a, "scan">>].state,
         !.sbomState = IF a \in SBOMArtifacts
                       THEN tasks[<<a, "sbom">>].state ELSE "QUEUED"])

AskResults ==
  LET a == detail.artifact
  IN  Asks("results", [detail EXCEPT !.step = "tool",
             !.report = reports[a],
             !.sbom = IF a \in SBOMArtifacts THEN sboms[a] ELSE Nothing])

(* Variant: an older database does not make a report stale. *)
ScanStaleByScanner(report) ==
  /\ report # Nothing /\ tool.database # 0
  /\ report.scanner # tool.scanner

ScanStale(report) ==
  /\ report # Nothing /\ tool.database # 0
  /\ \/ report.scanner # tool.scanner
     \/ report.database < tool.database

SBOMStale(sbom) ==
  /\ sbom # Nothing /\ tool.database # 0
  /\ sbom # tool.scanner

AskTool ==
  Asks("tool",
    [detail EXCEPT
       !.step = IF detail.report = Nothing THEN "done" ELSE "counts",
       !.scanState = "ABSENT", !.sbomState = "ABSENT", !.sbom = Nothing,
       !.scanStatus = ResultStatusFromJob(detail.scanState,
                        detail.report # Nothing, ScanStale(detail.report)),
       !.sbomStatus = ResultStatusFromJob(detail.sbomState,
                        detail.sbom # Nothing, SBOMStale(detail.sbom))])

CountFindings ==
  Asks("counts", [detail EXCEPT !.step = "done",
                    !.counted = reports[detail.artifact].findings])

-----------------------------------------------------------------------------
Handle(h) ==
  \/ LockScanner(h) \/ UpdateDatabase(h) \/ ScanImage(h) \/ ReadToolVersion(h)
  \/ GenerateSBOM(h) \/ Fails(h) \/ SaveScanResult(h) \/ SaveSBOMResult(h)
  \/ Succeed(h) \/ ReportFails(h) \/ ReportLost(h)

ScanNext ==
  \/ Publish
  \/ \E a \in Artifacts : EnsureTasks(a)
  \/ \E t \in Tasks : BuryTask(t) \/ \E w \in ScanWorkers : ClaimTask(t, w)
  \/ \E w \in ScanWorkers : WorkerDies(w)
  \/ \E h \in handlers : Handle(h)
  \/ \E a \in ReadArtifacts : AskJobs(a)
  \/ AskResults \/ AskTool \/ CountFindings

ScanSpec == ScanInit /\ [][ScanNext]_scanVars

-----------------------------------------------------------------------------
(* FR-SEC-002: a report names the database it was made with, although the  *)
(* scan and the question for the version are two runs of the tool on a     *)
(* cache that other runs update (Scan holds the lock over all three), and  *)
(* its findings are its own whoever saved before (SaveScanResult).         *)
ReportTruthful ==
  \A a \in Artifacts : reports[a] # Nothing =>
    reports[a].findings = reports[a].database

(* The tool state never goes back to an older database, whatever order     *)
(* scans with older and newer ones are saved in.                           *)
ToolStateMonotone == [][tool'.database >= tool.database]_tool

(* D-007: a stale result is not shown as current.  A scan is COMPLETED     *)
(* only if no report that was stored when the request began was made with  *)
(* a newer database than this one.                                         *)
CompletedIsFresh ==
  detail.scanStatus = "COMPLETED" => detail.report.database >= detail.since

(* A reader is never told RESULT_MISSING: whoever completes a job has      *)
(* saved its result, and no one takes it away.                             *)
ResultKept ==
  /\ detail.scanStatus # "RESULT_MISSING"
  /\ detail.sbomStatus # "RESULT_MISSING"

(* The counts of an answer belong to the version it names unless the job   *)
(* was started more than once: only a handler that outlived its lease can  *)
(* replace the findings between the two queries.                           *)
CountsMatch ==
  detail.step = "done" /\ detail.report # Nothing =>
    \/ detail.counted = detail.report.findings
    \/ tasks[<<detail.artifact, "scan">>].attempts > 1

(* What a reader is told of an artifact's security results is right. *)
DetailTrue == CompletedIsFresh /\ ResultKept /\ CountsMatch

(* The reduced job rows and the handler calls behave as the engine         *)
(* promises.                                                               *)
ScanEngine == INSTANCE JobExecutions WITH
  Jobs        <- Tasks,
  MaxAttempts <- ScanAttempts,
  state       <- [t \in Tasks |-> tasks[t].state],
  attempts    <- [t \in Tasks |-> tasks[t].attempts],
  underWay    <- {h.call : h \in handlers},
  finished    <- {h.call : h \in {g \in handlers : g.step = "report"}}

ScansFollowLifecycle  == ScanEngine!Spec
ScansFollowExecutions == ScanEngine!ExecSpec

-----------------------------------------------------------------------------
(* Fairness: a run of the tool ends, by itself or with the handler's       *)
(* context.                                                                *)
ToolEnds(w) ==
  \E h \in handlers :
    /\ mutex[w] = h.call
    /\ \/ UpdateDatabase(h) \/ ScanImage(h) \/ ReadToolVersion(h)
       \/ GenerateSBOM(h) \/ Fails(h)

FairScanSpec == ScanSpec /\ \A w \in ScanWorkers : WF_scanVars(ToolEnds(w))

(* The lock of a Scanner is never kept: whatever fails while it is held,   *)
(* the next handler gets its turn.                                         *)
EventuallyUnlocked ==
  \A w \in ScanWorkers : mutex[w] # Nothing ~> mutex[w] = Nothing
=============================================================================
