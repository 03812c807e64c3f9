-------------------------- MODULE ScanResultsProofs --------------------------
(***************************************************************************)
(* Proofs about module ScanResults, for any artifacts, workers, databases, *)
(* attempts and slots.                                                     *)
(***************************************************************************)
EXTENDS ScanResults, Integers, WellFoundedInduction, TLAPS

(* The numbers and sets the definitions below are made of.                 *)
LEMMA DatabaseIsNat ==
  /\ 0 \notin Databases
  /\ \A n \in {0} \cup Databases : n \in Nat /\ (n = 0 \/ n \in Databases)
BY ScanAssumption DEF Databases

LEMMA TaskOfCall ==
  ASSUME NEW c \in Calls
  PROVE  /\ c[1] \in Tasks /\ c[2] \in 1..ScanAttempts
         /\ c[1] = <<c[1][1], c[1][2]>> /\ c = <<c[1], c[2]>>
         /\ c[1][2] = "scan" => c[1][1] \in Artifacts
         /\ c[1][2] = "sbom" => c[1][1] \in SBOMArtifacts
         /\ c[1][2] \in {"scan", "sbom"}
BY ScanAssumption DEF Calls, Tasks

LEMMA StatusType ==
  ASSUME NEW state \in JobStates \ {"ABSENT"},
         NEW present \in BOOLEAN, NEW stale \in BOOLEAN
  PROVE  ResultStatusFromJob(state, present, stale) \in Statuses
BY DEF ResultStatusFromJob, Statuses, JobStates

-----------------------------------------------------------------------------
(* A set of numbers up to n has a greatest element; the library's theorem  *)
(* on well-founded relations gives it.                                     *)
LEMMA Least ==
  ASSUME NEW T \in SUBSET Nat, T # {}
  PROVE  \E x \in T : \A y \in T : x <= y
  <1> DEFINE R == OpToRel(<, Nat)
  <1>1. IsWellFoundedOn(R, Nat)
    BY NatLessThanWellFounded
  <1>2. \A x, y \in Nat : x < y => <<x, y>> \in R
    BY DEF OpToRel
  <1> HIDE DEF R
  <1>3. PICK x \in T : \A y \in T : ~ (<<y, x>> \in R)
    BY <1>1, WFMin
  <1>4. ASSUME NEW y \in T PROVE x <= y
    <2>1. ~(y < x)
      BY <1>2, <1>3
    <2>2. x \in Nat /\ y \in Nat
      OBVIOUS
    <2>3. QED
      BY <2>1, <2>2
  <1>5. QED
    BY <1>4

LEMMA Greatest ==
  ASSUME NEW n \in Nat, NEW S \in SUBSET (0..n), S # {}
  PROVE  \E x \in S : \A y \in S : y <= x
  <1> DEFINE T == {n - x : x \in S}
  <1>1. ASSUME NEW x \in S PROVE n - x \in Nat
    <2>1. x \in 0..n
      OBVIOUS
    <2>2. QED
      BY <2>1
  <1>2. T \in SUBSET Nat
    BY <1>1
  <1>3. T # {}
    OBVIOUS
  <1> HIDE DEF T
  <1>4. PICK t \in T : \A y \in T : t <= y
    BY <1>2, <1>3, Least
  <1> USE DEF T
  <1>5. PICK x \in S : t = n - x
    BY <1>4
  <1>6. \A y \in S : n - x <= n - y
    BY <1>4, <1>5
  <1>7. ASSUME NEW y \in S PROVE y <= x
    <2>1. x \in 0..n /\ y \in 0..n
      OBVIOUS
    <2>2. n - x <= n - y
      BY <1>6
    <2>3. QED
      BY <2>1, <2>2
  <1>8. QED
    BY <1>7

(* The CHOOSE of NewestReported names such an element.                     *)
LEMMA NewestExists ==
  ASSUME ScanTypeOK
  PROVE  /\ NewestReported \in {0} \cup Databases
         /\ \/ NewestReported = 0
            \/ \E a \in Artifacts :
                 reports[a] # Nothing /\ reports[a].database = NewestReported
  <1> DEFINE saved == {reports[a].database :
                         a \in {b \in Artifacts : reports[b] # Nothing}}
             S == {0} \cup saved
  <1>1. saved \in SUBSET Databases
    BY DEF ScanTypeOK, Report
  <1>2. MaxDatabases \in Nat
    BY ScanAssumption
  <1>3. S \in SUBSET (0..MaxDatabases) /\ S # {}
    BY <1>1, <1>2 DEF Databases
  <1>4. \E n \in S : \A m \in S : m <= n
    <2> HIDE DEF S
    <2>1. QED
      BY <1>2, <1>3, Greatest
  <1>5. \E n \in S : \A m \in saved : m <= n
    BY <1>4
  <1>6. NewestReported = CHOOSE n \in S : \A m \in saved : m <= n
    BY DEF NewestReported
  <1>7. NewestReported \in S
    <2> HIDE DEF S, saved
    <2>1. QED
      BY <1>5, <1>6
  <1>8. QED
    BY <1>1, <1>7

-----------------------------------------------------------------------------
LEMMA TypeInit == ScanInit => ScanTypeOK
  <1> SUFFICES ASSUME ScanInit PROVE ScanTypeOK
    OBVIOUS
  <1>1. published \in Databases
    BY ScanAssumption DEF ScanInit, Databases
  <1>2. NoDetail \in Detail
    BY DEF NoDetail, Detail, JobStates, Statuses
  <1>3. [state |-> "ABSENT", attempts |-> 0] \in TaskRow
    BY ScanAssumption DEF TaskRow, JobStates
  <1>4. QED
    BY <1>1, <1>2, <1>3 DEF ScanInit, ScanTypeOK

(* A handler's next record. *)
LEMMA NextHandlerType ==
  ASSUME ScanTypeOK, NEW h \in handlers
  PROVE  /\ h \in Handler
         /\ [h EXCEPT !.step = FirstStep(h)] \in Handler
         /\ [h EXCEPT !.step = "scan"] \in Handler
         /\ [h EXCEPT !.step = "version",
                      !.scanned = cache[h.worker]] \in Handler
         /\ [h EXCEPT !.step = "save",
                      !.named = cache[h.worker]] \in Handler
         /\ [h EXCEPT !.step = "save"] \in Handler
         /\ [h EXCEPT !.step = "report"] \in Handler
         /\ [h EXCEPT !.step = "failed", !.scanned = 0,
                      !.named = 0] \in Handler
         /\ [h EXCEPT !.step = "report", !.scanned = 0,
                      !.named = 0] \in Handler
BY DEF ScanTypeOK, Handler, FirstStep

LEMMA ReportType ==
  ASSUME ScanTypeOK, NEW h \in handlers, h.named \in Databases,
         h.scanned \in Databases
  PROVE  [database |-> h.named, scanner |-> ScannerOf[h.worker],
          findings |-> h.scanned] \in Report
BY ScanAssumption DEF ScanTypeOK, Handler, Report

-----------------------------------------------------------------------------
(* The inductive invariant.  What a handler relies on: that its call has   *)
(* been counted, that the lock it took is still its own, that nobody       *)
(* changed the database under its scan, that what it reports is saved, and *)
(* that nothing was saved before it if its job was started only once.      *)

Saved(t) ==
  IF t[2] = "scan" THEN reports[t[1]] # Nothing ELSE sboms[t[1]] # Nothing

(* The two runs of a scan named the database they used. *)
SaveReady(h) ==
  h.step = "save" /\ h.call[1][2] = "scan" =>
    h.scanned \in Databases /\ h.named = h.scanned

Locked == {"update", "scan", "version", "generate"}

HandlerOK(h) ==
  /\ h.call[2] <= tasks[h.call[1]].attempts
  /\ h.step \in Locked => mutex[h.worker] = h.call
  /\ h.step \in {"update", "scan", "version"} => h.call[1][2] = "scan"
  /\ h.step = "generate" => h.call[1][2] = "sbom"
  /\ h.step \in {"scan", "version"} => cache[h.worker] \in Databases
  /\ h.step = "version" => h.scanned = cache[h.worker]
  /\ SaveReady(h)
  /\ h.step = "report" => Saved(h.call[1])
  /\ /\ h.call[1][2] = "scan" /\ h.step \notin {"report", "failed"}
     /\ tasks[h.call[1]].attempts = 1
     => reports[h.call[1][1]] = Nothing

CallsDiffer == \A g, h \in handlers : g.call = h.call => g = h

TaskOK(t) ==
  /\ tasks[t].state = "ABSENT" => tasks[t].attempts = 0
  /\ tasks[t].state = "SUCCEEDED" => Saved(t)
  /\ t[2] = "sbom" =>
       (tasks[t].state = "ABSENT" <=> tasks[<<t[1], "scan">>].state = "ABSENT")

ReportOK(a) ==
  reports[a] # Nothing =>
    /\ reports[a].findings = reports[a].database
    /\ reports[a].database <= tool.database
    /\ tasks[<<a, "scan">>].attempts >= 1

WorkInv ==
  /\ \A h \in handlers : HandlerOK(h)
  /\ CallsDiffer
  /\ \A t \in Tasks : TaskOK(t)
  /\ \A a \in Artifacts : ReportOK(a)

(* What the reader has read still holds, or is what it will hold it        *)
(* against.                                                                *)
ReaderKnows ==
  LET a == detail.artifact
  IN  /\ detail.step # "idle" => a \in ReadArtifacts
      /\ detail.step \in {"results", "tool"} =>
           /\ detail.scanState # "ABSENT" /\ detail.sbomState # "ABSENT"
           /\ detail.since <= tool.database
      /\ detail.step \in {"idle", "results", "tool"} =>
           detail.scanStatus = "NONE" /\ detail.sbomStatus = "NONE"
      /\ detail.step = "results" =>
           /\ detail.scanState = "SUCCEEDED" => reports[a] # Nothing
           /\ detail.sbomState = "SUCCEEDED" =>
                a \in SBOMArtifacts /\ sboms[a] # Nothing
      /\ detail.step = "tool" =>
           /\ detail.scanState = "SUCCEEDED" => detail.report # Nothing
           /\ detail.sbomState = "SUCCEEDED" => detail.sbom # Nothing
      /\ detail.step = "counts" => detail.report # Nothing
      /\ detail.step \in {"tool", "counts"} /\ detail.report # Nothing =>
           /\ reports[a] # Nothing
           /\ detail.report.database <= tool.database
           /\ \/ detail.report = reports[a]
              \/ tasks[<<a, "scan">>].attempts > 1

Inv == ScanTypeOK /\ WorkInv /\ ReaderKnows /\ DetailTrue

LEMMA TaskRowType ==
  ASSUME ScanTypeOK, NEW t \in Tasks, NEW s \in JobStates
  PROVE  /\ tasks[t] \in TaskRow
         /\ [tasks[t] EXCEPT !.state = s] \in TaskRow
         /\ [tasks[t] EXCEPT !.state = s]
              = [state |-> s, attempts |-> tasks[t].attempts]
         /\ [tasks EXCEPT ![t].state = s] \in [Tasks -> TaskRow]
         /\ [tasks EXCEPT ![t].state = s][t]
              = [state |-> s, attempts |-> tasks[t].attempts]
         /\ \A u \in Tasks \ {t} : [tasks EXCEPT ![t].state = s][u] = tasks[u]
BY DEF ScanTypeOK, TaskRow

LEMMA ToolType ==
  ASSUME ScanTypeOK, NEW database \in Databases, NEW scanner \in Nat,
         tool' \in ToolAfter(database, scanner)
  PROVE  /\ tool' \in [database : {0} \cup Databases, scanner : Nat]
         /\ tool'.database >= tool.database /\ tool'.database >= database
  <1>1. tool.database \in Nat /\ database \in Nat
    BY DatabaseIsNat DEF ScanTypeOK
  <1>2. QED
    BY <1>1 DEF ToolAfter, ScanTypeOK

-----------------------------------------------------------------------------
LEMMA ReaderTypeStep ==
  ASSUME Inv, AskResults \/ AskTool \/ CountFindings
         \/ \E a \in ReadArtifacts : AskJobs(a),
         NewestReported \in {0} \cup Databases
  PROVE  detail' \in Detail
  <1>0. detail \in Detail
    BY DEF Inv, ScanTypeOK
  <1>1. ASSUME NEW a \in ReadArtifacts, AskJobs(a) PROVE detail' \in Detail
    <2>1. /\ <<a, "scan">> \in Tasks
          /\ a \in SBOMArtifacts => <<a, "sbom">> \in Tasks
      BY ScanAssumption DEF Tasks
    <2>2. /\ tasks[<<a, "scan">>].state \in JobStates
          /\ (IF a \in SBOMArtifacts
              THEN tasks[<<a, "sbom">>].state ELSE "QUEUED") \in JobStates
      BY <2>1 DEF Inv, ScanTypeOK, TaskRow, JobStates
    <2>3. QED
      BY <1>0, <1>1, <2>2 DEF AskJobs, Asks, Detail
  <1>2. ASSUME AskResults PROVE detail' \in Detail
    <2>1. detail.artifact \in Artifacts
      BY <1>2, ScanAssumption DEF AskResults, Asks, Inv, ReaderKnows
    <2>2. reports[detail.artifact] \in Report \cup {Nothing}
      BY <2>1 DEF Inv, ScanTypeOK
    <2>3. (IF detail.artifact \in SBOMArtifacts
           THEN sboms[detail.artifact] ELSE Nothing) \in Nat \cup {Nothing}
      BY DEF Inv, ScanTypeOK
    <2>4. QED
      BY <1>0, <1>2, <2>2, <2>3 DEF AskResults, Asks, Detail
  <1>3. ASSUME AskTool PROVE detail' \in Detail
    <2> DEFINE scan == ResultStatusFromJob(detail.scanState,
                         detail.report # Nothing, ScanStale(detail.report))
               sbom == ResultStatusFromJob(detail.sbomState,
                         detail.sbom # Nothing, SBOMStale(detail.sbom))
    <2>1. /\ detail.scanState \in JobStates \ {"ABSENT"}
          /\ detail.sbomState \in JobStates \ {"ABSENT"}
      BY <1>0, <1>3 DEF AskTool, Asks, Inv, ReaderKnows, Detail
    <2>2. ScanStale(detail.report) \in BOOLEAN
      BY DEF ScanStale
    <2>3. SBOMStale(detail.sbom) \in BOOLEAN
      BY DEF SBOMStale
    <2>4. scan \in Statuses /\ sbom \in Statuses
      BY <2>1, <2>2, <2>3, StatusType
    <2>5. "ABSENT" \in JobStates
      BY DEF JobStates
    <2>6. detail' = [detail EXCEPT
             !.step = IF detail.report = Nothing THEN "done" ELSE "counts",
             !.scanState = "ABSENT", !.sbomState = "ABSENT",
             !.sbom = Nothing, !.scanStatus = scan, !.sbomStatus = sbom]
      BY <1>3 DEF AskTool, Asks
    <2> HIDE DEF scan, sbom
    <2>7. QED
      BY <1>0, <2>4, <2>5, <2>6 DEF Detail
  <1>4. ASSUME CountFindings PROVE detail' \in Detail
    <2>1. detail.artifact \in Artifacts /\ reports[detail.artifact] # Nothing
      BY <1>4, ScanAssumption DEF CountFindings, Asks, Inv, ReaderKnows
    <2>2. reports[detail.artifact].findings \in Databases
      BY <2>1 DEF Inv, ScanTypeOK, Report
    <2>3. QED
      BY <1>0, <1>4, <2>2 DEF CountFindings, Asks, Detail
  <1>5. QED
    BY <1>1, <1>2, <1>3, <1>4

LEMMA TypeStep == Inv /\ [ScanNext]_scanVars => ScanTypeOK'
  <1> SUFFICES ASSUME Inv, [ScanNext]_scanVars PROVE ScanTypeOK'
    OBVIOUS
  <1> USE DEF Inv
  <1>1. CASE Publish
    <2>1. published + 1 \in Databases
      BY <1>1, ScanAssumption DEF Publish, ScanTypeOK, Databases
    <2>2. QED
      BY <1>1, <2>1 DEF Publish, ScanTypeOK, resultVars
  <1>2. ASSUME NEW a \in Artifacts, EnsureTasks(a) PROVE ScanTypeOK'
    <2>1. \A t \in Tasks : [tasks[t] EXCEPT !.state = "QUEUED"] \in TaskRow
      BY TaskRowType DEF JobStates
    <2>2. tasks' \in [Tasks -> TaskRow]
      BY <1>2, <2>1 DEF EnsureTasks, ScanTypeOK
    <2>3. QED
      BY <1>2, <2>2 DEF EnsureTasks, ScanTypeOK, toolVars, resultVars
  <1>3. ASSUME NEW t \in Tasks, BuryTask(t) PROVE ScanTypeOK'
    <2>1. tasks' \in [Tasks -> TaskRow]
      BY <1>3, TaskRowType DEF BuryTask, JobStates
    <2>2. QED
      BY <1>3, <2>1 DEF BuryTask, ScanTypeOK, toolVars, resultVars
  <1>4. ASSUME NEW t \in Tasks, NEW w \in ScanWorkers, ClaimTask(t, w)
        PROVE  ScanTypeOK'
    <2>1. tasks[t].attempts \in Nat /\ tasks[t].attempts < ScanAttempts
      BY <1>4, ScanAssumption DEF ClaimTask, ScanTypeOK, TaskRow
    <2>2. tasks[t].attempts + 1 \in 1..ScanAttempts
      BY <2>1, ScanAssumption
    <2>3. [state |-> "RUNNING", attempts |-> tasks[t].attempts + 1] \in TaskRow
      BY <2>2 DEF TaskRow, JobStates
    <2>4. [call |-> <<t, tasks[t].attempts + 1>>, worker |-> w,
           step |-> "lock", scanned |-> 0, named |-> 0] \in Handler
      BY <2>2 DEF Handler, Calls
    <2>5. QED
      BY <1>4, <2>3, <2>4 DEF ClaimTask, ScanTypeOK, toolVars, resultVars
  <1>5. ASSUME NEW w \in ScanWorkers, WorkerDies(w) PROVE ScanTypeOK'
    BY <1>5 DEF WorkerDies, ScanTypeOK, resultVars
  <1>6. ASSUME NEW h \in handlers, Handle(h) PROVE ScanTypeOK'
    <2>1. h \in Handler /\ h.call \in Calls /\ h.worker \in ScanWorkers
      BY DEF ScanTypeOK, Handler
    <2>2. HandlerOK(h)
      BY DEF WorkInv
    <2>3. Unlocked(h) => mutex' \in [ScanWorkers -> Calls \cup {Nothing}]
      BY <2>1 DEF Unlocked, ScanTypeOK
    <2>4. CASE LockScanner(h)
      BY <2>1, <2>4, NextHandlerType
         DEF LockScanner, Proceeds, ScanTypeOK, resultVars
    <2>5. CASE UpdateDatabase(h)
      <3>1. cache' \in [ScanWorkers -> {0} \cup Databases]
        BY <2>1, <2>5 DEF UpdateDatabase, ScanTypeOK
      <3>2. QED
        BY <2>5, <3>1, NextHandlerType
           DEF UpdateDatabase, Proceeds, ScanTypeOK, resultVars
    <2>6. CASE ScanImage(h)
      BY <2>6, NextHandlerType
         DEF ScanImage, Proceeds, ScanTypeOK, toolVars, resultVars
    <2>7. CASE ReadToolVersion(h) \/ GenerateSBOM(h) \/ Fails(h)
      BY <2>3, <2>7, NextHandlerType
         DEF ReadToolVersion, GenerateSBOM, Fails, Proceeds, ScanTypeOK,
             resultVars
    <2>8. CASE SaveScanResult(h)
      <3>1. /\ h.call[1][1] \in Artifacts
            /\ h.named \in Databases /\ h.scanned \in Databases
            /\ ScannerOf[h.worker] \in Nat
        BY <2>1, <2>2, <2>8, TaskOfCall, ScanAssumption
           DEF SaveScanResult, HandlerOK, SaveReady
      <3>2. reports' \in [Artifacts -> Report \cup {Nothing}]
        BY <2>8, <3>1, ReportType DEF SaveScanResult, ScanTypeOK
      <3>3. tool' \in [database : {0} \cup Databases, scanner : Nat]
        BY <2>8, <3>1, ToolType DEF SaveScanResult
      <3>4. QED
        BY <2>8, <3>2, <3>3, NextHandlerType
           DEF SaveScanResult, Proceeds, ScanTypeOK, toolVars
    <2>9. CASE SaveSBOMResult(h)
      <3>1. h.call[1][1] \in SBOMArtifacts /\ ScannerOf[h.worker] \in Nat
        BY <2>1, <2>9, TaskOfCall, ScanAssumption DEF SaveSBOMResult
      <3>2. sboms' \in [SBOMArtifacts -> Nat \cup {Nothing}]
        BY <2>9, <3>1 DEF SaveSBOMResult, ScanTypeOK
      <3>3. QED
        BY <2>9, <3>2, NextHandlerType
           DEF SaveSBOMResult, Proceeds, ScanTypeOK, toolVars
    <2>10. CASE Succeed(h) \/ ReportFails(h)
      <3>1. PICK state \in JobStates :
              tasks' = [tasks EXCEPT ![h.call[1]].state = state]
        BY <2>10 DEF Succeed, ReportFails, JobStates
      <3>2. h.call[1] \in Tasks
        BY <2>1, TaskOfCall
      <3>3. tasks' \in [Tasks -> TaskRow]
        BY <3>1, <3>2, TaskRowType
      <3>4. QED
        BY <2>10, <3>3
           DEF Succeed, ReportFails, ScanTypeOK, toolVars, resultVars
    <2>11. CASE ReportLost(h)
      BY <2>11 DEF ReportLost, ScanTypeOK, toolVars, resultVars
    <2>12. QED
      BY <1>6, <2>4, <2>5, <2>6, <2>7, <2>8, <2>9, <2>10, <2>11 DEF Handle
  <1>7. CASE AskResults \/ AskTool \/ CountFindings
             \/ \E a \in ReadArtifacts : AskJobs(a)
    <2>1. detail' \in Detail
      BY <1>7, ReaderTypeStep, NewestExists
    <2>2. UNCHANGED <<toolVars, tasks, handlers, resultVars>>
      BY <1>7 DEF AskResults, AskTool, CountFindings, AskJobs, Asks
    <2>3. QED
      BY <2>1, <2>2 DEF ScanTypeOK, toolVars, resultVars
  <1>8. CASE UNCHANGED scanVars
    BY <1>8 DEF scanVars, toolVars, resultVars, ScanTypeOK
  <1>9. QED
    BY <1>1, <1>2, <1>3, <1>4, <1>5, <1>6, <1>7, <1>8 DEF ScanNext

-----------------------------------------------------------------------------
(* What a step does to the job rows: at most one of them is claimed,       *)
(* buried or settled, or the rows of one artifact are queued.              *)
TaskStep(t) ==
  \/ tasks'[t] = tasks[t]
  \/ /\ tasks[t].state = "ABSENT"
     /\ tasks'[t] = [state |-> "QUEUED", attempts |-> tasks[t].attempts]
  \/ /\ tasks[t].state \in {"QUEUED", "RUNNING"}
     /\ tasks[t].attempts < ScanAttempts
     /\ tasks'[t] = [state |-> "RUNNING", attempts |-> tasks[t].attempts + 1]
  \/ /\ tasks[t].state = "RUNNING"
     /\ \E s \in {"SUCCEEDED", "QUEUED", "DEAD"} :
          /\ tasks'[t] = [state |-> s, attempts |-> tasks[t].attempts]
          /\ s = "QUEUED" => tasks[t].attempts < ScanAttempts
          /\ s = "SUCCEEDED" => Saved(t)

OnlyTask(t) == TaskStep(t) /\ \A u \in Tasks \ {t} : tasks'[u] = tasks[u]

QueuePair(a) ==
  /\ a \in Artifacts
  /\ tasks[<<a, "scan">>].state = "ABSENT"
  /\ \A t \in Tasks : t[1] = a =>
       tasks'[t].state = "QUEUED" /\ tasks'[t].attempts = tasks[t].attempts
  /\ \A t \in Tasks : t[1] # a => tasks'[t] = tasks[t]

LEMMA EnsureStep ==
  ASSUME Inv, NEW a \in Artifacts, EnsureTasks(a)
  PROVE  QueuePair(a)
  <1>1. ASSUME NEW t \in Tasks, t[1] = a
        PROVE  /\ tasks'[t].state = "QUEUED"
               /\ tasks'[t].attempts = tasks[t].attempts
    <2>1. tasks'[t] = [tasks[t] EXCEPT !.state = "QUEUED"]
      BY <1>1 DEF EnsureTasks
    <2>2. tasks'[t] = [state |-> "QUEUED", attempts |-> tasks[t].attempts]
      BY <2>1, TaskRowType DEF Inv, JobStates
    <2>3. QED
      BY <2>2
  <1>2. \A t \in Tasks : t[1] # a => tasks'[t] = tasks[t]
    BY DEF EnsureTasks
  <1>3. QED
    BY <1>1, <1>2 DEF EnsureTasks, QueuePair

LEMMA ClaimStep ==
  ASSUME Inv, NEW t \in Tasks, NEW w \in ScanWorkers, ClaimTask(t, w)
  PROVE  /\ OnlyTask(t)
         /\ tasks'[t] = [state |-> "RUNNING", attempts |-> tasks[t].attempts + 1]
BY DEF ClaimTask, OnlyTask, TaskStep, Inv, ScanTypeOK

LEMMA BuryStep ==
  ASSUME Inv, NEW t \in Tasks, BuryTask(t)
  PROVE  OnlyTask(t) /\ tasks'[t].attempts = tasks[t].attempts
  <1>1. /\ tasks'[t] = [state |-> "DEAD", attempts |-> tasks[t].attempts]
        /\ \A u \in Tasks \ {t} : tasks'[u] = tasks[u]
    BY TaskRowType DEF BuryTask, Inv, JobStates
  <1>2. QED
    BY <1>1 DEF BuryTask, OnlyTask, TaskStep

LEMMA SettleStep ==
  ASSUME Inv, NEW h \in handlers, Succeed(h) \/ ReportFails(h)
  PROVE  /\ h.call[1] \in Tasks
         /\ OnlyTask(h.call[1])
         /\ tasks'[h.call[1]].attempts = tasks[h.call[1]].attempts
  <1> DEFINE t == h.call[1]
  <1>1. /\ t \in Tasks /\ h.call[2] \in 1..ScanAttempts
        /\ tasks[t].state = "RUNNING" /\ tasks[t].attempts = h.call[2]
        /\ h.step = "report" => Saved(t)
    BY TaskOfCall
       DEF Inv, ScanTypeOK, Handler, WorkInv, HandlerOK, Succeed, ReportFails,
           Holds
  <1>2. \E s \in {"SUCCEEDED", "QUEUED", "DEAD"} :
          /\ tasks' = [tasks EXCEPT ![t].state = s]
          /\ s = "QUEUED" => tasks[t].attempts < ScanAttempts
          /\ s = "SUCCEEDED" => Saved(t)
    BY <1>1 DEF Succeed, ReportFails
  <1> HIDE DEF t
  <1>3. PICK s \in {"SUCCEEDED", "QUEUED", "DEAD"} :
          /\ tasks' = [tasks EXCEPT ![t].state = s]
          /\ s = "QUEUED" => tasks[t].attempts < ScanAttempts
          /\ s = "SUCCEEDED" => Saved(t)
    BY <1>2
  <1>4. s \in JobStates
    BY DEF JobStates
  <1>5. /\ tasks'[t] = [state |-> s, attempts |-> tasks[t].attempts]
        /\ \A u \in Tasks \ {t} : tasks'[u] = tasks[u]
    BY <1>1, <1>3, <1>4, TaskRowType DEF Inv
  <1>6. OnlyTask(t) /\ tasks'[t].attempts = tasks[t].attempts
    BY <1>1, <1>3, <1>5 DEF OnlyTask, TaskStep
  <1>7. QED
    BY <1>1, <1>6 DEF t

(* The steps that leave the job rows alone. *)
LEMMA TasksUnchanged ==
  ASSUME \/ Publish \/ \E w \in ScanWorkers : WorkerDies(w)
         \/ \E h \in handlers :
              \/ LockScanner(h) \/ UpdateDatabase(h) \/ ScanImage(h)
              \/ ReadToolVersion(h) \/ GenerateSBOM(h) \/ Fails(h)
              \/ SaveScanResult(h) \/ SaveSBOMResult(h) \/ ReportLost(h)
         \/ \E a \in ReadArtifacts : AskJobs(a)
         \/ AskResults \/ AskTool \/ CountFindings
         \/ UNCHANGED scanVars
  PROVE  tasks' = tasks
BY DEF Publish, WorkerDies, LockScanner, UpdateDatabase, ScanImage,
       ReadToolVersion, GenerateSBOM, Fails, SaveScanResult, SaveSBOMResult,
       ReportLost, AskJobs, AskResults, AskTool, CountFindings, Asks, scanVars

LEMMA TasksMove ==
  ASSUME Inv, [ScanNext]_scanVars
  PROVE  \/ tasks' = tasks
         \/ \E t \in Tasks : OnlyTask(t)
         \/ \E a \in Artifacts : QueuePair(a)
  <1>1. CASE \E h \in handlers : Succeed(h) \/ ReportFails(h)
    BY <1>1, SettleStep
  <1>2. CASE \E t \in Tasks : BuryTask(t) \/ \E w \in ScanWorkers : ClaimTask(t, w)
    BY <1>2, BuryStep, ClaimStep
  <1>3. CASE \E a \in Artifacts : EnsureTasks(a)
    BY <1>3, EnsureStep
  <1>4. QED
    BY <1>1, <1>2, <1>3, TasksUnchanged DEF ScanNext, Handle

-----------------------------------------------------------------------------
(* What a step never takes away: attempts that were counted, results that  *)
(* were saved, the database the tool state has reached; and a report is    *)
(* replaced only when its job was started more than once.                  *)
Grows ==
  /\ \A t \in Tasks : tasks'[t].attempts >= tasks[t].attempts
  /\ \A a \in Artifacts : reports[a] # Nothing =>
       /\ reports'[a] # Nothing
       /\ reports'[a] = reports[a] \/ tasks[<<a, "scan">>].attempts > 1
  /\ \A a \in SBOMArtifacts : sboms[a] # Nothing => sboms'[a] # Nothing
  /\ tool'.database >= tool.database

LEMMA AttemptsGrow ==
  ASSUME Inv, [ScanNext]_scanVars, NEW t \in Tasks
  PROVE  tasks[t].attempts \in Nat /\ tasks'[t].attempts >= tasks[t].attempts
  <1>1. \A u \in Tasks : tasks[u].attempts \in Nat
    BY ScanAssumption DEF Inv, ScanTypeOK, TaskRow
  <1>2. ASSUME NEW u \in Tasks, OnlyTask(u)
        PROVE  tasks'[t].attempts >= tasks[t].attempts
    <2>1. CASE t = u
      BY <1>1, <1>2, <2>1 DEF OnlyTask, TaskStep
    <2>2. CASE t # u
      BY <1>1, <1>2, <2>2 DEF OnlyTask
    <2>3. QED
      BY <2>1, <2>2
  <1>3. ASSUME NEW a \in Artifacts, QueuePair(a)
        PROVE  tasks'[t].attempts >= tasks[t].attempts
    <2>1. tasks'[t].attempts = tasks[t].attempts
      BY <1>3 DEF QueuePair
    <2>2. QED
      BY <1>1, <2>1
  <1>4. QED
    BY <1>1, <1>2, <1>3, TasksMove

LEMMA ResultsUnchanged ==
  ASSUME \/ Publish \/ \E w \in ScanWorkers : WorkerDies(w)
         \/ \E a \in Artifacts : EnsureTasks(a)
         \/ \E t \in Tasks :
              BuryTask(t) \/ \E w \in ScanWorkers : ClaimTask(t, w)
         \/ \E h \in handlers :
              \/ LockScanner(h) \/ UpdateDatabase(h) \/ ScanImage(h)
              \/ ReadToolVersion(h) \/ GenerateSBOM(h) \/ Fails(h)
              \/ Succeed(h) \/ ReportFails(h) \/ ReportLost(h)
         \/ \E a \in ReadArtifacts : AskJobs(a)
         \/ AskResults \/ AskTool \/ CountFindings
         \/ UNCHANGED scanVars
  PROVE  reports' = reports /\ sboms' = sboms /\ tool' = tool
BY DEF Publish, WorkerDies, EnsureTasks, BuryTask, ClaimTask, LockScanner,
       UpdateDatabase, ScanImage, ReadToolVersion, GenerateSBOM, Fails,
       Succeed, ReportFails, ReportLost, AskJobs, AskResults, AskTool,
       CountFindings, Asks, scanVars, resultVars

LEMMA SaveScanStep ==
  ASSUME Inv, NEW h \in handlers, SaveScanResult(h)
  PROVE  LET a == h.call[1][1]
             r == [database |-> h.named, scanner |-> ScannerOf[h.worker],
                   findings |-> h.scanned]
         IN  /\ a \in Artifacts /\ h.call[1] = <<a, "scan">>
             /\ r \in Report /\ r # Nothing
             /\ h.named = h.scanned /\ h.named \in Databases
             /\ reports'[a] = r
             /\ \A b \in Artifacts \ {a} : reports'[b] = reports[b]
             /\ reports[a] # Nothing => tasks[<<a, "scan">>].attempts > 1
             /\ tool'.database >= tool.database
             /\ tool'.database >= h.named
             /\ sboms' = sboms /\ tasks' = tasks
  <1>1. /\ h \in Handler /\ h.call \in Calls /\ h.worker \in ScanWorkers
        /\ h.step = "save" /\ h.call[1][2] = "scan" /\ HandlerOK(h)
    BY DEF Inv, ScanTypeOK, Handler, WorkInv, SaveScanResult
  <1>2. /\ h.call[1][1] \in Artifacts
        /\ h.call[1] = <<h.call[1][1], "scan">>
        /\ h.call[1] \in Tasks /\ h.call[2] \in Nat /\ h.call[2] > 0
        /\ h.named = h.scanned /\ h.named \in Databases
    BY <1>1, TaskOfCall, ScanAssumption DEF HandlerOK, SaveReady
  <1>3. [database |-> h.named, scanner |-> ScannerOf[h.worker],
         findings |-> h.scanned] \in Report
    BY <1>2, ReportType DEF Inv
  <1>4. tool'.database >= tool.database /\ tool'.database >= h.named
    <2>1. ScannerOf[h.worker] \in Nat
      BY <1>1, ScanAssumption
    <2>2. QED
      BY <1>2, <2>1, ToolType DEF SaveScanResult, Inv
  <1>5. tasks[h.call[1]].attempts \in Nat
    BY <1>2, ScanAssumption DEF Inv, ScanTypeOK, TaskRow
  <1>6. reports[h.call[1][1]] # Nothing => tasks[h.call[1]].attempts > 1
    BY <1>1, <1>2, <1>5 DEF HandlerOK
  <1>7. QED
    BY <1>2, <1>3, <1>4, <1>6, NothingAssumption
       DEF SaveScanResult, Inv, ScanTypeOK

LEMMA SaveSBOMStep ==
  ASSUME Inv, NEW h \in handlers, SaveSBOMResult(h)
  PROVE  LET a == h.call[1][1]
         IN  /\ a \in SBOMArtifacts /\ h.call[1] = <<a, "sbom">>
             /\ sboms'[a] # Nothing
             /\ \A b \in SBOMArtifacts \ {a} : sboms'[b] = sboms[b]
             /\ reports' = reports /\ tool' = tool /\ tasks' = tasks
  <1>1. /\ h.call \in Calls /\ h.worker \in ScanWorkers
        /\ h.call[1][2] = "sbom"
    BY DEF Inv, ScanTypeOK, Handler, SaveSBOMResult
  <1>2. /\ h.call[1][1] \in SBOMArtifacts
        /\ h.call[1] = <<h.call[1][1], "sbom">>
        /\ ScannerOf[h.worker] \in Nat
    BY <1>1, TaskOfCall, ScanAssumption
  <1>3. QED
    BY <1>2, NothingAssumption DEF SaveSBOMResult, Inv, ScanTypeOK

LEMMA StepGrows == Inv /\ [ScanNext]_scanVars => Grows
  <1> SUFFICES ASSUME Inv, [ScanNext]_scanVars PROVE Grows
    OBVIOUS
  <1>1. \A t \in Tasks : tasks'[t].attempts >= tasks[t].attempts
    BY AttemptsGrow
  <1>2. tool.database \in Nat
    BY DatabaseIsNat DEF Inv, ScanTypeOK
  <1>3. ASSUME NEW h \in handlers, SaveScanResult(h) PROVE Grows
    BY <1>1, <1>3, SaveScanStep DEF Grows
  <1>4. ASSUME NEW h \in handlers, SaveSBOMResult(h) PROVE Grows
    BY <1>1, <1>2, <1>4, SaveSBOMStep DEF Grows
  <1>5. CASE reports' = reports /\ sboms' = sboms /\ tool' = tool
    BY <1>1, <1>2, <1>5 DEF Grows
  <1>6. QED
    BY <1>3, <1>4, <1>5, ResultsUnchanged DEF ScanNext, Handle

-----------------------------------------------------------------------------
LEMMA TasksStep == Inv /\ [ScanNext]_scanVars => \A t \in Tasks : TaskOK(t)'
  <1> SUFFICES ASSUME Inv, [ScanNext]_scanVars, NEW t \in Tasks
               PROVE  TaskOK(t)'
    OBVIOUS
  <1>1. /\ TaskOK(t) /\ tasks[t].attempts \in Nat
        /\ \A u \in Tasks : u = <<u[1], u[2]>> /\ u[2] \in {"scan", "sbom"}
                            /\ <<u[1], "scan">> \in Tasks
    BY ScanAssumption DEF Inv, WorkInv, ScanTypeOK, TaskRow, Tasks
  <1>2. Saved(t) => Saved(t)'
    <2>1. /\ t[2] = "scan" => t[1] \in Artifacts
          /\ t[2] # "scan" => t[1] \in SBOMArtifacts
      BY ScanAssumption DEF Tasks
    <2>2. QED
      BY <2>1, StepGrows DEF Grows, Saved
  <1>3. ASSUME NEW u \in Tasks
        PROVE  /\ \/ tasks'[u] = tasks[u]
                  \/ tasks'[u].state # "ABSENT"
               /\ tasks'[u].state = "SUCCEEDED" =>
                    Saved(u) \/ tasks[u].state = "SUCCEEDED"
    <2>1. ASSUME NEW a \in Artifacts, QueuePair(a)
          PROVE  tasks'[u] = tasks[u] \/ tasks'[u].state = "QUEUED"
      BY <2>1 DEF QueuePair
    <2>2. ASSUME NEW v \in Tasks, OnlyTask(v)
          PROVE  tasks'[u] = tasks[u] \/ TaskStep(u)
      BY <2>2 DEF OnlyTask
    <2>3. TaskStep(u) =>
            /\ tasks'[u] = tasks[u] \/ tasks'[u].state # "ABSENT"
            /\ tasks'[u].state = "SUCCEEDED" =>
                 Saved(u) \/ tasks[u].state = "SUCCEEDED"
      BY DEF TaskStep
    <2>4. QED
      BY <2>1, <2>2, <2>3, TasksMove
  <1>4. tasks'[t].state = "ABSENT" => tasks'[t].attempts = 0
    BY <1>1, <1>3 DEF TaskOK
  <1>5. tasks'[t].state = "SUCCEEDED" => Saved(t)'
    BY <1>1, <1>2, <1>3 DEF TaskOK
  <1>6. ASSUME t[2] = "sbom"
        PROVE  tasks'[t].state = "ABSENT" <=>
                 tasks'[<<t[1], "scan">>].state = "ABSENT"
    <2> DEFINE s == <<t[1], "scan">>
    <2>1. s \in Tasks /\ s[1] = t[1]
          /\ (tasks[t].state = "ABSENT" <=> tasks[s].state = "ABSENT")
      BY <1>1, <1>6 DEF TaskOK
    <2>2. (\E a \in Artifacts : EnsureTasks(a)) \/
          \A u \in Tasks : tasks[u].state = "ABSENT" =>
            tasks'[u].state = "ABSENT"
      <3>1. ASSUME NEW u \in Tasks, BuryTask(u)
            PROVE  \A v \in Tasks : tasks[v].state = "ABSENT" =>
                     tasks'[v].state = "ABSENT"
        BY <3>1, BuryStep DEF BuryTask, OnlyTask
      <3>2. ASSUME NEW u \in Tasks, NEW w \in ScanWorkers, ClaimTask(u, w)
            PROVE  \A v \in Tasks : tasks[v].state = "ABSENT" =>
                     tasks'[v].state = "ABSENT"
        BY <3>2, ClaimStep DEF ClaimTask, OnlyTask
      <3>3. ASSUME NEW h \in handlers, Succeed(h) \/ ReportFails(h)
            PROVE  \A v \in Tasks : tasks[v].state = "ABSENT" =>
                     tasks'[v].state = "ABSENT"
        BY <3>3, SettleStep DEF OnlyTask, Succeed, ReportFails, Holds
      <3>4. QED
        BY <3>1, <3>2, <3>3, TasksUnchanged DEF ScanNext, Handle
    <2>3. ASSUME NEW a \in Artifacts, EnsureTasks(a)
          PROVE  tasks'[t].state = "ABSENT" <=> tasks'[s].state = "ABSENT"
      <3>1. QueuePair(a)
        BY <2>3, EnsureStep
      <3>2. CASE t[1] = a
        BY <2>1, <3>1, <3>2 DEF QueuePair
      <3>3. CASE t[1] # a
        BY <2>1, <3>1, <3>3 DEF QueuePair
      <3>4. QED
        BY <3>2, <3>3
    <2> HIDE DEF s
    <2>4. tasks'[t].state = "ABSENT" <=> tasks'[s].state = "ABSENT"
      BY <1>3, <2>1, <2>2, <2>3
    <2>5. QED
      BY <2>4 DEF s
  <1>7. QED
    BY <1>4, <1>5, <1>6 DEF TaskOK

LEMMA ReportsStep ==
  Inv /\ [ScanNext]_scanVars => \A a \in Artifacts : ReportOK(a)'
  <1> SUFFICES ASSUME Inv, [ScanNext]_scanVars, NEW a \in Artifacts
               PROVE  ReportOK(a)'
    OBVIOUS
  <1>1. /\ <<a, "scan">> \in Tasks
        /\ ReportOK(a) /\ Grows
        /\ tool.database \in Nat
        /\ reports[a] # Nothing => reports[a].database \in Nat
    BY StepGrows, DatabaseIsNat
       DEF Inv, WorkInv, Tasks, ScanTypeOK, Report
  <1>2. tasks[<<a, "scan">>].attempts \in Nat
        /\ tasks'[<<a, "scan">>].attempts \in Nat
    BY <1>1, TypeStep, ScanAssumption DEF Inv, ScanTypeOK, TaskRow
  <1>3. tool'.database \in Nat
    BY TypeStep, DatabaseIsNat DEF ScanTypeOK
  <1>4. CASE reports'[a] = reports[a]
    BY <1>1, <1>2, <1>3, <1>4 DEF ReportOK, Grows
  <1>5. ASSUME NEW h \in handlers, SaveScanResult(h), h.call[1][1] = a
        PROVE  ReportOK(a)'
    <2>1. h.call[1] = <<a, "scan">>
      BY <1>5, SaveScanStep
    <2>2. h.call[2] \in Nat /\ h.call[2] > 0 /\ HandlerOK(h)
      BY TaskOfCall, ScanAssumption DEF Inv, ScanTypeOK, Handler, WorkInv
    <2>3. tasks'[<<a, "scan">>].attempts >= 1
      BY <1>1, <1>2, <2>1, <2>2 DEF HandlerOK, Grows
    <2>4. /\ reports'[a].findings = reports'[a].database
          /\ reports'[a].database <= tool'.database
      <3>1. /\ reports'[a] = [database |-> h.named,
                               scanner |-> ScannerOf[h.worker],
                               findings |-> h.scanned]
            /\ h.named = h.scanned /\ tool'.database >= h.named
            /\ h.named \in Databases
        BY <1>5, SaveScanStep
      <3>2. h.named \in Nat
        BY <3>1, DatabaseIsNat
      <3>3. QED
        BY <1>3, <3>1, <3>2
    <2>5. QED
      BY <2>3, <2>4 DEF ReportOK
  <1>6. (\E h \in handlers : SaveScanResult(h) /\ h.call[1][1] = a)
        \/ reports'[a] = reports[a]
    <2>1. ASSUME NEW h \in handlers, SaveScanResult(h), h.call[1][1] # a
          PROVE  reports'[a] = reports[a]
      BY <2>1, SaveScanStep
    <2>2. ASSUME NEW h \in handlers, SaveSBOMResult(h)
          PROVE  reports'[a] = reports[a]
      BY <2>2 DEF SaveSBOMResult
    <2>3. QED
      BY <2>1, <2>2, ResultsUnchanged DEF ScanNext, Handle
  <1>7. QED
    BY <1>4, <1>5, <1>6

-----------------------------------------------------------------------------
(* A handler a step does not touch. *)
LEMMA OtherHandler ==
  ASSUME Inv, [ScanNext]_scanVars, NEW g \in handlers,
         g.step \in Locked => mutex'[g.worker] = mutex[g.worker],
         g.step \in {"scan", "version"} => cache'[g.worker] = cache[g.worker],
         /\ g.call[1][2] = "scan" /\ g.step \notin {"report", "failed"}
         /\ tasks'[g.call[1]].attempts = 1
         => /\ tasks[g.call[1]].attempts = 1
            /\ reports'[g.call[1][1]] = reports[g.call[1][1]]
  PROVE  HandlerOK(g)'
  <1>1. /\ HandlerOK(g) /\ g.call[1] \in Tasks /\ g.call[2] \in Nat
        /\ g.call[1][2] = "scan" => g.call[1][1] \in Artifacts
        /\ g.call[1][2] # "scan" => g.call[1][1] \in SBOMArtifacts
    BY TaskOfCall, ScanAssumption
       DEF Inv, ScanTypeOK, Handler, WorkInv
  <1>2. g.call[2] <= tasks'[g.call[1]].attempts
    <2>1. /\ tasks'[g.call[1]].attempts \in Nat
          /\ tasks[g.call[1]].attempts \in Nat
      BY <1>1, TypeStep, ScanAssumption DEF Inv, ScanTypeOK, TaskRow
    <2>2. QED
      BY <1>1, <2>1, StepGrows DEF Grows, HandlerOK
  <1>3. g.step = "report" => Saved(g.call[1])'
    BY <1>1, StepGrows DEF Grows, Saved, HandlerOK
  <1>4. QED
    BY <1>1, <1>2, <1>3 DEF HandlerOK, SaveReady, Locked

(* A step of handler h to next, and the handlers beside it. *)
LEMMA ProceedsStep ==
  ASSUME CallsDiffer, NEW h \in handlers, NEW next, Proceeds(h, next),
         next.call = h.call
  PROVE  /\ CallsDiffer'
         /\ \A g \in handlers' : g = next \/ (g \in handlers /\ g # h)
         /\ \A g \in handlers : g # h => g.call # h.call
BY DEF CallsDiffer, Proceeds

HandlersInv == CallsDiffer /\ \A h \in handlers : HandlerOK(h)

(* The steps that change neither handlers, nor locks, nor caches. *)
LEMMA HandlersStay ==
  ASSUME Inv, [ScanNext]_scanVars, handlers' = handlers,
         mutex' = mutex, cache' = cache, reports' = reports,
         \A t \in Tasks : tasks'[t].attempts = tasks[t].attempts
  PROVE  HandlersInv'
  <1>1. \A g \in handlers : g.call[1] \in Tasks
    BY TaskOfCall DEF Inv, ScanTypeOK, Handler
  <1>2. \A g \in handlers : HandlerOK(g)'
    BY <1>1, OtherHandler
  <1>3. QED
    BY <1>2 DEF HandlersInv, CallsDiffer, Inv, WorkInv

LEMMA HandlersClaim ==
  ASSUME Inv, [ScanNext]_scanVars,
         NEW t \in Tasks, NEW w \in ScanWorkers, ClaimTask(t, w)
  PROVE  HandlersInv'
  <1>1. PICK new : new = [call |-> <<t, tasks[t].attempts + 1>>, worker |-> w,
                          step |-> "lock", scanned |-> 0, named |-> 0]
    OBVIOUS
  <1>2. /\ handlers' = handlers \cup {new}
        /\ mutex' = mutex /\ cache' = cache /\ reports' = reports
    BY <1>1 DEF ClaimTask, toolVars, resultVars
  <1>3. /\ tasks[t].attempts \in Nat
        /\ tasks'[t].attempts = tasks[t].attempts + 1
        /\ \A u \in Tasks \ {t} : tasks'[u] = tasks[u]
    <2>1. tasks[t].attempts \in Nat
      BY ScanAssumption DEF Inv, ScanTypeOK, TaskRow
    <2>2. tasks'[t] = [state |-> "RUNNING", attempts |-> tasks[t].attempts + 1]
      BY ClaimStep
    <2>3. \A u \in Tasks \ {t} : tasks'[u] = tasks[u]
      BY ClaimStep DEF OnlyTask
    <2>4. QED
      BY <2>1, <2>2, <2>3
  <1>4. ASSUME NEW g \in handlers
        PROVE  HandlerOK(g)' /\ g.call # new.call
    <2>1. /\ g.call[1] \in Tasks /\ g.call[2] \in Nat /\ g.call[2] > 0
          /\ g.call[2] <= tasks[g.call[1]].attempts
      BY TaskOfCall, ScanAssumption
         DEF Inv, ScanTypeOK, Handler, WorkInv, HandlerOK
    <2>2. tasks'[g.call[1]].attempts = 1 => g.call[1] # t
      BY <1>3, <2>1
    <2>3. tasks'[g.call[1]].attempts = 1 => tasks[g.call[1]].attempts = 1
      BY <1>3, <2>1, <2>2
    <2>4. HandlerOK(g)'
      BY <1>2, <2>3, OtherHandler
    <2>5. g.call # new.call
      <3>1. new.call[1] = t /\ new.call[2] = tasks[t].attempts + 1
        BY <1>1
      <3>2. QED
        BY <1>3, <2>1, <3>1
    <2>6. QED
      BY <2>4, <2>5
  <1>5. HandlerOK(new)'
    <2>1. /\ new.call[1] = t /\ new.call[2] = tasks[t].attempts + 1
          /\ new.step = "lock"
      BY <1>1
    <2>2. t[2] = "scan" => t[1] \in Artifacts /\ <<t[1], "scan">> = t
      BY ScanAssumption DEF Tasks
    <2>3. t[2] = "scan" /\ tasks'[t].attempts = 1 => reports'[t[1]] = Nothing
      BY <1>2, <1>3, <2>2 DEF Inv, WorkInv, ReportOK
    <2>4. QED
      BY <1>3, <2>1, <2>3 DEF HandlerOK, SaveReady, Locked
  <1>6. CallsDiffer'
    BY <1>2, <1>4 DEF CallsDiffer, Inv, WorkInv
  <1>7. QED
    BY <1>2, <1>4, <1>5, <1>6 DEF HandlersInv
LEMMA HandlersDie ==
  ASSUME Inv, [ScanNext]_scanVars, NEW w \in ScanWorkers, WorkerDies(w)
  PROVE  HandlersInv'
  <1>1. /\ handlers' = handlers \ Busy(w)
        /\ cache' = cache /\ reports' = reports /\ tasks' = tasks
        /\ \A v \in ScanWorkers \ {w} : mutex'[v] = mutex[v]
    BY DEF WorkerDies, resultVars, Inv, ScanTypeOK
  <1>2. ASSUME NEW g \in handlers' PROVE g \in handlers /\ HandlerOK(g)'
    <2>1. g \in handlers /\ g.worker \in ScanWorkers /\ g.worker # w
      BY <1>1 DEF Busy, Inv, ScanTypeOK, Handler
    <2>2. QED
      BY <1>1, <2>1, OtherHandler
  <1>3. QED
    BY <1>2 DEF HandlersInv, CallsDiffer, Inv, WorkInv

(* A handler that ends. *)
LEMMA HandlersEnd ==
  ASSUME Inv, [ScanNext]_scanVars, NEW h \in handlers,
         Succeed(h) \/ ReportFails(h) \/ ReportLost(h)
  PROVE  HandlersInv'
  <1>1. /\ handlers' = handlers \ {h}
        /\ mutex' = mutex /\ cache' = cache /\ reports' = reports
    BY DEF Succeed, ReportFails, ReportLost, toolVars, resultVars
  <1>2. \A t \in Tasks : tasks'[t].attempts = tasks[t].attempts
    BY SettleStep DEF OnlyTask, ReportLost
  <1>3. \A g \in handlers : g.call[1] \in Tasks
    BY TaskOfCall DEF Inv, ScanTypeOK, Handler
  <1>4. \A g \in handlers : HandlerOK(g)'
    BY <1>1, <1>2, <1>3, OtherHandler
  <1>5. QED
    BY <1>1, <1>4 DEF HandlersInv, CallsDiffer, Inv, WorkInv

(* The next step of a handler, given that it is all right. *)
LEMMA HandlersProceed ==
  ASSUME Inv, [ScanNext]_scanVars, NEW h \in handlers, NEW next,
         Proceeds(h, next), next.call = h.call, tasks' = tasks,
         HandlerOK(next)',
         \A g \in handlers \ {h} :
           /\ g.step \in Locked => mutex'[g.worker] = mutex[g.worker]
           /\ g.step \in {"scan", "version"} =>
                cache'[g.worker] = cache[g.worker],
         \A g \in handlers \ {h} :
           /\ g.call[1][2] = "scan" /\ g.step \notin {"report", "failed"}
           /\ tasks[g.call[1]].attempts = 1
           => reports'[g.call[1][1]] = reports[g.call[1][1]]
  PROVE  HandlersInv'
  <1>1. \A g \in handlers \ {h} : HandlerOK(g)'
    BY OtherHandler
  <1>2. QED
    BY <1>1, ProceedsStep DEF HandlersInv, Inv, WorkInv, Proceeds

(* Only the holder of a lock gives it back. *)
LEMMA OthersLocked ==
  ASSUME Inv, NEW h \in handlers, NEW g \in handlers, g # h,
         g.step \in Locked
  PROVE  /\ mutex[g.worker] = g.call /\ g.call # h.call
         /\ mutex[g.worker] # Nothing
         /\ Unlocked(h) => mutex'[g.worker] = mutex[g.worker]
         /\ h.step \in Locked => g.worker # h.worker
BY NothingAssumption
   DEF Inv, WorkInv, CallsDiffer, HandlerOK, Unlocked, ScanTypeOK, Handler

LEMMA HandlersRun ==
  ASSUME Inv, [ScanNext]_scanVars, NEW h \in handlers,
         \/ LockScanner(h) \/ UpdateDatabase(h) \/ ScanImage(h)
         \/ ReadToolVersion(h) \/ GenerateSBOM(h) \/ Fails(h)
  PROVE  HandlersInv'
  <1>1. /\ HandlerOK(h) /\ h \in Handler /\ h.worker \in ScanWorkers
        /\ h.call \in Calls /\ h.call[1][2] \in {"scan", "sbom"}
    BY TaskOfCall DEF Inv, WorkInv, ScanTypeOK, Handler
  <1>2. \A g \in handlers : g.worker \in ScanWorkers
    BY DEF Inv, ScanTypeOK, Handler
  <1>3. tasks' = tasks /\ reports' = reports /\ sboms' = sboms
    BY TasksUnchanged, ResultsUnchanged
  <1>4. CASE LockScanner(h)
    <2>1. PICK next : next = [h EXCEPT !.step = FirstStep(h)]
      OBVIOUS
    <2>2. /\ next.call = h.call /\ next.worker = h.worker
          /\ next.step = FirstStep(h)
      BY <1>1, <2>1 DEF Handler
    <2>3. /\ mutex'[h.worker] = h.call /\ cache' = cache
          /\ \A v \in ScanWorkers \ {h.worker} : mutex'[v] = mutex[v]
          /\ h.step = "lock"
      BY <1>1, <1>4 DEF LockScanner, Inv, ScanTypeOK
    <2>4. HandlerOK(next)'
      BY <1>1, <1>3, <2>2, <2>3
         DEF HandlerOK, SaveReady, Locked, FirstStep
    <2>5. \A g \in handlers \ {h} : g.step \in Locked => g.worker # h.worker
      BY <1>4, OthersLocked DEF LockScanner
    <2>6. Proceeds(h, next)
      BY <1>4, <2>1 DEF LockScanner
    <2>7. QED
      BY <1>2, <1>3, <2>2, <2>3, <2>4, <2>5, <2>6, HandlersProceed
  <1>5. CASE UpdateDatabase(h)
    <2>1. PICK next : next = [h EXCEPT !.step = "scan"]
      OBVIOUS
    <2>2. /\ next.call = h.call /\ next.worker = h.worker
          /\ next.step = "scan"
      BY <1>1, <2>1 DEF Handler
    <2>3. /\ cache'[h.worker] \in Databases /\ mutex' = mutex
          /\ \A v \in ScanWorkers \ {h.worker} : cache'[v] = cache[v]
          /\ h.step = "update"
      BY <1>1, <1>5 DEF UpdateDatabase, Inv, ScanTypeOK
    <2>4. HandlerOK(next)'
      BY <1>1, <1>3, <2>2, <2>3 DEF HandlerOK, SaveReady, Locked
    <2>5. \A g \in handlers \ {h} : g.step \in Locked => g.worker # h.worker
      BY <2>3, OthersLocked DEF Locked
    <2>6. Proceeds(h, next)
      BY <1>5, <2>1 DEF UpdateDatabase
    <2>7. QED
      BY <1>2, <1>3, <2>2, <2>3, <2>4, <2>5, <2>6, HandlersProceed DEF Locked
  <1>6. CASE ScanImage(h)
    <2>1. PICK next : next = [h EXCEPT !.step = "version",
                                       !.scanned = cache[h.worker]]
      OBVIOUS
    <2>2. /\ next.call = h.call /\ next.worker = h.worker
          /\ next.step = "version" /\ next.scanned = cache[h.worker]
      BY <1>1, <2>1 DEF Handler
    <2>3. mutex' = mutex /\ cache' = cache /\ h.step = "scan"
      BY <1>6 DEF ScanImage, toolVars
    <2>4. HandlerOK(next)'
      BY <1>1, <1>3, <2>2, <2>3 DEF HandlerOK, SaveReady, Locked
    <2>5. Proceeds(h, next)
      BY <1>6, <2>1 DEF ScanImage
    <2>6. QED
      BY <1>3, <2>2, <2>3, <2>4, <2>5, HandlersProceed
  <1>7. CASE ReadToolVersion(h)
    <2>1. PICK next : next = [h EXCEPT !.step = "save",
                                       !.named = cache[h.worker]]
      OBVIOUS
    <2>2. /\ next.call = h.call /\ next.worker = h.worker
          /\ next.step = "save" /\ next.named = cache[h.worker]
          /\ next.scanned = h.scanned
      BY <1>1, <2>1 DEF Handler
    <2>3. cache' = cache /\ h.step = "version" /\ Unlocked(h)
      BY <1>7 DEF ReadToolVersion
    <2>4. HandlerOK(next)'
      BY <1>1, <1>3, <2>2, <2>3 DEF HandlerOK, SaveReady, Locked
    <2>5. Proceeds(h, next)
      BY <1>7, <2>1 DEF ReadToolVersion
    <2>6. QED
      BY <1>3, <2>2, <2>3, <2>4, <2>5, OthersLocked, HandlersProceed
  <1>8. CASE GenerateSBOM(h)
    <2>1. PICK next : next = [h EXCEPT !.step = "save"]
      OBVIOUS
    <2>2. /\ next.call = h.call /\ next.worker = h.worker
          /\ next.step = "save"
      BY <1>1, <2>1 DEF Handler
    <2>3. cache' = cache /\ h.step = "generate" /\ Unlocked(h)
      BY <1>8 DEF GenerateSBOM
    <2>4. HandlerOK(next)'
      BY <1>1, <1>3, <2>2, <2>3 DEF HandlerOK, SaveReady, Locked
    <2>5. Proceeds(h, next)
      BY <1>8, <2>1 DEF GenerateSBOM
    <2>6. QED
      BY <1>3, <2>2, <2>3, <2>4, <2>5, OthersLocked, HandlersProceed
  <1>9. CASE Fails(h)
    <2>1. PICK next : next = [h EXCEPT !.step = "failed", !.scanned = 0,
                                       !.named = 0]
      OBVIOUS
    <2>2. /\ next.call = h.call /\ next.worker = h.worker
          /\ next.step = "failed"
      BY <1>1, <2>1 DEF Handler
    <2>3. cache' = cache /\ Unlocked(h)
      BY <1>9 DEF Fails
    <2>4. HandlerOK(next)'
      BY <1>1, <1>3, <2>2, <2>3 DEF HandlerOK, SaveReady, Locked
    <2>5. Proceeds(h, next)
      BY <1>9, <2>1 DEF Fails
    <2>6. QED
      BY <1>3, <2>2, <2>3, <2>4, <2>5, OthersLocked, HandlersProceed
  <1>10. QED
    BY <1>4, <1>5, <1>6, <1>7, <1>8, <1>9

LEMMA HandlersSave ==
  ASSUME Inv, [ScanNext]_scanVars, NEW h \in handlers,
         SaveScanResult(h) \/ SaveSBOMResult(h)
  PROVE  HandlersInv'
  <1>1. /\ HandlerOK(h) /\ h \in Handler /\ h.call \in Calls
        /\ h.call[2] \in 1..ScanAttempts
    BY TaskOfCall DEF Inv, WorkInv, ScanTypeOK, Handler
  <1>2. mutex' = mutex /\ cache' = cache
    BY DEF SaveScanResult, SaveSBOMResult, toolVars
  <1>3. CASE SaveScanResult(h)
    <2>1. PICK next : next = [h EXCEPT !.step = "report", !.scanned = 0,
                                       !.named = 0]
      OBVIOUS
    <2>2. /\ next.call = h.call /\ next.worker = h.worker
          /\ next.step = "report"
      BY <1>1, <2>1 DEF Handler
    <2>3. /\ h.call[1][2] = "scan" /\ tasks' = tasks
          /\ reports'[h.call[1][1]] # Nothing
          /\ \A b \in Artifacts \ {h.call[1][1]} : reports'[b] = reports[b]
      BY <1>3, SaveScanStep DEF SaveScanResult
    <2>4. HandlerOK(next)'
      BY <1>1, <2>2, <2>3 DEF HandlerOK, SaveReady, Saved, Locked
    <2>5. Proceeds(h, next)
      BY <1>3, <2>1 DEF SaveScanResult
    <2>6. ASSUME NEW g \in handlers \ {h},
                 g.call[1][2] = "scan", tasks[g.call[1]].attempts = 1
          PROVE  reports'[g.call[1][1]] = reports[g.call[1][1]]
      <3>1. /\ HandlerOK(g) /\ g.call \in Calls /\ g.call # h.call
        BY DEF Inv, WorkInv, ScanTypeOK, Handler, CallsDiffer
      <3>2. /\ g.call[2] \in 1..ScanAttempts /\ g.call[2] <= 1
            /\ g.call = <<g.call[1], g.call[2]>>
            /\ h.call = <<h.call[1], h.call[2]>>
            /\ g.call[1] = <<g.call[1][1], "scan">>
            /\ h.call[1] = <<h.call[1][1], "scan">>
            /\ g.call[1][1] \in Artifacts
        BY <1>1, <2>3, <2>6, <3>1, TaskOfCall DEF HandlerOK
      <3>3. ASSUME g.call[1][1] = h.call[1][1] PROVE FALSE
        <4>1. g.call[1] = h.call[1]
          BY <3>2, <3>3
        <4>2. h.call[2] <= 1
          BY <1>1, <2>6, <4>1 DEF HandlerOK
        <4>3. g.call[2] = h.call[2]
          BY <1>1, <3>2, <4>2, ScanAssumption
        <4>4. QED
          BY <3>1, <3>2, <4>1, <4>3
      <3>4. QED
        BY <2>3, <3>2, <3>3
    <2>7. QED
      BY <1>2, <2>2, <2>3, <2>4, <2>5, <2>6, HandlersProceed
  <1>4. CASE SaveSBOMResult(h)
    <2>1. PICK next : next = [h EXCEPT !.step = "report"]
      OBVIOUS
    <2>2. /\ next.call = h.call /\ next.worker = h.worker
          /\ next.step = "report"
      BY <1>1, <2>1 DEF Handler
    <2>3. /\ h.call[1][2] = "sbom" /\ tasks' = tasks /\ reports' = reports
          /\ sboms'[h.call[1][1]] # Nothing
      BY <1>4, SaveSBOMStep DEF SaveSBOMResult
    <2>4. HandlerOK(next)'
      BY <1>1, <2>2, <2>3 DEF HandlerOK, SaveReady, Saved, Locked
    <2>5. Proceeds(h, next)
      BY <1>4, <2>1 DEF SaveSBOMResult
    <2>6. QED
      BY <1>2, <2>2, <2>3, <2>4, <2>5, HandlersProceed
  <1>5. QED
    BY <1>3, <1>4

LEMMA WorkStep == Inv /\ [ScanNext]_scanVars => WorkInv'
  <1> SUFFICES ASSUME Inv, [ScanNext]_scanVars PROVE HandlersInv'
    BY TasksStep, ReportsStep DEF WorkInv, HandlersInv
  <1>1. ASSUME NEW a \in Artifacts, EnsureTasks(a) PROVE HandlersInv'
    <2>1. \A t \in Tasks : tasks'[t].attempts = tasks[t].attempts
      BY <1>1, EnsureStep DEF QueuePair
    <2>2. QED
      BY <1>1, <2>1, HandlersStay DEF EnsureTasks, toolVars, resultVars
  <1>2. ASSUME NEW t \in Tasks, BuryTask(t) PROVE HandlersInv'
    <2>1. \A u \in Tasks : tasks'[u].attempts = tasks[u].attempts
      BY <1>2, BuryStep DEF OnlyTask
    <2>2. QED
      BY <1>2, <2>1, HandlersStay DEF BuryTask, toolVars, resultVars
  <1>3. CASE Publish
    BY <1>3, HandlersStay DEF Publish, resultVars
  <1>4. CASE AskResults \/ AskTool \/ CountFindings
             \/ \E a \in ReadArtifacts : AskJobs(a)
    BY <1>4, HandlersStay
       DEF AskResults, AskTool, CountFindings, AskJobs, Asks, toolVars,
           resultVars
  <1>5. CASE UNCHANGED scanVars
    BY <1>5, HandlersStay DEF scanVars, toolVars, resultVars
  <1>6. QED
    BY <1>1, <1>2, <1>3, <1>4, <1>5, HandlersClaim, HandlersDie, HandlersEnd,
       HandlersRun, HandlersSave DEF ScanNext, Handle

-----------------------------------------------------------------------------
(* The reader.  What it has read stays true while others move.             *)
LEMMA ReaderWaits ==
  ASSUME Inv, [ScanNext]_scanVars, detail' = detail
  PROVE  ReaderKnows' /\ DetailTrue'
  <1> DEFINE a == detail.artifact
  <1>1. Grows /\ detail \in Detail /\ ReaderKnows /\ DetailTrue
    BY StepGrows DEF Inv, ScanTypeOK
  <1>2. /\ tool.database \in Nat /\ tool'.database \in Nat
        /\ detail.since \in Nat
    BY TypeStep, DatabaseIsNat DEF Inv, ScanTypeOK, Detail
  <1>3. a \in ReadArtifacts =>
          /\ a \in Artifacts /\ <<a, "scan">> \in Tasks
          /\ tasks[<<a, "scan">>].attempts \in Nat
          /\ tasks'[<<a, "scan">>].attempts \in Nat
    BY TypeStep, ScanAssumption DEF Inv, ScanTypeOK, TaskRow, Tasks
  <1>4. detail.report # Nothing => detail.report.database \in Nat
    BY DatabaseIsNat DEF Inv, ScanTypeOK, Detail, Report
  <1>5. detail.step \in {"tool", "counts"} /\ detail.report # Nothing =>
          /\ reports'[a] # Nothing
          /\ detail.report = reports'[a] \/ tasks'[<<a, "scan">>].attempts > 1
    <2>1. SUFFICES ASSUME detail.step \in {"tool", "counts"},
                          detail.report # Nothing
                   PROVE  /\ reports'[a] # Nothing
                          /\ \/ detail.report = reports'[a]
                             \/ tasks'[<<a, "scan">>].attempts > 1
      OBVIOUS
    <2>2. /\ a \in ReadArtifacts /\ reports[a] # Nothing
          /\ \/ detail.report = reports[a]
             \/ tasks[<<a, "scan">>].attempts > 1
      BY <1>1, <2>1 DEF ReaderKnows
    <2>3. tasks'[<<a, "scan">>].attempts >= tasks[<<a, "scan">>].attempts
      BY <1>1, <1>3, <2>2 DEF Grows
    <2>4. /\ reports'[a] # Nothing
          /\ reports'[a] = reports[a] \/ tasks[<<a, "scan">>].attempts > 1
      BY <1>1, <1>3, <2>2 DEF Grows
    <2> HIDE DEF a
    <2>5. QED
      BY <1>3, <2>2, <2>3, <2>4
  <1>6. ReaderKnows'
    <2>1. detail.step = "results" =>
            /\ detail.scanState = "SUCCEEDED" => reports'[a] # Nothing
            /\ detail.sbomState = "SUCCEEDED" =>
                 a \in SBOMArtifacts /\ sboms'[a] # Nothing
      BY <1>1, <1>3 DEF ReaderKnows, Grows
    <2>2. /\ detail.step \in {"results", "tool"} =>
               detail.since <= tool'.database
          /\ detail.step \in {"tool", "counts"} /\ detail.report # Nothing =>
               detail.report.database <= tool'.database
      BY <1>1, <1>2, <1>4 DEF ReaderKnows, Grows
    <2>3. QED
      BY <1>1, <1>5, <2>1, <2>2 DEF ReaderKnows
  <1>7. CountsMatch'
    <2>1. CASE detail.step = "done" /\ detail.report # Nothing
      <3>1. detail.artifact \in ReadArtifacts /\ CountsMatch
        BY <1>1, <2>1 DEF ReaderKnows, DetailTrue
      <3>2. tasks'[<<a, "scan">>].attempts >= tasks[<<a, "scan">>].attempts
        BY <1>1, <1>3, <3>1 DEF Grows
      <3>3. QED
        BY <1>3, <2>1, <3>1, <3>2 DEF CountsMatch
    <2>2. QED
      BY <2>1 DEF CountsMatch
  <1>8. QED
    BY <1>1, <1>6, <1>7 DEF DetailTrue, CompletedIsFresh, ResultKept

LEMMA NewestBelow == Inv => NewestReported <= tool.database
  <1> SUFFICES ASSUME Inv PROVE NewestReported <= tool.database
    OBVIOUS
  <1>1. tool.database \in Nat
    BY DatabaseIsNat DEF Inv, ScanTypeOK
  <1>2. \/ NewestReported = 0
        \/ \E a \in Artifacts :
             reports[a] # Nothing /\ reports[a].database = NewestReported
    BY NewestExists DEF Inv
  <1>3. ASSUME NEW a \in Artifacts, reports[a] # Nothing,
               reports[a].database = NewestReported
        PROVE  NewestReported <= tool.database
    BY <1>3 DEF Inv, WorkInv, ReportOK
  <1>4. QED
    BY <1>1, <1>2, <1>3

LEMMA StatusMeans ==
  ASSUME NEW state \in JobStates \ {"ABSENT"},
         NEW present \in BOOLEAN, NEW stale \in BOOLEAN
  PROVE  /\ ResultStatusFromJob(state, present, stale) = "RESULT_MISSING" =>
              state = "SUCCEEDED" /\ ~present
         /\ ResultStatusFromJob(state, present, stale) = "COMPLETED" =>
              present /\ ~stale
BY DEF ResultStatusFromJob, JobStates

LEMMA ReaderAsksJobs ==
  ASSUME Inv, [ScanNext]_scanVars, NEW a \in ReadArtifacts, AskJobs(a)
  PROVE  ReaderKnows' /\ DetailTrue'
  <1>1. /\ <<a, "scan">> \in Tasks /\ a \in Artifacts
        /\ a \in SBOMArtifacts => <<a, "sbom">> \in Tasks
    BY ScanAssumption DEF Tasks
  <1>2. /\ TaskOK(<<a, "scan">>)
        /\ a \in SBOMArtifacts => TaskOK(<<a, "sbom">>)
    BY <1>1 DEF Inv, WorkInv
  <1>3. /\ detail.step = "idle" /\ detail \in Detail
        /\ detail.scanStatus = "NONE" /\ detail.sbomStatus = "NONE"
    BY DEF AskJobs, Asks, Inv, ReaderKnows, ScanTypeOK
  <1>4. /\ tasks' = tasks /\ reports' = reports /\ sboms' = sboms
        /\ tool' = tool
    BY DEF AskJobs, Asks, resultVars
  <1>5. /\ detail'.step = "results" /\ detail'.artifact = a
        /\ detail'.since = NewestReported
        /\ detail'.scanState = tasks[<<a, "scan">>].state
        /\ detail'.sbomState = IF a \in SBOMArtifacts
                               THEN tasks[<<a, "sbom">>].state ELSE "QUEUED"
        /\ detail'.scanStatus = "NONE" /\ detail'.sbomStatus = "NONE"
    BY <1>3 DEF AskJobs, Asks, Detail
  <1>6. /\ detail'.scanState # "ABSENT"
        /\ detail'.scanState = "SUCCEEDED" => reports[a] # Nothing
    BY <1>2, <1>5 DEF AskJobs, TaskOK, Saved
  <1>7. /\ detail'.sbomState # "ABSENT"
        /\ detail'.sbomState = "SUCCEEDED" =>
             a \in SBOMArtifacts /\ sboms[a] # Nothing
    BY <1>2, <1>5 DEF AskJobs, TaskOK, Saved
  <1>8. ReaderKnows'
    BY <1>4, <1>5, <1>6, <1>7, NewestBelow DEF ReaderKnows
  <1>9. QED
    BY <1>5, <1>8
       DEF DetailTrue, CompletedIsFresh, ResultKept, CountsMatch

LEMMA ReaderAsksResults ==
  ASSUME Inv, [ScanNext]_scanVars, AskResults
  PROVE  ReaderKnows' /\ DetailTrue'
  <1> DEFINE a == detail.artifact
  <1>1. /\ detail.step = "results" /\ detail \in Detail
        /\ a \in Artifacts /\ <<a, "scan">> \in Tasks
        /\ ReportOK(a)
    BY ScanAssumption
       DEF AskResults, Asks, Inv, WorkInv, ReaderKnows, ScanTypeOK, Tasks
  <1>2. /\ tasks' = tasks /\ reports' = reports /\ sboms' = sboms
        /\ tool' = tool
    BY DEF AskResults, Asks, resultVars
  <1>3. /\ detail'.step = "tool" /\ detail'.artifact = a
        /\ detail'.since = detail.since
        /\ detail'.scanState = detail.scanState
        /\ detail'.sbomState = detail.sbomState
        /\ detail'.scanStatus = detail.scanStatus
        /\ detail'.sbomStatus = detail.sbomStatus
        /\ detail'.report = reports[a]
        /\ detail'.sbom = IF a \in SBOMArtifacts THEN sboms[a] ELSE Nothing
    BY <1>1 DEF AskResults, Asks, Detail
  <1>4. ReaderKnows'
    BY <1>1, <1>2, <1>3 DEF Inv, ReaderKnows, ReportOK
  <1>5. QED
    BY <1>3, <1>4
       DEF Inv, DetailTrue, CompletedIsFresh, ResultKept, CountsMatch,
           ReaderKnows

LEMMA ReaderAsksTool ==
  ASSUME Inv, [ScanNext]_scanVars, AskTool
  PROVE  ReaderKnows' /\ DetailTrue'
  <1> DEFINE scan == ResultStatusFromJob(detail.scanState,
                       detail.report # Nothing, ScanStale(detail.report))
             sbom == ResultStatusFromJob(detail.sbomState,
                       detail.sbom # Nothing, SBOMStale(detail.sbom))
  <1>1. /\ detail.step = "tool" /\ detail \in Detail
        /\ detail.artifact \in ReadArtifacts
        /\ detail.scanState \in JobStates \ {"ABSENT"}
        /\ detail.sbomState \in JobStates \ {"ABSENT"}
        /\ detail.since <= tool.database
        /\ detail.scanState = "SUCCEEDED" => detail.report # Nothing
        /\ detail.sbomState = "SUCCEEDED" => detail.sbom # Nothing
    BY DEF AskTool, Asks, Inv, ReaderKnows, ScanTypeOK, Detail
  <1>2. /\ tasks' = tasks /\ reports' = reports /\ tool' = tool
    BY DEF AskTool, Asks, resultVars
  <1>3. scan # "RESULT_MISSING" /\ sbom # "RESULT_MISSING"
    <2>1. ScanStale(detail.report) \in BOOLEAN /\ SBOMStale(detail.sbom) \in BOOLEAN
      BY DEF ScanStale, SBOMStale
    <2>2. QED
      BY <1>1, <2>1, StatusMeans
  <1>4. scan = "COMPLETED" =>
          detail.report # Nothing /\ detail.report.database >= detail.since
    <2>1. ScanStale(detail.report) \in BOOLEAN
      BY DEF ScanStale
    <2>2. scan = "COMPLETED" =>
            detail.report # Nothing /\ ~ScanStale(detail.report)
      BY <1>1, <2>1, StatusMeans
    <2>3. ASSUME detail.report # Nothing, ~ScanStale(detail.report)
          PROVE  detail.report.database >= detail.since
      <3>1. /\ detail.report \in Report /\ detail.report.database \in Databases
            /\ detail.report.database <= tool.database
        BY <1>1, <2>3 DEF Detail, Report, Inv, ReaderKnows
      <3>2. /\ detail.report.database \in Nat /\ detail.report.database # 0
            /\ tool.database \in Nat /\ detail.since \in Nat
        BY <1>1, <3>1, DatabaseIsNat DEF Inv, ScanTypeOK, Detail
      <3>3. ~(detail.report.database < tool.database)
        BY <2>3, <3>1, <3>2 DEF ScanStale
      <3>4. QED
        BY <1>1, <3>1, <3>2, <3>3
    <2> HIDE DEF scan
    <2>4. QED
      BY <2>2, <2>3
  <1>5. detail' = [detail EXCEPT
          !.step = IF detail.report = Nothing THEN "done" ELSE "counts",
          !.scanState = "ABSENT", !.sbomState = "ABSENT", !.sbom = Nothing,
          !.scanStatus = scan, !.sbomStatus = sbom]
    BY DEF AskTool, Asks
  <1> HIDE DEF scan, sbom
  <1>6. /\ detail'.step = IF detail.report = Nothing THEN "done" ELSE "counts"
        /\ detail'.artifact = detail.artifact
        /\ detail'.since = detail.since
        /\ detail'.report = detail.report
        /\ detail'.scanStatus = scan /\ detail'.sbomStatus = sbom
    BY <1>1, <1>5 DEF Detail
  <1>7. ReaderKnows'
    BY <1>1, <1>2, <1>6 DEF Inv, ReaderKnows
  <1>8. DetailTrue'
    BY <1>3, <1>4, <1>6
       DEF DetailTrue, CompletedIsFresh, ResultKept, CountsMatch
  <1>9. QED
    BY <1>7, <1>8

LEMMA ReaderCounts ==
  ASSUME Inv, [ScanNext]_scanVars, CountFindings
  PROVE  ReaderKnows' /\ DetailTrue'
  <1> DEFINE a == detail.artifact
  <1>1. /\ detail.step = "counts" /\ detail \in Detail
        /\ a \in ReadArtifacts /\ detail.report # Nothing
        /\ detail.report = reports[a] \/ tasks[<<a, "scan">>].attempts > 1
    BY DEF CountFindings, Asks, Inv, ReaderKnows, ScanTypeOK
  <1>2. tasks' = tasks
    BY DEF CountFindings, Asks
  <1>3. /\ detail'.step = "done" /\ detail'.artifact = a
        /\ detail'.since = detail.since
        /\ detail'.report = detail.report
        /\ detail'.scanStatus = detail.scanStatus
        /\ detail'.sbomStatus = detail.sbomStatus
        /\ detail'.counted = reports[a].findings
    BY <1>1 DEF CountFindings, Asks, Detail
  <1>4. ReaderKnows'
    BY <1>1, <1>3 DEF ReaderKnows
  <1>5. CountsMatch'
    BY <1>1, <1>2, <1>3 DEF CountsMatch
  <1>6. QED
    BY <1>3, <1>4, <1>5 DEF Inv, DetailTrue, CompletedIsFresh, ResultKept

LEMMA ReaderStep ==
  Inv /\ [ScanNext]_scanVars => ReaderKnows' /\ DetailTrue'
  <1> SUFFICES ASSUME Inv, [ScanNext]_scanVars
               PROVE  ReaderKnows' /\ DetailTrue'
    OBVIOUS
  <1>1. CASE detail' = detail
    BY <1>1, ReaderWaits
  <1>2. \/ detail' = detail
        \/ AskResults \/ AskTool \/ CountFindings
        \/ \E a \in ReadArtifacts : AskJobs(a)
    BY DEF ScanNext, Handle, Publish, EnsureTasks, BuryTask, ClaimTask,
           WorkerDies, LockScanner, UpdateDatabase, ScanImage,
           ReadToolVersion, GenerateSBOM, Fails, SaveScanResult,
           SaveSBOMResult, Succeed, ReportFails, ReportLost, scanVars
  <1>3. QED
    BY <1>1, <1>2, ReaderAsksJobs, ReaderAsksResults, ReaderAsksTool,
       ReaderCounts

-----------------------------------------------------------------------------
LEMMA InvInit == ScanInit => Inv
  <1> SUFFICES ASSUME ScanInit PROVE Inv
    OBVIOUS
  <1>1. ScanTypeOK
    BY TypeInit
  <1>2. ASSUME NEW t \in Tasks PROVE TaskOK(t)
    <2>1. t[2] = "sbom" => <<t[1], "scan">> \in Tasks
      BY ScanAssumption DEF Tasks
    <2>2. QED
      BY <2>1 DEF ScanInit, TaskOK
  <1>3. WorkInv
    BY <1>2 DEF ScanInit, WorkInv, CallsDiffer, ReportOK
  <1>4. ReaderKnows /\ DetailTrue
    BY DEF ScanInit, NoDetail, ReaderKnows, DetailTrue, CompletedIsFresh,
           ResultKept, CountsMatch
  <1>5. QED
    BY <1>1, <1>3, <1>4 DEF Inv

LEMMA InvStep == Inv /\ [ScanNext]_scanVars => Inv'
BY TypeStep, WorkStep, ReaderStep DEF Inv

LEMMA Invariance == ScanSpec => []Inv
BY InvInit, InvStep, PTL DEF ScanSpec

(***************************************************************************)
(* Every variable of scans, SBOMs, tool state and reader keeps its type.   *)
(***************************************************************************)
THEOREM ScanTypes == ScanSpec => []ScanTypeOK
BY Invariance, PTL DEF Inv

(***************************************************************************)
(* However scans of one cache interleave, and whichever execution, leased  *)
(* or not, saves last: a stored report names the database it was made with *)
(* and holds its own findings.                                             *)
(***************************************************************************)
THEOREM ReportsTruthful == ScanSpec => []ReportTruthful
  <1>1. Inv => ReportTruthful
    BY DEF Inv, WorkInv, ReportOK, ReportTruthful
  <1>2. QED
    BY <1>1, Invariance, PTL

(***************************************************************************)
(* No interleaving of the reader's four queries with workers that claim,   *)
(* save, report, die or outlive their leases shows an outdated scan as     *)
(* COMPLETED, a succeeded job without its result, or, unless the job was   *)
(* started twice, the counts of another version.                           *)
(***************************************************************************)
THEOREM DetailsTrue == ScanSpec => []DetailTrue
BY Invariance, PTL DEF Inv

(***************************************************************************)
(* The recorded database of the tool never goes back, in whatever order    *)
(* executions with older and newer ones save.                              *)
(***************************************************************************)
THEOREM ToolNeverGoesBack == ScanSpec => ToolStateMonotone
  <1>1. Inv /\ [ScanNext]_scanVars => [tool'.database >= tool.database]_tool
    BY StepGrows DEF Grows
  <1>2. QED
    BY <1>1, Invariance, PTL DEF ScanSpec, ToolStateMonotone

-----------------------------------------------------------------------------
LEMMA EngineInit == ScanInit => ScanEngine!Init
BY DEF ScanInit, ScanEngine!Init

(* Every row makes one of the engine's steps or none, and at most one is   *)
(* started.                                                                *)
LEMMA EngineStep ==
  Inv /\ [ScanNext]_scanVars => [ScanEngine!Next]_ScanEngine!vars
  <1> SUFFICES ASSUME Inv, [ScanNext]_scanVars
               PROVE  [ScanEngine!Next]_ScanEngine!vars
    OBVIOUS
  <1>1. ASSUME NEW t \in Tasks
        PROVE  /\ tasks[t].attempts \in Nat
               /\ tasks[t].state = "ABSENT" => tasks[t].attempts = 0
               /\ t[2] \in {"scan", "sbom"} /\ t = <<t[1], t[2]>>
    <2>1. tasks[t] \in TaskRow /\ TaskOK(t)
      BY DEF Inv, WorkInv, ScanTypeOK
    <2>2. t[2] \in {"scan", "sbom"} /\ t = <<t[1], t[2]>>
      BY DEF Tasks
    <2>3. QED
      BY <2>1, <2>2, ScanAssumption DEF TaskRow, TaskOK
  <1>2. CASE tasks' = tasks
    BY <1>2 DEF ScanEngine!vars
  <1>3. ASSUME NEW t \in Tasks, OnlyTask(t) PROVE ScanEngine!Next
    <2>1. \/ ScanEngine!Enqueue(t) \/ ScanEngine!Start(t)
          \/ ScanEngine!Succeed(t) \/ ScanEngine!Requeue(t)
          \/ ScanEngine!Die(t) \/ ScanEngine!Stay(t)
      BY <1>1, <1>3
         DEF OnlyTask, TaskStep, ScanEngine!Enqueue, ScanEngine!Start,
             ScanEngine!Succeed, ScanEngine!Requeue, ScanEngine!Die,
             ScanEngine!Stay
    <2>2. \A u \in Tasks \ {t} : ScanEngine!Stay(u)
      BY <1>3 DEF OnlyTask, ScanEngine!Stay
    <2>3. \A u \in Tasks \ {t} : ~ScanEngine!Start(u)
      BY <1>1, <1>3 DEF OnlyTask, ScanEngine!Start
    <2>4. QED
      BY <2>1, <2>2, <2>3 DEF ScanEngine!Next
  <1>4. ASSUME NEW a \in Artifacts, QueuePair(a) PROVE ScanEngine!Next
    <2>1. ASSUME NEW t \in Tasks
          PROVE  /\ ScanEngine!Enqueue(t) \/ ScanEngine!Stay(t)
                 /\ ~ScanEngine!Start(t)
      <3>1. CASE t[1] = a
        <4>1. tasks[t].state = "ABSENT"
          BY <1>1, <1>4, <3>1 DEF QueuePair, Inv, WorkInv, TaskOK
        <4>2. tasks'[t].state = "QUEUED" /\ tasks'[t].attempts = tasks[t].attempts
          BY <1>4, <3>1 DEF QueuePair
        <4>3. QED
          BY <1>1, <4>1, <4>2 DEF ScanEngine!Enqueue, ScanEngine!Start
      <3>2. CASE t[1] # a
        BY <1>1, <1>4, <3>2 DEF QueuePair, ScanEngine!Stay, ScanEngine!Start
      <3>3. QED
        BY <3>1, <3>2
    <2>2. QED
      BY <2>1 DEF ScanEngine!Next
  <1>5. QED
    BY <1>2, <1>3, <1>4, TasksMove

(***************************************************************************)
(* The scan and SBOM jobs behave as the job engine promises, so what       *)
(* JobWorkerProofs proves of the engine's promise holds for them.          *)
(***************************************************************************)
THEOREM ScansImplementLifecycle == ScanSpec => ScansFollowLifecycle
  <1>1. Inv /\ [ScanNext]_scanVars => [ScanEngine!Next]_ScanEngine!vars
    BY EngineStep
  <1>2. QED
    BY <1>1, EngineInit, Invariance, PTL
       DEF ScanSpec, ScansFollowLifecycle, ScanEngine!Spec
-----------------------------------------------------------------------------
(* The handler calls behave as module JobExecutions says. *)
UnderWay == {h.call : h \in handlers}
Finished == {h.call : h \in {g \in handlers : g.step = "report"}}

(* What a step has to do for its jobs and calls to be a step there: to     *)
(* decide nothing of a job, or to end the call it decides by; to start a   *)
(* call only with its attempt; and to finish only calls under way.         *)
Undecided(t) ==
  ~ /\ tasks[t].state = "RUNNING"
    /\ \/ tasks'[t].state \in {"SUCCEEDED", "QUEUED"}
       \/ tasks'[t].state = "DEAD" /\ tasks[t].attempts < ScanAttempts

SettledByReport(t) ==
  /\ <<t, tasks[t].attempts>> \in UnderWay \ UnderWay'
  /\ tasks'[t].state = "SUCCEEDED" => <<t, tasks[t].attempts>> \in Finished

StartsCall(t) ==
  /\ tasks[t].state \in {"QUEUED", "RUNNING"} /\ tasks'[t].state = "RUNNING"
  /\ tasks[t].attempts < ScanAttempts
  /\ tasks'[t].attempts = tasks[t].attempts + 1

OnlyStarts ==
  \A x \in UnderWay' \ UnderWay :
    \E t \in Tasks : StartsCall(t) /\ x = <<t, tasks'[t].attempts>>

FinishedGrows ==
  /\ Finished' \subseteq Finished \cup UnderWay
  /\ Finished \cap UnderWay' \subseteq Finished'

LEMMA ExecutionsFrom ==
  ASSUME [ScanEngine!Next]_ScanEngine!vars,
         \A t \in Tasks : Undecided(t) \/ SettledByReport(t),
         OnlyStarts, FinishedGrows
  PROVE  ScanEngine!ExecNext
  <1>1. ASSUME NEW t \in Tasks, ScanEngine!Decided(t) PROVE ScanEngine!Settles(t)
    <2>1. ~Undecided(t)
      BY <1>1 DEF ScanEngine!Decided, Undecided
    <2>2. SettledByReport(t)
      BY <2>1
    <2>3. QED
      BY <2>2 DEF SettledByReport, ScanEngine!Settles, ScanEngine!Newest,
                  UnderWay, Finished
  <1>2. ASSUME NEW x \in UnderWay' \ UnderWay
        PROVE  \E t \in Tasks :
                 /\ ScanEngine!Start(t)
                 /\ x = <<t, ([u \in Tasks |-> tasks[u].attempts])'[t]>>
    <2>1. PICK t \in Tasks : StartsCall(t) /\ x = <<t, tasks'[t].attempts>>
      BY <1>2 DEF OnlyStarts
    <2>2. ScanEngine!Start(t)
      BY <2>1 DEF StartsCall, ScanEngine!Start
    <2>3. QED
      BY <2>1, <2>2
  <1>3. QED
    BY <1>1, <1>2 DEF ScanEngine!ExecNext, FinishedGrows, Finished, UnderWay

(* Calls that end ... *)
LEMMA CallsEnd ==
  ASSUME CallsDiffer, handlers' \subseteq handlers
  PROVE  OnlyStarts /\ FinishedGrows
  <1>1. UnderWay' \subseteq UnderWay
    BY DEF UnderWay
  <1>2. Finished' \subseteq UnderWay
    BY DEF Finished, UnderWay
  <1>3. ASSUME NEW x \in Finished, x \in UnderWay' PROVE x \in Finished'
    <2>1. PICK g \in handlers : g.step = "report" /\ x = g.call
      BY DEF Finished
    <2>2. PICK h \in handlers' : x = h.call
      BY <1>3 DEF UnderWay
    <2>3. g = h
      BY <2>1, <2>2 DEF CallsDiffer
    <2>4. QED
      BY <2>1, <2>2, <2>3 DEF Finished
  <1>4. QED
    BY <1>1, <1>2, <1>3 DEF OnlyStarts, FinishedGrows

(* ... and calls that go on. *)
LEMMA CallsProceed ==
  ASSUME NEW h \in handlers, NEW next, Proceeds(h, next),
         next.call = h.call, h.step # "report"
  PROVE  OnlyStarts /\ FinishedGrows
  <1>1. UnderWay' \subseteq UnderWay
    BY DEF UnderWay, Proceeds
  <1>2. Finished' \subseteq UnderWay
    BY DEF Finished, UnderWay, Proceeds
  <1>3. ASSUME NEW x \in Finished PROVE x \in Finished'
    <2>1. PICK g \in handlers : g.step = "report" /\ x = g.call
      BY DEF Finished
    <2>2. g \in handlers'
      BY <2>1 DEF Proceeds
    <2>3. QED
      BY <2>1, <2>2 DEF Finished
  <1>4. QED
    BY <1>1, <1>2, <1>3 DEF OnlyStarts, FinishedGrows

LEMMA CallsOf ==
  ASSUME Inv, NEW h \in handlers,
         \/ LockScanner(h) \/ UpdateDatabase(h) \/ ScanImage(h)
         \/ ReadToolVersion(h) \/ GenerateSBOM(h) \/ Fails(h)
         \/ SaveScanResult(h) \/ SaveSBOMResult(h)
  PROVE  OnlyStarts /\ FinishedGrows
  <1>1. h \in Handler
    BY DEF Inv, ScanTypeOK
  <1>2. CASE LockScanner(h)
    <2> DEFINE next == [h EXCEPT !.step = FirstStep(h)]
    <2>1. next.call = h.call
      BY <1>1 DEF Handler
    <2>2. Proceeds(h, next) /\ h.step # "report"
      BY <1>2 DEF LockScanner
    <2> HIDE DEF next
    <2>3. QED
      BY <2>1, <2>2, CallsProceed
  <1>3. CASE UpdateDatabase(h)
    <2> DEFINE next == [h EXCEPT !.step = "scan"]
    <2>1. next.call = h.call
      BY <1>1 DEF Handler
    <2>2. Proceeds(h, next) /\ h.step # "report"
      BY <1>3 DEF UpdateDatabase
    <2> HIDE DEF next
    <2>3. QED
      BY <2>1, <2>2, CallsProceed
  <1>4. CASE ScanImage(h)
    <2> DEFINE next == [h EXCEPT !.step = "version", !.scanned = cache[h.worker]]
    <2>1. next.call = h.call
      BY <1>1 DEF Handler
    <2>2. Proceeds(h, next) /\ h.step # "report"
      BY <1>4 DEF ScanImage
    <2> HIDE DEF next
    <2>3. QED
      BY <2>1, <2>2, CallsProceed
  <1>5. CASE ReadToolVersion(h)
    <2> DEFINE next == [h EXCEPT !.step = "save", !.named = cache[h.worker]]
    <2>1. next.call = h.call
      BY <1>1 DEF Handler
    <2>2. Proceeds(h, next) /\ h.step # "report"
      BY <1>5 DEF ReadToolVersion
    <2> HIDE DEF next
    <2>3. QED
      BY <2>1, <2>2, CallsProceed
  <1>6. CASE GenerateSBOM(h)
    <2> DEFINE next == [h EXCEPT !.step = "save"]
    <2>1. next.call = h.call
      BY <1>1 DEF Handler
    <2>2. Proceeds(h, next) /\ h.step # "report"
      BY <1>6 DEF GenerateSBOM
    <2> HIDE DEF next
    <2>3. QED
      BY <2>1, <2>2, CallsProceed
  <1>7. CASE Fails(h)
    <2> DEFINE next == [h EXCEPT !.step = "failed", !.scanned = 0, !.named = 0]
    <2>1. next.call = h.call
      BY <1>1 DEF Handler
    <2>2. Proceeds(h, next) /\ h.step # "report"
      BY <1>7 DEF Fails
    <2> HIDE DEF next
    <2>3. QED
      BY <2>1, <2>2, CallsProceed
  <1>8. CASE SaveScanResult(h)
    <2> DEFINE next == [h EXCEPT !.step = "report", !.scanned = 0, !.named = 0]
    <2>1. next.call = h.call
      BY <1>1 DEF Handler
    <2>2. Proceeds(h, next) /\ h.step # "report"
      BY <1>8 DEF SaveScanResult
    <2> HIDE DEF next
    <2>3. QED
      BY <2>1, <2>2, CallsProceed
  <1>9. CASE SaveSBOMResult(h)
    <2> DEFINE next == [h EXCEPT !.step = "report"]
    <2>1. next.call = h.call
      BY <1>1 DEF Handler
    <2>2. Proceeds(h, next) /\ h.step # "report"
      BY <1>9 DEF SaveSBOMResult
    <2> HIDE DEF next
    <2>3. QED
      BY <2>1, <2>2, CallsProceed
  <1>10. QED
    BY <1>2, <1>3, <1>4, <1>5, <1>6, <1>7, <1>8, <1>9

(* The report decides what becomes of the job of its own call. *)
LEMMA CallSettles ==
  ASSUME Inv, NEW h \in handlers, Succeed(h) \/ ReportFails(h)
  PROVE  \A t \in Tasks : Undecided(t) \/ SettledByReport(t)
  <1>1. /\ h.call[1] \in Tasks /\ h.call = <<h.call[1], h.call[2]>>
        /\ OnlyTask(h.call[1])
    <2>1. h.call \in Calls
      BY DEF Inv, ScanTypeOK, Handler
    <2>2. QED
      BY <2>1, TaskOfCall, SettleStep
  <1>2. h.call = <<h.call[1], tasks[h.call[1]].attempts>>
    <2>1. Holds(h)
      BY DEF Succeed, ReportFails
    <2>2. tasks[h.call[1]].attempts = h.call[2]
      BY <2>1 DEF Holds
    <2>3. QED
      BY <1>1, <2>2
  <1>3. h.call \in UnderWay \ UnderWay'
    BY DEF UnderWay, Succeed, ReportFails, Inv, WorkInv, CallsDiffer
  <1>4. tasks'[h.call[1]].state = "SUCCEEDED" => h.call \in Finished
    <2>1. CASE Succeed(h)
      BY <2>1 DEF Succeed, Finished
    <2>2. CASE ReportFails(h)
      <3>1. PICK state \in {"QUEUED", "DEAD"} :
              tasks' = [tasks EXCEPT ![h.call[1]].state = state]
        BY <2>2 DEF ReportFails
      <3>2. tasks'[h.call[1]].state = state
        BY <1>1, <3>1 DEF Inv, ScanTypeOK, TaskRow
      <3>3. QED
        BY <3>2
    <2>3. QED
      BY <2>1, <2>2
  <1>5. SettledByReport(h.call[1])
    BY <1>2, <1>3, <1>4 DEF SettledByReport
  <1>6. \A t \in Tasks \ {h.call[1]} : Undecided(t)
    BY <1>1 DEF OnlyTask, Undecided
  <1>7. QED
    BY <1>5, <1>6

LEMMA ExecutionsStep ==
  Inv /\ [ScanNext]_scanVars => [ScanEngine!ExecNext]_ScanEngine!execVars
  <1> SUFFICES ASSUME Inv, ScanNext PROVE ScanEngine!ExecNext
    BY DEF scanVars, ScanEngine!execVars
  <1>1. CallsDiffer /\ [ScanEngine!Next]_ScanEngine!vars
    BY EngineStep DEF Inv, WorkInv
  <1>2. ASSUME tasks' = tasks, OnlyStarts, FinishedGrows
        PROVE  ScanEngine!ExecNext
    <2>1. \A t \in Tasks : Undecided(t)
      BY <1>2 DEF Undecided
    <2>2. QED
      BY <1>1, <1>2, <2>1, ExecutionsFrom
  <1>3. ASSUME NEW a \in Artifacts, EnsureTasks(a) PROVE ScanEngine!ExecNext
    <2>1. \A t \in Tasks : Undecided(t)
      <3>1. ASSUME NEW t \in Tasks PROVE Undecided(t)
        <4>1. CASE t[1] = a
          <5>1. /\ t[2] \in {"scan", "sbom"} /\ t = <<t[1], t[2]>>
                /\ TaskOK(t)
            BY DEF Tasks, Inv, WorkInv
          <5>2. tasks[t].state = "ABSENT"
            BY <1>3, <4>1, <5>1, EnsureStep DEF QueuePair, TaskOK
          <5>3. QED
            BY <5>2 DEF Undecided
        <4>2. CASE t[1] # a
          BY <1>3, <4>2, EnsureStep DEF QueuePair, Undecided
        <4>3. QED
          BY <4>1, <4>2
      <3>2. QED
        BY <3>1
    <2>2. OnlyStarts /\ FinishedGrows
      BY <1>1, <1>3, CallsEnd DEF EnsureTasks
    <2>3. QED
      BY <1>1, <2>1, <2>2, ExecutionsFrom
  <1>4. ASSUME NEW t \in Tasks, BuryTask(t) PROVE ScanEngine!ExecNext
    <2>1. \A u \in Tasks : Undecided(u)
      <3>1. tasks'[t].state = "DEAD"
        BY <1>4 DEF BuryTask, Inv, ScanTypeOK, TaskRow
      <3>2. Undecided(t)
        BY <1>4, <3>1, ScanAssumption DEF BuryTask, Undecided
      <3>3. QED
        BY <1>4, <3>2, BuryStep DEF OnlyTask, Undecided
    <2>2. OnlyStarts /\ FinishedGrows
      BY <1>1, <1>4, CallsEnd DEF BuryTask
    <2>3. QED
      BY <1>1, <2>1, <2>2, ExecutionsFrom
  <1>5. ASSUME NEW t \in Tasks, NEW w \in ScanWorkers, ClaimTask(t, w)
        PROVE  ScanEngine!ExecNext
    <2> PICK new : new = [call |-> <<t, tasks[t].attempts + 1>>, worker |-> w,
                          step |-> "lock", scanned |-> 0, named |-> 0]
      OBVIOUS
    <2>1. /\ OnlyTask(t)
          /\ tasks'[t] = [state |-> "RUNNING", attempts |-> tasks[t].attempts + 1]
      BY <1>5, ClaimStep
    <2>2. /\ tasks'[t].state = "RUNNING"
          /\ tasks'[t].attempts = tasks[t].attempts + 1
      BY <2>1
    <2>3. /\ handlers' = handlers \cup {new}
          /\ new.call = <<t, tasks'[t].attempts>> /\ new.step = "lock"
      BY <1>5, <2>2 DEF ClaimTask
    <2>4. \A u \in Tasks : Undecided(u)
      BY <2>1, <2>2 DEF OnlyTask, Undecided
    <2>5. OnlyStarts
      <3>1. \A x \in UnderWay' \ UnderWay : x = <<t, tasks'[t].attempts>>
        BY <2>3 DEF UnderWay
      <3>2. StartsCall(t)
        BY <1>5, <2>2 DEF ClaimTask, StartsCall
      <3>3. QED
        BY <3>1, <3>2 DEF OnlyStarts
    <2>6. FinishedGrows
      <3>1. Finished' = Finished
        BY <2>3 DEF Finished
      <3>2. QED
        BY <3>1 DEF FinishedGrows
    <2>7. QED
      BY <1>1, <2>4, <2>5, <2>6, ExecutionsFrom
  <1>6. ASSUME NEW h \in handlers, Succeed(h) \/ ReportFails(h)
        PROVE  ScanEngine!ExecNext
    <2>1. OnlyStarts /\ FinishedGrows
      BY <1>1, <1>6, CallsEnd DEF Succeed, ReportFails
    <2>2. QED
      BY <1>1, <1>6, <2>1, CallSettles, ExecutionsFrom
  <1>7. ASSUME NEW h \in handlers,
               \/ LockScanner(h) \/ UpdateDatabase(h) \/ ScanImage(h)
               \/ ReadToolVersion(h) \/ GenerateSBOM(h) \/ Fails(h)
               \/ SaveScanResult(h) \/ SaveSBOMResult(h)
        PROVE  ScanEngine!ExecNext
    BY <1>2, <1>7, CallsOf, TasksUnchanged
  <1>8. ASSUME \/ \E h \in handlers : ReportLost(h)
               \/ \E w \in ScanWorkers : WorkerDies(w)
               \/ Publish \/ AskResults \/ AskTool \/ CountFindings
               \/ \E a \in ReadArtifacts : AskJobs(a)
        PROVE  ScanEngine!ExecNext
    <2>1. handlers' \subseteq handlers
      BY <1>8 DEF ReportLost, WorkerDies, Publish, AskResults, AskTool,
                  CountFindings, AskJobs, Asks
    <2>2. tasks' = tasks
      BY <1>8, TasksUnchanged
    <2>3. QED
      BY <1>1, <1>2, <2>1, <2>2, CallsEnd
  <1>9. QED
    BY <1>3, <1>4, <1>5, <1>6, <1>7, <1>8 DEF ScanNext, Handle

(***************************************************************************)
(* The handler calls of scans and SBOMs are executions as the engine       *)
(* runs them: an attempt is executed once, and only the execution of the   *)
(* newest attempt, when it has saved its result, completes the job.        *)
(***************************************************************************)
THEOREM ScansImplementExecutions == ScanSpec => ScansFollowExecutions
  <1>1. ScanInit => ScanEngine!ExecInit
    BY EngineInit DEF ScanInit, ScanEngine!ExecInit
  <1>2. QED
    BY <1>1, ExecutionsStep, Invariance, PTL
       DEF ScanSpec, ScansFollowExecutions, ScanEngine!ExecSpec
=============
