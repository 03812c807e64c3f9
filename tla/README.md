# HubCR in TLA+

HubCR is a control plane around a CNCF Distribution registry: users and
organizations own namespaces and repositories, the registry asks it for access
tokens and tells it what was pushed, and a worker scans, inventories and
verifies what has arrived. All state that outlives a process is in PostgreSQL;
the API processes and the workers keep none that matters, and coordinate only
through rows.

This directory holds the specifications of the parts where that coordination is
hard, the configurations that check them with TLC, and the theorems about them
that TLAPS has checked. Paths below are relative to `src/backend/internal/`
unless they begin with `docs/`.

## 1. The system

| Part | State | Operations | What is hard about it |
| --- | --- | --- | --- |
| Job engine (`platform/postgres/jobstore`, `modules/jobs`) | the `jobs` table: state, attempts, due time, lease | Enqueue, Claim, Complete, Fail | times come from the callers' clocks; a claim takes over expired leases; reports name a worker and not an attempt |
| Worker (`app/worker`) | goroutines, one claim loop, the handlers' contexts | claim, execute, report, repair, stop, drain | lost replies, timeouts, pauses, crashes, drains; an execution may outlive its lease |
| Artifact store (`platform/postgres/artifactstore`) | `artifacts`, `artifact_descriptors`, `tags` | Reconcile, RemoveTag, queries | observations arrive repeated, late and in any order |
| Registry notifications (`modules/registry/notification.go`, `httpapi/registryeventhandler`) | none | Process | at-least-once delivery, two transactions per event, envelopes that are not atomic |
| Organizations (`modules/organizations`, `organizationstore`) | organization and membership rows | Create, AddMember, ChangeMemberRole, RemoveMember | roles are read before the transaction that changes them; the last OWNER |
| Trust policies and signatures (`modules/security/trust*.go`, `securitystore/truststore.go`) | policy versions, verification workflows, evidence | CreatePolicy, two repairs, resolve, verify, save, Detail | a policy may be replaced at any point; results are not fenced by leases; the reader uses five queries |
| Scans and SBOMs (`modules/security`, `securitystore/store.go`, `platform/scanner/trivy`) | workflows, reports, findings, SBOMs, the tool state, Trivy's cache | EnsureWorkflow, repair, ResolveJob, SaveScanResult, SaveSBOMResult, Detail, Scan, GenerateSBOM | late results, a shared cache behind a mutex, a reader of several queries |
| Cosign adapter (`platform/scanner/cosign`) | none but its call's | Verify | many runs of a tool that reads the registry again each time, names payloads and not signatures, and may be out of reach |
| Authentication (`modules/auth`, `authstore`, `registryauth`) | users, sessions, invitations; login buckets and password slots in memory | Login, Authenticate, Logout, redeem and revoke, Allow, Succeeded | row locks that transactions wait for, rows judged after they are read, bounded tables and slots |
| Registry tokens and their keys (`modules/registry`, `app/controlplane`, `cmd/registry-keygen`) | the private key, the trust bundle, the keys the processes have read | Issue, key generation, rotation | several scopes are authorized by separate reads; keys are files that processes read when they start |
| Repositories (`modules/repositories`, `repositorystore`) | their rows | Create, Update, Detail, List | decisions made before the write; pages over rows that change |
| Namespaces, HTTP API, configuration, wiring, observability, migrations, frontend | none that the others depend on | | |

How they meet. A push makes the registry send an event; its handler calls
`Reconcile` and then `EnsureWorkflow`, which inserts a workflow and its jobs. The
worker claims jobs and calls the security handlers, which resolve the job to its
workflow, run a tool and save the result; then the worker completes the job. The
same worker loop repairs what is missing: artifacts without a workflow, and
artifacts without a verification for the current policy. A new trust policy also
repairs once by itself. A reader joins workflow, job, result and policy. Nothing
is called back, and no process speaks to another one: every hazard is an
interleaving of statements on shared rows, a step that is lost, or a clock.

What makes each part correct, and where the list of hazards
(`PROJECT.json`, `hazards`) points:

- *Jobs*: one execution at a time while leases are ample; no report settles
  another attempt; SUCCEEDED and DEAD are earned and final; nothing due is
  forgotten.
- *Artifacts*: the rows are a function of the set of applied events, not of
  their order; a tag follows the newest push; only contradictions are refused;
  every artifact gets its workflow.
- *Organizations*: there is always an OWNER; nobody rises without one.
- *Trust*: evidence is judged by the policy it is shown with; a replaced policy's
  trust is never presented as current; versions do not collide; every artifact is
  verified again.
- *Scans*: a report names the database it was made with, the tool state never goes
  back, a reader is told what is so, the scanner's lock is given up.
- *Evidence*: VALID names who has signed; nothing that could be seen is overlooked.
- *Access*: a token grants what its subject might do; an answer about a repository
  was true during its request; a listing is complete; sessions and invitations end
  once and for all; keys that are in use are trusted; the login limits hold.

## 2. Modules

                      JobLifecycle (abstract)
                                |
    RetryBackoff      JobExecutions (abstract)            ArtifactStore
          \             ^       ^       ^                      |
           \   JobStore |       |       |             RegistryNotifications
            \     |     |       |       |                      |
             `-- JobWorker      |   ScanResults         MCNotifications
                     |          |       |                      |
                MCJobProgress   TrustVerification ------- MCProgress

    AccessPolicy -- RepositoryAccess, RepositoryPages, RegistryTokens --.
    CosignVerify, Sessions, Invitations, LoginLimit,                    |
    SigningKeys, KeyFiles ---------------------------------------- MCServices

    Organizations      ResultStatus (used by TrustVerification and ScanResults)

| Module | Code | Correspondence |
| --- | --- | --- |
| `JobStore` | `jobstore/store.go`, `modules/jobs/domain.go` | the table, one operator per statement: `EnqueueTx`, `ClaimTx`/`ClaimNoneTx`, `CompleteTx`, `FailTx`, `LeaseLostTx`. The time is a parameter, as it is in the code |
| `JobWorker` | `app/worker/app.go`, `modules/jobs/service.go` | each queue call is two steps, the sample of the clock (`BeginClaim`, `HandlerReturns`) and the statement (`Claim`, `Report`); replies and reports may be lost; processes stop, drain and crash |
| `RetryBackoff` | `retryBackoff` in `app/worker/app.go` | a recursive function over signed durations up to `MaxDuration`, beyond which doubling wraps around |
| `JobLifecycle` | the promise of `modules/jobs` | abstract: states and attempts without leases, clocks and workers |
| `JobExecutions` | what the handlers in `modules/security` are written against | abstract: the life cycle with the executions of its attempts. An attempt is executed at most once; an execution may be lost, or outlive its attempt; only that of the newest attempt decides the job, and success is reported only of work that is done |
| `ArtifactStore` | `artifactstore/store.go`, `modules/artifacts/domain.go` | the three tables; `ReconcileTx` is the whole transaction, which locks each row it reads before it decides |
| `RegistryNotifications` | `modules/registry/notification.go`, `securitystore/store.go` (EnsureWorkflow, repair) | requests step through their events; the registry (external) pushes and sends |
| `Organizations` | `modules/organizations/service.go`, `organizationstore/store.go`, `modules/authorization/policy.go` | a request is `Begin`, `ReadTarget`, then `Lock`, `Check`, `Commit` of its transaction |
| `TrustVerification` | `modules/security/trust*.go`, `securitystore/truststore.go` | CreatePolicy in its three statements and its eager repair, the periodic repair, the handler's steps, the five queries of `signatureDetail` |
| `ScanResults` | `modules/security/handler.go`, `securitystore/store.go`, `scanner/trivy` | a handler call takes the scanner's lock, updates the shared database, scans, asks for the version, and saves; a step for each run of the tool, which may fail; the saves and the reader's queries are a step each |
| `ResultStatus` | `modules/security/domain.go` | ResultStatusFromJob, for both kinds of reader |
| `CosignVerify` | `scanner/cosign/cosign.go` | one call of Verify: the two downloads, the check against keys, and one run of the tool for each identity and attachment, between pushes and outages |
| `AccessPolicy` | `modules/authorization/policy.go` | the capabilities that concern repositories |
| `RepositoryAccess` | `modules/repositories/service.go`, `repositorystore/store.go` | Create, Update and Detail, a step for each read and write |
| `RepositoryPages` | the same, List and ListByNamespace | a walk over the pages, two reads for each |
| `RegistryTokens` | `modules/registry/service.go`, `scope.go` | Issue: scopes one after the other, two reads for each |
| `SigningKeys` | `app/controlplane/app.go`, `app/worker/app.go`, `modules/registry/jwt.go`, `docs/registry-authentication.md` | the operator's rotation, the processes that read keys when they start, and the tokens they sign |
| `KeyFiles` | `cmd/registry-keygen/main.go` | runs of the generator, a step for each system call |
| `Sessions` | `modules/auth/service.go`, `authstore/store.go`, `authhandler` | Login, Authenticate and Logout by the tabs of a browser, two steps each |
| `Invitations` | `authstore/store.go` | redeeming, a transaction of an insert, another insert and an update, and revoking, with the row locks and unique indexes they wait for; a COMMIT and its acknowledgement are two steps |
| `LoginLimit` | `modules/auth/limiter.go`, `service.go` | Allow with its fixed windows and sweep, Succeeded, and the password slots |
| `MC*` | | the values of the constants for TLC, and the compositions below |
| `*Proofs` | | theorems (section 4) |

`MCServices` and `MCProgress` compose services that have no variable in common. A
behaviour runs one of them, which the variable `focus` names, while the others rest
in one state. Because they share nothing, an invariant of one of them holds of any
interleaving exactly if it holds of that service alone. `MCNotifications` holds two
instances of one module, with events in any order and, by `orderly`, in the order of
the pushes;
`MCJobProgress` two scenarios of `JobWorker`, and `MCTrustVerification` three of
`TrustVerification`.

Definitions introduced by a comment "Variant" are plausible mistakes in the
definition that follows them. Nothing uses them; they exist to show that each
property can be broken (`PROJECT.json`, `mutants`).

### What was abstracted

- An intent key, digest, tag, subject, user or token is a model value. Payloads,
  names, timestamps that nothing compares, logs and error texts are gone.
- The three nullable facts of an artifact (media type, size, creation time) are
  merged by the same rule and stand as one value.
- `ReconcileTx` is one step: all its reads lock, and a deadlock between two of
  them is one of the outcomes of `Drop`.
- In `TrustVerification`, `Verify` is one step that sees any set of signatures and
  verifies any subset of those that its candidates made: an outage in a keyless
  check, an ambiguous payload or a lying key hint may keep it from the rest, which
  stay NOT_EVALUATED. `CosignVerify` is what it looks like inside. The queries of
  `ResolveVerificationJob` are one step as well; policies are only added, and no
  property depends on whether keys and identities are read at the same moment.
- In `JobWorker` a report is one step, at its UPDATE. A COMMIT is sent only when the
  UPDATE has answered and so holds the row's lock, and until it is decided claims pass
  the row over and nobody can write it. A report whose COMMIT lands after `OpTimeout`
  has cut off its caller is therefore `Report`, at the moment of its UPDATE;
  `LoseReport` is one that is rolled back.
- In `TrustVerification` and `ScanResults` a job and its executions are what
  `JobExecutions` shows of them. Leases are gone: any execution may go on for ever (a
  zombie), and only the execution of the newest attempt of a running job can settle
  it. `JobWorker` keeps to `JobExecutions` (`RefinesExecutions`), and so do the two
  modules (`JobsFollowExecutions`, `ScansFollowExecutions`): both sides of the
  abstraction are checked and proved against one statement of it.
- A vulnerability database is the number of its publication, and what a scan finds
  is the number of the database it used.
- In `CosignVerify` who has signed what is given. The adapter learns of it only
  through a key that verifies or through the tool's output, which names payloads.
- In `SigningKeys` the control plane's and Distribution's clocks differ by at most
  `ClockSkew`, the leeway that the tokens' `nbf` and the verifier grant. `MCServices`
  takes the two extreme differences.
- Histories (`could`, `had`, `held`, `lived`, `died`, `recent`, `applied`,
  `orderly`,
  `verdicts`, ...) record what was so at some moment of a request. No action reads
  them.
- What is refused before any state is read (validation, bearer tokens) does not
  appear.

## 3. Runs

Deadlock is checked where the modelled actors can always move, and switched
off where they stop because a bound is used up or there is nothing left to do.

| Run | States | Question and bounds |
| --- | --- | --- |
| `job_timely` | 270,213 | With timers on time: are leases exclusive, and do executions still hold theirs? One job, two attempts, two processes with two slots, one of which may stop and crash, clocks one unit apart; the lease is one unit longer than claim, handler, report and skew together. The clock runs to 13, enough for both attempts to be lost and the job to be buried. It also compares `retryBackoff` with its definition for every base, maximum and attempt of a narrow duration, where doubling does overflow |
| `job_live` | 178,962 | With processes that may be paused for any time: does no late report settle an attempt that is not its own, are verdicts earned, do rows and executions behave as `JobExecutions` says, and is a due or abandoned job always taken? Two workers and one job, or one worker that lives and two jobs; two attempts, one slot for each process |
| `job_deadletter` | violation | see Findings |
| `notifications` | 477,738 | Any order of delivery: are the rows the join of what was applied, and is only a contradiction refused? Three pushes out of five, which include an index with and without its descriptors, a child known only from its index, and a contradiction; tags may be removed. And with events first sent in push order, but repeated, overlapping and cut off: do tags agree with the registry once all is acknowledged, and is none behind? In both, is what was answered with 202 done? Four pushes of two manifests that take turns under a tag and an index of both, two requests of up to two events |
| `tag_stale`, `nested_index` | violation | see Findings |
| `organizations_concurrent` | 793,464 | Two concurrent requests of any kind among three users, with symmetric users: the smallest instance in which two OWNERs remove each other or an ADMIN and an OWNER race |
| `membership_matrix` | violation | see Findings |
| `trust_answers` | 948,231 | Two policy versions, one artifact, two subjects of which one signs, two attempts of each job, two executions at a time: is evidence judged by its own policy, are the reader's answers never wrong, and are jobs and executions as `JobExecutions` says? Three scenarios, as everything at once is too much (`MCTrustVerification`): a reader, until its answer, beside two starts, of two workflows or an attempt with its retry or takeover; every start, late executions beside newer attempts and burials, without a reader; and the periodic repair beside the eager one with two starts |
| `services` | 607,912 | Nine services, one for each behaviour (`MCServices`). *Repositories*: two requests of any kind by an ADMIN whose role may be lost and a WRITER. *Pages*: four places for repositories, pages of one. *Cosign*: two keys, one identity, four attachments of which two have the same payload and one lies about its key. *Tokens*: three scope values over a user's and an organization's repository. *Keys*: two keys and a stray one, three hours, extreme clock differences. *Generator*: three overlapping runs, one removal. *Sessions*: two tabs, two logins. *Invitations*: three callers, one invitation, three names of which one is taken. *Logins*: two attempts at a time, one name, two clients, a table of two buckets, five seconds with windows of two |
| `progress` | 69,441 | Three parts, one for each behaviour (`MCProgress`): does every artifact get its workflow, when children have no push of their own and requests die half way; do versions stay apart when two owners create policies at once, and does every artifact get its verification; do reports name their database, does the tool state not go back, is what a reader is told right, and is the scanner's lock given up? Two artifacts, two databases, two claims, one worker with two slots |
| `cosign_unavailable` | violation | see Findings |

Why these bounds are enough to be of use: every hazard listed needs at most two
actors and one row they meet on, or one actor and one that comes back late; each
instance has those, and the mutant of each property shows that the case it is about
does happen there. What depends on more is covered by the proofs, which have no
bounds.

Bounds that exist only for TLC are constants named so where they are declared:
`MaxTime`, `MaxPushes`, `MaxRequests`, `MaxVersions`, `MaxExecutions`,
`MaxDatabases`, `MaxClaims`, `MaxHour`, `MaxMinute`, `MaxSecond`, `MaxRemovals`.
`MaxAttempts`, `MaxConcurrency`, `MaxBatch`, `RepairBatch`, `PageLimit`, `MaxBuckets`
and `PasswordSlots` are limits of the code itself.

Some properties say less than one might wish, because the code does no more:

- `GrantsExact`: the right to pull a repository that was created between the two
  reads may be one its holder had lost before. The token outlives what it was
  granted for; no property speaks of that.
- `DetailTrue`: the counts belong to the version an answer names unless the job was
  started more than once. A handler that outlived its lease may replace the findings
  between the reader's two queries.
- `LimitsHold`: a client gets less than *three* times its limit into one window's
  length. Windows are fixed, which allows twice the limit across their border, and an
  attempt reads the clock before it has the mutex, so that one that waited may open a
  window that starts in the past. Even that much needs attempts to get the mutex
  within half a window of reading the clock (`2 * MaxDelay <= LimitWindow`, an
  assumption of `LoginLimit`); with longer waits TLC finds it exceeded. The code does
  not bound the wait, but the mutex is held only for a walk over a table of bounded
  size, and the window is a minute (`modules/auth/limiter.go:12`).
- `TokensAccepted` excepts tokens the worker signed with a key that was never
  published. The control plane compares its key with the trust bundle when it starts
  (`app/controlplane/app.go:198`); the worker does not (`app/worker/app.go:106`), so
  that what `docs/registry-authentication.md` says of start-up failing for a key that
  is absent from the trust set holds of the control plane only. Nor does the rotation
  described there mention the worker, which has to be restarted like the control
  plane before the old key is retired; the model's operator does so.
- `TrustByPolicy` does not say that every signature of a trusted subject is trusted:
  what a call of Cosign could not verify is NOT_EVALUATED. It says that what was
  verified is judged rightly, and that the call looked for every trusted subject.
  What the call finds of that is the subject of `NothingOverlooked`, and
  `cosign_unavailable` shows where it says too little.
- `InvitationsExact` speaks of operations that only tests call so far. A caller who
  gets an error may have redeemed or revoked: if the acknowledgement of a COMMIT is
  lost, the transaction has taken effect and `Transaction` returns an error
  (`authstore/store.go:133`). The property therefore demands of an error only that
  nothing is half done.

Type invariants are checked in the runs of the first four components. Those of the
services are part of the inductive invariants of section 4.

### Fairness

- `JobWorker`: the claim loop polls, a claim in flight returns, a handler returns
  (its context ends and the tools are started with it), a report is settled. A
  claim that finds a job may fail any number of times, but not always (strong
  fairness of `Claim`). `Stop`, `Exit` and `Tick` are not fair, so the property is
  about a worker that lives; it is not claimed when the last one dies.
- `RegistryNotifications`, `TrustVerification`: the worker's loop lists what is
  missing again and again, and a target that is listed again and again is not
  failed every time. The code does not ensure the latter for a target that can
  never succeed; see the hazard about `app/worker/app.go:46`. Nothing is assumed of
  requests: they may all die.
- `ScanResults`: a run of the tool ends, by itself or because the handler's context
  kills it. Nothing is assumed of jobs, handlers or readers.
- `MCProgress` assumes the fairness of each part for the behaviours that run it.
- `Organizations`: its fair specification serves only `membership_matrix`, so that
  the counterexample is not one of a system that simply stops.

### Findings

Five statements of the documentation that the code does not keep; each has a run
of its own whose counterexample is the scenario.

1. `job_deadletter`: requirements FR-JOB-002 promises a terminal dead-letter
   state. The claim writes DEAD for exhausted jobs and then returns `ErrNoJob` from
   inside the transaction when nothing else is due, which rolls the write back. On
   an idle queue an exhausted job stays RUNNING for ever.
2. `tag_stale`: an observation of the artifact a tag already names does not advance
   `updated_at`. Pushes A, B, A delivered as A, A, B leave the tag at B.
3. `nested_index`: children are always recorded as manifests, so an index of an
   index is refused with 409 on each delivery although nothing contradicts it.
4. `membership_matrix`: roles are judged before the transaction and not again in
   it, so an ADMIN's removal of a WRITER can remove an OWNER.
5. `cosign_unavailable`: decision D-008 represents the unavailability of a dependency
   separately, and `docs/api.md` has a state for it, but nothing produces it. An
   outage during a keyless check is passed over, and the signature is returned as
   UNVERIFIED, as if nobody known had made it.

## 4. Proofs

All theorems are checked by `tlapm` to the last leaf, from the assumptions on
the constants alone, which TLC evaluates in every run, and from the hypotheses a
theorem names. There is no bound in them: any number of jobs, workers, users,
requests, artifacts and executions, any values of the durations. The constants
`MaxTime`, `MaxPushes` and so on still occur, but with any value.

**`JobWorkerProofs`**
- `TypeCorrect`. `TakeRows` and `ReportRows` say once what a claim and a report do
  to the rows, and everything later uses them.
- `LeasesExclusive`, `LeasesStayHeld`: `TimelySpec`, with `LeaseDuration > ClaimDelay
  + JobTimeout + OpTimeout + MaxSkew`, implies `ExclusiveLease` and `LeaseHeld`.
  Neither is inductive. `TimelyInv` adds that a claim in flight is fresh
  (`ClaimsFresh`), that each execution is `WithinLease`, by an arithmetic bound that
  depends on the step it is at, and that it `OwnsRow`. A takeover would need an
  expired lease, which the bound rules out (`HeldNotTaken`). LoadWorker enforces only
  `LeaseDuration > JobTimeout`: the rest of the hypothesis is what an operator has
  to see to, and the defaults (15 and 10 minutes) leave five minutes for it.
- `ReportsSettleOwnAttempt`, pauses included, if `MaxConcurrency = 1`. `OneSlotInv`
  adds that a process has one execution or one claim under way and never both, so
  that a row leased to it can only be the one its execution knows. With more slots
  it is false: two attempts of one job may run in one process, and the late report
  of the first is accepted for the second. The code relies on ample leases there:
  `TimelyReportsSettleOwnAttempt` says that with them it holds for any number of
  slots, because a process whose lease holds has no second attempt of the job
  (`ReportsAccepted`).
- `ConstraintsNeverViolated`, `AttemptsNeverShared`, `SettledJobsStay`, of every
  behaviour: the rows satisfy the table's CHECK constraints, no two executions have
  the same attempt of a job, and SUCCEEDED and DEAD are left alone. `AttemptsInv` is
  the lawfulness of rows (`RowsLawful`) with `AttemptsDistinct`, which compares
  attempts under way with the counter in the row.
- `VerdictsEarned` for `Spec`, pauses included. `VerdictInv` adds that an execution
  whose report is "complete" or "terminal" has its verdict in the history.
- `ImplementsLifecycle`: each step is one of `JobLifecycle` or leaves its variables
  alone. A claim is the hard case: it starts one job and buries any number of
  others in the same step, which is why the abstract `Next` is a conjunction over
  jobs.
- `ImplementsExecutions` (`MaxConcurrency = 1`, pauses included) and
  `TimelyImplementsExecutions` (ample leases, any number of slots): each step is one
  of `JobExecutions`, with the executions and the earned verdicts as the abstract
  ones. A claim brings new executions only of attempts it has started
  (`ExecutionsFrom`, `OnlyStarts`) and decides nothing else (`Undecided`). A report is
  the hard case: what it settles has to be its own attempt, still the newest
  (`SettledByReport`), which is where the hypotheses come in. With more slots and late
  timers the statement is false.
- `BackoffExact`: for every base, maximum and attempt, `retryBackoff` is the capped
  doubling of its definition, however short the range of durations, and
  `BackoffAlwaysExact` says so of every behaviour. The loop is followed by `From`
  and `Iterates`; `TurnDoubles` is one turn of it. Induction over the attempts is
  replaced by the least counterexample, which the well-foundedness of the naturals
  provides (`AllNat`).

**`NotificationProofs`**: three invariants.
- `JoinInv` relates rows to histories, digest by digest. A row is there exactly if an
  applied event mentions its digest, and was discovered at the earliest; its kind
  and facts are those of every mention; its descriptors are those of every event
  that describes it, which is also when it is complete (`RowOK`, `DigestOK`).
  `ReconcileTx` accepts an event only if it agrees with all that, whatever order it
  comes in, so the invariant survives. Hence `TypeCorrect`, `StoreAlwaysJoin`,
  `ReferencesAlwaysHold`. The minimum and the union in `StoreIsJoin` are why the
  invariant speaks of single mentions.
- `ConflictsAreContradictions` needs one hypothesis, `NoNestedIndexes`: no pushed
  index is the child of another. Without it the statement is false, which is what
  `nested_index` shows; the theorem says that this is the *only* exception.
- `OrderInv`, as long as the history `orderly` is true, that is, no event was first
  sent before an older one was answered with 202 and no tag was removed: the
  applied events are a prefix of the pushes although requests overlap and repeat
  them, because what a request has not applied is still to do, in order
  (`OrderOK`); and a tag names the artifact of the event it was moved by and of every
  later one (`TagNewest`). That a repeated observation leaves `updated_at` alone, the
  cause of `tag_stale`, is harmless here: all events in between are applied. Hence
  `TagsNeverBehind` and `TagsAlwaysAgree`, of every behaviour.
- `AcknowledgedAlwaysDone`: what was answered with 202 has been applied, and its
  artifact has its workflow, although an event is two transactions and its request may die between
  any two. `DoneInv` says of a request under way that each of its events
  is done or still to do, and that the one it is at is applied once its first
  transaction is (`HandledOK`).

**`OrganizationProofs`**
- `NeverOwnerless`: `AlwaysOwned` needs `LockHeld` (whoever is past the lock holds
  it) and `StillAllowed` (what the check found is still true at the write). Both
  follow from the lock; `AnotherOwner` turns the code's count of OWNERs into a
  second OWNER, by cardinality.
- `ElevationNeedsOwner`: `JudgedInv` remembers what a request was judged by.

**`TrustVerificationProofs`**: one invariant, `Inv == Structure /\ WorkInv /\
ReaderInv`, gives five theorems.
- `Structure`: types; a creator past its lock holds it and its version is still the
  next one (`PolicyInv`); repairs never hold a version that does not exist
  (`RepairInv`). Hence `VersionsNeverCollide`.
- `WorkInv`: a job that has succeeded has its result, and so has an execution that
  is about to report; an execution looks for all subjects of its workflow's policy;
  what was verified, saved or on its way, is judged by that policy (`Judged`). It is
  preserved because policies only grow. Hence `TrustedByPolicy`.
- `ReaderInv`: at each of its five steps, what the reader holds is at least implied
  by what is in the tables now: the state it saw SUCCEEDED stays so and its result
  is there to stay; the version it saw as current is not older than its start.
  Hence `ResultsNeverMissing` and `RevokedNeverTrusted`.
- `ImplementsLifecycle`, `ImplementsExecutions`: the reduced job rows and the
  handlers' executions are a behaviour of `JobExecutions`, and so of `JobLifecycle`.
  The invariant gains `AttemptsDiffer`: no two executions have the same attempt of a
  job, so that the end of one is not the end of another.

**`ScanResultsProofs`**: again one invariant.
- `WorkInv`: between update and version no other handler can have the lock, so the
  database in the cache, the one scanned with and the one named are the same
  (`HandlerOK`); calls differ; a job that has succeeded has its result (`TaskOK`);
  a report is its handler's (`ReportOK`). Hence `ReportsTruthful`.
- `ReaderKnows` says of each step of the reader which of the things it has read are
  still implied by the tables. Results never vanish, and the tool state never goes
  back: lemma `Grows` says so of every step, `ToolNeverGoesBack` of every behaviour.
  That a save leaves the maximum of both in place needs the maximum to exist, which is
  shown by the well-foundedness of the naturals. Hence `DetailsTrue`.
- `ScansImplementLifecycle`, `ScansImplementExecutions`, in the same way.

**`CosignProofs`**: `CosignInv` follows an attachment through the call. What was found
is attached; what is credited to a signer matches a payload the signer has signed; a
check that was answered and did not verify found no match, unless the payload is
hidden behind another attachment nobody verifies (`FoundOK`, `VerifiedOK`, `TriedOK`).
Hence `EvidenceIsExact` and `NoneOverlooked`. The first of the candidate keys that
verifies exists by well-foundedness.

**`AccessProofs`**
- `GrantsAreExact`: what the scopes authorized so far have been granted is among what
  the subject could do, and all of it while nothing has changed (`CouldOK`, `CalmOK`).
- `RepositoryAnswersTruthful`, `VisibilityAlwaysAccountable`: what a request has read
  is among what was held and had during it, and so is what it writes or leaves
  unwritten (`ReadingOK`, `WriteOK`, `DoneOK`).
- `WalksAreComplete`: the cursor separates what is listed from what is not, and the
  last page is told from the others by the extra row. Ranks among the rows after the
  cursor are cardinalities, so the proof counts.

**`CredentialProofs`**
- `ReadyPair`: what a run of the generator relies on it has found or made since the
  last removal of the directory (`RunOK`); a file that is whole stays so, with its
  maker, until then (`DiskGrows`). Exclusive creation makes the pair one run's.
- `TokensNeverRefused`: a key is signed with only while it is in bundle and trust set,
  and leaves them only when all its tokens have expired (`TokenOK`); retired keys
  never return.
- `InvitationsAreExact`: who has inserted a name or holds a row is still under way,
  possibly without its caller (`Pending`), and what is committed belongs to callers
  who were told so, are about to be, or got an error (`Settled`); user and invitation
  name each other (`IdentityOK`, `RowOK`, `CallerOK`). Names come before invitations in every
  transaction, so in any group of callers there is one that waits for none of the
  group: no two wait for each other, and no longer circle exists either.
- `SessionsTruthful`: a row that a tab has read differs from the table's only by a
  logout since, which the history has seen (`SeenOK`, `AnswerOK`).
- `TableNeverOutgrown`, `LoginLimitsHold`: the two halves of `LimitsHold`, memory and
  attempts. The history `recent` keeps, for each bucket and age, how many attempts were
  admitted in its last seconds, so that no sum is needed. `WindowInv` relates it to the table. In an
  open window (`WindowOpen`) the total of any age is at most the window's own attempts
  plus less than two limits; plus less than one, if the window is old enough; and
  nothing, if it is older still. Without a window (`WindowNone`) it is less than two
  limits, and less than one for ages below `LimitWindow - MaxDelay`. That a window may
  end and another begin (`WindowEnds`) is where half a window's length is needed.

**Only model-checked**: the four liveness properties (`EventuallyTaken`,
`EventuallyScheduled`, `EventuallyReverified`, `EventuallyUnlocked`), because TLAPS
handles neither fairness nor ENABLED here. Every invariant, action property and
refinement that a passing run checks is stated by a theorem.

## 5. What is not modelled

The parts marked `not_modelled` in `PROJECT.json`, with their reasons. Mainly:
password hashing and identifiers (no state), namespaces (one insert behind a unique
index, which is part of `Organizations` and `Invitations`), the decoding and encoding
of HTTP requests, tokens, keys and tool outputs, configuration parsing, migrations as
a process, observability, and the frontend. Of the modelled parts: read-only listings
other than the repositories', the capability flags that DetailWithCapabilities adds
to an answer, and the duration of a database call.

Hazards of the code that no property covers:

- A repair query that hangs would stop the claiming of jobs (`app/worker/app.go:230`).
  In the models each call may fail or take any time, but none hangs for ever.
- A target that fails at each pass keeps the rest of its pass from being repaired, and
  a failing scan repair all of it (`app/worker/app.go:46`, `securitystore/store.go:129`).
  The liveness properties assume that none does.

`JobWorker`'s timely steps assume that a handler returns when its context ends.
Trivy's lock is waited for without the context (`trivy.go:60`), so a scan queued
behind another one can break that; `job_live` says what then still holds, and
`progress` that the lock is at least given up.

## 6. How it grew, and what is left

The modules were written in this order: the job engine and worker (everything else
runs on jobs); notifications (where data enters); organizations; trust; scans; the
Cosign adapter; then access to repositories, tokens and keys, sessions, invitations
and the login limit. The proofs followed, once TLC had nothing more to say.

What would be worth adding:

1. That the two modules of handlers allow *every* behaviour of `JobExecutions`, and
   so leave none of the engine's out. It is a statement about ENABLED.
2. The order in which `ReconcileTx` takes its row locks, to show that the deadlock
   that `Drop` allows for is the only one.
3. The HTTP handlers' own conversions, if properties about them are wanted.
