# A TLA+ verification of the NemoGuard Pipeline Copilot

The copilot turns alerts about data pipelines into incidents, lets agents
investigate them, proposes a recovery plan, waits for a human's approval,
executes the plan through registered capabilities, and marks the incident
RESOLVED or FAILED.  The repository also contains NemoClaw
(`nemoclaw_repo`), which runs such agents in sandboxes: its blueprint runner
creates them, and its E2E gate decides whether a pull request's code may be
tested with credentials.  This directory models the parts that act on the
world or coordinate several processes.  Paths below are relative to the repository.

## The system

| Part | Code | State | Operations | Hard parts |
|---|---|---|---|---|
| Plan execution | `src/domain/orchestrator.py` `execute_plan` | rows of `action_plan`, `action_step`, `action_execution`, `verification_result`, `incident`; audit events | execute the steps of a plan in one transaction | retries and overlapping attempts, crashes half way, row locks, the UNIQUE idempotency key, two snapshots |
| Plan revision | `triage_feedback` | the same | replace the steps of the newest plan | races with execution and with itself, lock order, foreign keys |
| Capability gateway | `src/capabilities/` | a policy cache per process | compile, check policy and precondition, execute, verify; reload and preview the policy | stale caches, skipped verification, failures after acting |
| Plan approval | `src/api/main.py` `approve_plan`, `src/domain/plan_hash.py` | approvals, plan status | show a plan, approve or reject it, signal the workflow or execute directly | check and use in two transactions, lost signals |
| Incident workflow | `src/domain/workflows/incident_workflow.py`, `activities/`, `temporal_worker.py` | the workflow's decision | triage with 3 attempts, wait for a signal, execute with unlimited attempts | timeouts, overwritten signals, ends that leave the incident behind |
| Intake and triage | `src/api/main.py`; `process_webhook`, `triage_incident`, `save_agent_findings`, `triage_fallback` | `incident.status`, plans, findings | create, correlate, recover, investigate | awaits between a read and its use, late writers, retried saves |
| Investigation graph | `src/domain/agents/langgraph_investigator.py` | results of the agents | RCA, then impact and runbook, then critic | fallbacks that skip a check |
| Blueprint runner | `nemoclaw_repo/nemoclaw/src/blueprint/runner.ts`, `runtime-identity.ts` | `plan.json` of each run, markers; sandbox, providers, route in openshell | apply, clean up after a failure, roll back | crashes between a creation and its record, shared names, failures during cleanup |
| PR E2E gate | `nemoclaw_repo/tools/e2e/pr-e2e-*.mts`, `.github/workflows/pr-e2e-gate.yaml`, `e2e.yaml` | check runs, workflow runs, step outputs | seed, coordinate, approve, dispatch, reconcile, judge, retry, abandon, cancel | jobs interleaved call by call, lost answers, stale lists, killed steps |
| Remediation jobs | `localstack_lab/remediate.py`, `lambda_src/` | tables, manifests | check, clean up, rerun, verify | concurrent reruns |
| Alarm path | `localstack_lab/forwarder.py` | an SQS queue | forward an alarm to the webhook | deleted on failure |
| Event stream | `stream_events` | a watermark | poll the audit trail | events out of order |

The API is one process: its `async` handlers (webhook, triage, approve, execute,
the policy endpoints) run on the event loop and give it up only at an `await`;
its plain handlers (feedback) run in threads beside it.  The
Temporal worker is another process and runs activities in threads.  They meet
in PostgreSQL (READ COMMITTED, one connection per `get_connection` block) and
in the policy file, which each process caches.  The applies and rollbacks of the
blueprint runner are processes that meet in openshell, under the same names.
The jobs of the gate meet only through GitHub: check runs, workflow runs and concurrency groups.

The properties that make the parts correct:

* *Plan execution and revision*: each step recorded at most once, as far as the
  idempotency key can tell (**not under a second incident id, nor after an empty
  revision**, see below); a call is on record as a whole or not at all, about the plan's
  present steps; statuses tell the truth about the records; a failed verification is final, within
  the same limits; nobody replaces steps
  under a running transaction; every call ends; an incident is resolved only
  after every verification passed (**it is not**).
* *Gateway*: what the engine returns can be interpreted, and nothing that acted
  is reported as refused or rehearsed; a denied capability is not executed
  after a reload (**in the worker it is**).
* *Approval and workflow*: an approval is of one version as a whole; only an
  approved plan is executed, whatever happens to signals; the event loop is
  given back; what is executed is what was approved (**it is not**).
* *Intake and triage*: a plan comes with every status that needs one; an
  incident is investigated, or one of a few named failures has left it; an
  attempt saves one plan at most.
* *Blueprint runner*: what a run made is on record; a failed apply leaves
  nothing, a complete rollback neither; only what the run made is removed, the
  sandbox before its provider; credentials are attached after the route.
* *Gate*: one current check per diff (**not for forks**); a success is earned by the run
  it names; one retry for a lost runner, which leaves nothing behind; a failure is
  final; nothing stays at work for ever; one run at a time has credentials.

`PROJECT.json` lists the components with their status, and the hazards line by
line with the properties that cover them.

## The modules

| Module | What it is |
|---|---|
| `CapabilityModels` | result and verification statuses, and the pairs of them the engine can return; shared by the two below |
| `PlanExecution` | `execute_plan` and `triage_feedback` against PostgreSQL, the update of `approve_plan`, its properties and the inductive invariant |
| `AtomicPlan` | the abstract plan store: a plan is replaced, or run as a whole once per incident and version, in one step |
| `PlanApproval` | composed with `PlanExecution`: showing and approving a plan, the incident's workflow, direct execution and override |
| `CapabilityEngine` | the compiler's fallback, the engine's steps and the policy caches of the processes |
| `IncidentIntake` | webhook, triage and findings endpoints, the workflow's triage activity, the incident's status |
| `BlueprintRunner` | `actionApply`, its cleanup and `actionRollback` |
| `PrGate` | the jobs of the E2E gate of one diff, its child runs and the required job |
| `ExactDiffGate` | the abstract gate: one run at a time, and a pass only when one has succeeded |
| `MCPlanExecution`, `MCPlanApproval`, `MCCapabilityEngine`, `MCBlueprintRunner` | small instances for TLC (the other modules are instantiated by their cfg alone) |
| `*_proofs` | theorems about `PlanExecution`, `PlanApproval`, `CapabilityEngine`, `IncidentIntake`, `BlueprintRunner` and `PrGate` (three modules) |

### PlanExecution

*State.*  `plan`, `rows`, `executions`, `incident` and `audit` are committed
tables.
`rows[p]` carries the generation `gen` of the step rows, which stands for their
`action_step_id`s: two revisions insert different rows.  `call[e]` and
`revision[f]` hold the local variables of a thread and what its open
transaction has written; `planLock` and `stepLock` say which transaction has
updated the plan row, or updated or deleted the step rows.

*Actions.*  One per SQL statement that reads, locks, or can fail:
`ReadSteps`, `ReadVersion` (two snapshots), `Begin` (UPDATE action_plan),
`ClaimStep` (UPDATE action_step; nothing when the row is gone), `PerformStep`
(the engine), `RecordStep`/`RecordFails` (INSERT with its UNIQUE and foreign
keys, then the audit event on its own connection), `Finish` (verdict and
COMMIT), `Crash`; and for a revision `Draft`, `IssueDelete` (the DELETE takes its
snapshot), `DeleteSteps`/`DeleteFails`, `Revise`/`ReviseFails`,
`CrashRevision`.  A statement that meets a foreign lock is disabled until the
lock is free; `BreakDeadlock` is PostgreSQL's detector.  Any thread may call
`execute_plan` on any plan at any time, under any incident of the URL, which covers
Temporal's retries, an attempt that outlives its timeout, the approve endpoint's direct
execution and the execute endpoint.  A plan, and a revision, may have no steps.

*Abstractions.*  A step is its compiled (capability, arguments) pair; the engine is any
choice from `Outcomes`, a subset of what `CapabilityEngine` is proved to return.
The COMMIT of `Finish` and the audit events after it are one step.
The status EXECUTING never commits and is left out.  An incident id that does not exist is
left out too: `verification_result` refers to `incident`, so the first record fails as it
does in a crash.

### PlanApproval

*State.*  `approvals` are the approval rows; the hash in them is represented by
what it is computed from, the plan's version and steps (`Content`).  `request[u]`
is what user u sees and how far the endpoint has come with it; `workflow[i]` the
local variables of an `IncidentLifecycleWorkflow` and the argument of its
`execute_activity`; `overridden` the plans a commander had executed.  `history` is a ghost,
every content a plan has had.  The variables of `PlanExecution` are part of it:
`Statement` lets its transactions go on.

*Actions.*  `FetchPlan` and `FetchSteps` (`get_plans`, two statements),
`CheckPlan` and `CheckSteps` (`approve_plan`, first transaction), `RecordApproval`
(second transaction: the row, and `MarkApproved`), `Signal` (delivered; its
acknowledgement may be lost), `SignalFails`, `ExecuteDirectly`, `EndRequest`,
`Override`; for the workflow `StartAgain`, `TriageReported`, `Proceed`, `Attempt`
(Temporal may start another one while one runs) and `CompleteAttempt`.  `ReadSteps`, the first
statement of a call, happens only in `ExecuteDirectly`, `Override` and `Attempt`;
in `PlanExecution` anybody may take it at any time.

*The event loop.*  `approve_plan` and the execute endpoint are `async` and await
nothing but Temporal: no two of them are between their first and last
statement at once (`LoopFree`), and while one waits for a row lock the API
answers nobody.  Feedback runs in threads and is not held up.

*Abstractions.*  A decision other than "approve" is "reject".  The plan's rationale,
risk and other hashed fields change only together with its version.  Triage saves
no further plan here; that, and the status INVESTIGATING, is `IncidentIntake`'s part.

### CapabilityEngine

*State.*  `file` is the policy file with a version per edit, `cache[p]` the
cache of process p, `action[t]` the action a thread is executing, `reloaded` the
file's version when the reload endpoint last answered.

*Actions.*  `Start` (compile), `CheckPolicy` (loads the cache), `CheckPrecondition`,
`Execute`, `Verify`, `Return`; `EditPolicy`, `ReloadPolicy`, `ListCapabilities`,
`Restart`.  In the API process an action and the endpoints exclude each other
(`EventLoopFree`), because `execute_plan` runs synchronously on the event loop;
in the worker nothing does.  What a capability's three functions may answer is
a constant; the instance takes it from the registry.

### IncidentIntake

*State.*  `status`, the number of `plans` and the `impacted` row of each incident;
`flow[i]` its workflow with the triage attempt in a worker thread; `stray` the
threads of attempts that Temporal gave up; `request[r]` how far a call of the API
has come and which incidents it had `seen` as open; `connected`, whether the API has a Temporal
client; `begun`, a history of attempts and findings calls.

*Actions.*  `Receive` (the webhook reads the open incidents), then, when the model has
answered, `ResolveExternally`, `OpenIncident` or `NothingOpened`; `RequestTriage`, `PostFindings`,
`FindingsNotSaved`; `StartNothing`, `StartWorkflow`, `StartFails`; for the triage
activity `AttemptSaves`, `AttemptFallsBack`, `AttemptReturns`, `Fallback`,
`AttemptLost` (timeout, crash), `StraySaves`, `StrayEnds`; and in outline the
approval and execution that `PlanApproval` has in detail.  A block of the API
that holds a connection is synchronous, so it is one step; calls interleave at
`await watcher.analyze` and `await start_workflow`.

*Abstractions.*  Agents' findings are "saved or not, with an impact row or not".
Alerts that change no incident are `NothingOpened`.  Calls that name an incident
or a plan that does not exist are left out; one that names the plan of another incident is not
(`SomePlan`).  One incident is enough for the run:
incidents share nothing but the webhooks that list them.

### BlueprintRunner

*State.*  `resource` says who made the sandbox and the two providers that exist now
(a run, somebody `Outside`, or `None`), `attached` and `routed` what openshell knows besides; `plan`
is `plan.json` of each run, absent, torn or kept with its ownership flags;
`apply[r]` and `rollback[r]` are the processes with what they have in memory;
`marked` the `rolled_back` markers; `made` is a history.

*Actions.*  One per openshell command or save, named for it: `Inspect`,
`SeeIdentity`, `MakeIdentity`, `Refresh`, `MakeSandbox`, `SeeRacedSandbox`,
`MakeInference`, `SetRoute`, `Attach`, `SetPolicy`, `Save`; the cleanup
`UndoAttach`, `UndoIdentity`, `UndoSandbox`, `UndoInference`; `CommandFails`, `SaveFails`, `ApplyDies`; the rollback
`StartRollback`, `Detach`, `Remove`, `Mark`, `RollbackFails`.

*Abstractions.*  Inspecting a resource and removing it is one step; so is stopping and
removing the sandbox.  A command that fails has no effect.  A save that fails or is
killed leaves the old file or a torn one.  The profile import, the policy's contents and
the validation of the plan are left out; `routed` says that openshell accepted the route once.

### PrGate

*State.*  `checks` are the coordination check runs of one diff, oldest first, each
with the phase that its title says, its conclusion, and the markers in its text;
`runs` the child runs with their visibility in GitHub's list; `jobs[j]` the
step outputs and local variables of a workflow job; `required` the job branch
protection waits for; `live`, whether the pull request is open with this head
and base (a push and a closing end the diff alike).

*Actions.*  One per call to GitHub, in the order of the code: `SeedLive`,
`CoordinateLive`, `Ensure`, `Create`, `Mark`, `Evaluate`, `Conclude`; `Approve`,
`Authorize`, `Restore`; the dispatch `Recheck`, `Post`, `Reconcile`, `Adopt`, `Publish`, `Revoke`,
`CancelChild`; the verdict `Wait`, `Finish`, `Confirm`, `CloseCheck`, `FailCheck`; the
runner-loss retry `Retry`, `Reserve`, `Acquire`, `Prepare`, `Revalidate`, `Unretry`; the
steps marked `always()`, `Cleanup` and `Abandon`; `CancelRuns` and `CancelChecks`.
A PATCH or POST may fail with or without effect; `ReadFails`, `StepDies` (killed or
out of time; the job's later steps still run) and `Vanish` (the job's own runner
is lost).  `Environment` moves the pull request, shows, authenticates and ends child runs,
and runs the required job.

*Abstractions.*  The risk plan is one of `Plans`; evidence is good, bad or missing.  Lists
of check runs are taken to be consistent, those of workflow runs are not.  A
cancelled run goes on executing for a while ("stopping").  The manual skip, the
validation of GitHub's answers and the required job's timeout are left out.

## The runs

| Run | Instance | What it shows |
|---|---|---|
| `plan_execution_races` | one plan, no steps, `<<a>>` or `<<a, b>>`, 2 incidents in the URL, 2 executors, 2 revisers, 2 calls, 2 revisions (456,176 states) | the safety properties, the inductive invariant and the refinement of `AtomicPlan` |
| `plan_execution_progress` | two plans with an equal step or none, 2 executors, 1 reviser, 2 calls (51,295 states) | every call and every revision ends |
| `plan_execution_resolution` | one call | the docstring of `execute_plan` does not hold |
| `approval_signals` | one plan revised at most once, 2 users, the event loop and a worker thread, 2 calls | approvals are of one version; only approved or ordered plans are executed |
| `approval_loop` | the same with one user, with fairness | the event loop is always given back |
| `approval_binding` | as `approval_signals` | what is executed need not be what was approved |
| `capability_gateway` | 3 capabilities, 2 processes with a thread each, 2 edits, 2 calls | the engine's contract with its caller, and the API obeys a reload |
| `capability_reload` | the same | the worker does not |
| `incident_intake` | one incident, 3 calls of the API, 3 attempts, 1 stray thread | status, plans and workflow fit together, and an investigation ends or is named as abandoned |
| `blueprint_runner` | 2 runs, one with a runtime identity; at most 2 failures, 2 rollbacks, 3 of both | ownership on record, cleanup, rollback, order |
| `pr_gate` | 3 jobs, 3 checks, 3 child runs, 2 moves of the pull request, 1 failure | the verdict, the retry, finality, settling, and the refinement of `ExactDiffGate` |
| `pr_gate_fork` | the same for a fork | two active checks of one diff |

*Bounds.*  Two executors and two calls are an overlap, or an attempt and its retry (the
theorems are about any number); a step list of two has a first, a last and a "half way", an
empty one neither; two incidents are the plan's and another; two revisers
meet each other, so that one may wait for the other and find its rows gone.
`MaxRows` disables `Draft` when the plan has been revised that often, and
`MaxCalls` a further call.  Outcomes are reduced to a passed and a failed
verification where only the verdict matters, and extended by a refusal where
the difference does.  Two users make contrary decisions on different versions, so that a
signal overwrites another's, and two calls a direct execution beside the worker's; `MaxRequests`
bounds the plans shown.  Two edits give a prohibiting and a permitting entry in
either order.  Three calls open an incident, close it and ask for another triage; three attempts
are the code's own limit, and `MaxStray` = 1 lets one of them save after its
timeout.  Two failures are one that makes an apply clean up and one in the cleanup; `FewEvents`
(failures and rollbacks together at most 3) keeps that run within minutes.
Three jobs are a seed, a coordination and a cancellation, an approval or a second
coordination; three checks a lost runner, its replacement and one more; a move
and the move back make the diff live again.  The theorems remove these bounds
for the safety properties they are about.  Deadlock checking is off where the
calls, failures or jobs are used up in the end and nothing is left to do.

*Fairness.*  In the plan runs threads are strongly fair in their next statement,
since PostgreSQL queues the waiters of a row lock and grants it in turn; the
deadlock detector is weakly fair; `FairApprovalSpec` asks the same of an
approval's statements on the event loop.  In the intake run a call that starts a
workflow and an attempt are weakly fair: the client call returns or times out, and
Temporal enforces `start_to_close_timeout`.  In the gate's run some job that can take its next step does so in the end.
No fairness is assumed of callers, administrators,
pushes, failures or child runs, and the blueprint runner needs none.  The language
model and the capabilities are assumed to answer, or to raise, in the end.

*Mutants.*  Every property of a passing run has a mutation of a mapped
definition (`PROJECT.json`, operators marked "Mutation of" or "Mutant" in the
modules) that violates it: a missing constraint, a lock not taken, a reset forgotten.

## What does not hold

* **Unverified plans resolve incidents.**  `orchestrator.py:535` clears
  `all_verified` only for FAILED and INCONCLUSIVE.  An action that was denied, refused by
  its precondition, failed in `execute()` or was only rehearsed has a SKIPPED
  verification, and a plan of such actions ends EXECUTED, its incident RESOLVED.
  The docstring (484-487) says the opposite.  With the registry as it is,
  `cleanup_partial_write` is always rehearsed, and the rerun of order_events always
  refused, when a plan is compiled without parameters.
* **An approval does not bind the execution.**  The hash is compared in one
  transaction, the approval recorded in another, and `execute_plan` reads the
  steps that are there when it starts, without a look at the approval or its
  hash.  A revision in between is executed unapproved, against `plan_hash.py:4-7`.
* **The reload reaches one process.**  The worker keeps the policy it read
  first, so a capability prohibited since then, and reloaded, is still executed
  there, against `execution_engine.py:77-80`.
* **A revision without steps makes a plan executable again.**  No run shows this; the
  properties of `plan_execution_races` except it by name (`Overtaken`).  Two feedbacks of one
  plan delete the same rows (`orchestrator.py:640`).  The one that waited finds them
  replaced, deletes nothing, and, if the model proposed no steps (`:655`), inserts nothing;
  but it raises `plan_version` over the rows of the other, which may have been executed since.
  The idempotency key contains the version (`plan_compiler.py:41-43`), so the next
  call records the same rows again, and may mark a plan EXECUTED whose failure is on record.
  `docs/CURRENT_ARCHITECTURE_DESIGN_DOC.md:354` knows only revisions that replace the rows
  they raise the version of.
* **A fork's jobs do not queue.**  The `coordinate` job's concurrency group lacks the pull request's
  number and base for a fork, so it runs beside `initialize`; both may create a check, and every
  later job refuses the history, against `test/e2e/README.md:543-547`.

### Limits of what holds

The properties say what the code guarantees, which is at places less than a
reader expects.  None of the following is claimed by a passing run.

*Plan execution.*  The incident id of the URL goes into the key and into the update of
the incident's status (`main.py:415`, `473`), and nothing compares it with the plan's own: under
another id the same steps are recorded again, and that incident is marked (`AtMostOnce` and
`FailureIsFinal` are about one id, `AllOrNothing` about each).  A call that found no steps runs
nothing and marks the plan EXECUTED, whatever is on record (`Unhindered`).  The audit trail may announce executions that were rolled back
(`RecordsAudited` is one direction only).  "At most once" is about records, not
effects: a rolled-back attempt has acted, and its retry acts again.

*Intake.*  A recovery resolves a listed incident without another look at its
status (`orchestrator.py:672`, `710`; `ResolveExternally` has the step, and no property
is about it, since the one a reader wants is false); a late triage sets PLAN_READY over RESOLVED.  An incident stays
INVESTIGATING after a start that failed, a triage that failed, or without a Temporal client
(`Abandoned`); "fails visibly" (`incident_workflow.py:25-33`) is about the workflow only.
`triage_fallback` records its findings under agents ("RCA-Agent", "Commander") of
which no row is inserted (`002_domain_model.sql` inserts only "SYSTEM"), so its
transaction cannot commit and it never yields a plan; that is also what keeps an
attempt that failed after its commit from saving twice.  Such an attempt reports no plan
although one is saved.  Retries may save several plans.
`state_machine.py` declares transitions that nothing calls, and the statuses written do not follow them.
In the investigation graph, the critic's policy check (`langgraph_investigator.py:127`)
runs before the fallback to the runbook's steps (187-194), which are not checked again.

*Blueprint runner.*  The `rolled_back` marker is never read and the ownership flags
are kept (`runner.ts:1361-1449`), so that a repeated rollback removes, by name, what another
run has made since; `RemovesOnlyWhatItMade` is what is left.  A process that dies between a creation
and its save leaves an orphan, and the plan is rewritten in place (966-985), so that
one that dies in a save may tear it; `OwnershipIsDurable` excepts both.  A save that fails in
the cleanup ends it, and the provider stays.  A runtime identity may be
compensated twice.  Policy additions are not undone and the route is not restored.

*Gate.*  `cancelPrGate` closes checks from the list it made earlier
(`pr-e2e-gate.mts:4185`), also a retryable failure whose replacement is reserved by
then; the history is unreadable from there on.  `markCheckInProgress` (1291)
reopens a check that was cancelled meanwhile.  When the answer to the closing PATCH is lost,
a success is overwritten with a failure (3819), so that success is not final.
A cancelled check of a reopened pull request is never started again.
`RetryLeavesNothing` and `ChecksSettle` are about at most one failure and no lost job runner (`Undisturbed`).

## What is proved

Every safety property of a passing run is a theorem for all values of the
constants.  `Inductive` of the races run is the invariant of its proof.

`PlanExecution_proofs` proves every safety property of the races run and the refinement,
for all plans, incidents, threads, step lists (empty ones included) and outcomes, from the
assumptions on the constants alone.  `RecordsAudited` and `NoReplacementUnderRun` need little:
they follow from `Held`, an open transaction holds its plan row, and what it has
recorded is in the audit trail.

The argument is one inductive invariant, `Inductive`.  The obvious properties are
not inductive: why can a second attempt not record a plan that was revised
after the first read it?  Because no rows are younger than the version
(`VersionsAgree`), what a call has read is the present or older (`CallsAgree`),
an open transaction holds the plan row and, from its first recorded step on,
works on the present rows of a plan, with no record yet under its incident and version, and
holds them (`RunsIsolated`), and a revision that has deleted the present rows holds them and
no record refers to them (`RevisionsIsolated`).  From that, records are about the
present steps (`RecordsCurrent`) and complete (`RecordsComplete`).  Each action has
a lemma; `AppearsAtomic` maps `Finish` to `Run`, `Revise` to `Replace` or, of the revision
that waited and has no steps, to `PassOver`, and every other action to a stutter.

`PlanApproval_proofs` proves, without a hypothesis on the proposals, type correctness,
`ExecutionIsApproved` and `ApprovedAsAWhole`.  Neither is inductive; `ApprovalInductive`
adds why.  A hash that matches stands for a whole version although it
was read on four snapshots, because versions only grow: what the user sees
with a version that is still the present one, or that the endpoint finds again,
has that version's steps (`RequestSound`).  An approve decision in a request or a
workflow has its approval row (`WorkflowsSound`), and no approval is of a later version than the
plan's, so a call that reads its version after it was approved reads none that is
older (`CallApproved`).  The last theorem, `ApprovalSpec => Spec`, carries the
theorems about `PlanExecution` over to the composition.

`CapabilityEngine_proofs` proves type correctness, the engine's contract and
`ApiObeysReload` from `EngineAssumption`, with `EngineInductive`: nothing has acted
before it is executed, and the API's cache is never older than the last reload.

`IncidentIntake_proofs` proves the five safety properties from `IntakeAssumption`.
The invariant adds to the types: a workflow past its triage, and an attempt that
has committed, have a plan (`PlanFirst`); an incident that is INVESTIGATING is excused by a call,
a workflow or a failure (`Excused`); and the plans saved and those that an
attempt, a stray thread or a call may still save are no more than were begun (`Counted`).

`BlueprintRunner_proofs` proves all seven properties for any set of runs and any
number of failures and rollbacks.  For each run the invariant `RunInv` relates what the process has
in memory to what exists (`Claims`), to its plan on disk (`Ledger`), what a cleanup has removed so far
(`Cleans`), what a rollback has (`Undone`), and the route (`Routes`).  Steps of one run keep the others'
parts because `resource` names the maker: nobody's step makes a resource another's.

`PrGate_proofs` proves type correctness, `SuccessIsEarned` and that the required job
passes only on an earned success (`RequiredPassIsEarned`, the half of
`ExactDiffGate` that is about the verdict), for any number of checks, runs, jobs, moves
and failures, and for forks.  A job judges a run several calls before it closes its check, and it may have learnt of
the run from a late list: the invariant says, for each phase of a job, that the
run it has, or may have lost, was dispatched for the check it holds, and that a verdict "success" is of a run that
has ended so (`Knows`).  `Shape` factors the proof: each of the job's actions replaces the job
by one that knows what it must, changes at most one check, and stops runs or adds one; the
invariant is shown once for that shape.

`PrGateRefinement_proofs` proves `OneCurrentCheck`, `FailureIsFinal`
and that the gate implements `ExactDiffGate`, for any number of checks, runs, jobs, moves and failures,
from `~Fork` alone; the run `pr_gate_fork` shows that `OneCurrentCheck` needs it.  The invariant `Order` says that of
the jobs the concurrency group holds back at most one is at work, and what that one may rely on without
asking again: a coordination that looks at an unstarted or retryable check has no live run
(`Found`, `MayStart`), a job that creates a check finds the others old (`Starts`), a job that prepares a
run has an undecided check and no live run, one that attends to its run has no other (`Works`), and a
reason for a retry is only held when nothing is live (`Judges`).  A run is live when it executes or its check
lets it start; the check of the live run is the current one and links to it (`RunsOk`), so there is one,
and `Authenticate` maps to `Start`, `RunEnds` to `End`, the required job's
verdict to `Pass` or `Fail`, and every step of a job to a stutter.  Cancellations and child runs are not held back; all their
steps are `Calm`: a check stays or is cancelled, and no run comes to life.
`~Fork` is needed: of a fork, TLC finds `OneCurrentCheck` and `FailureIsFinal` violated
on instances as small as the run's, and two runs that execute at once with 5 jobs.

`PrGateRetry_proofs` proves `RetryLeavesNothing`, from `~Fork` as well.  That nothing is
left when all jobs have ended says nothing of the states before; `Tidy` does.  A current check that
looks at work or is reserved for a retry is among the open checks of the job at
work (`Tends`), or is the replacement whose creation that job was not told of
(`Replaces`); a check that authorises a retry is the source of a job that takes it up or gives
it back (`Owes`).  A job may only be in the phases that give up (`Aftermath`) after a failure;
as that was the one there may be, these phases then do their work, and each of them
hands its check on or closes it.  With two failures the property is false.

`PrGateRetry_proofs` also proves `OneRunnerLossRetry`, and here `~Fork` is not needed: two jobs
may then coordinate a fork's diff side by side, but neither retries it.  The invariant is `Apart`:
of the jobs bound to the diff's group one is at work, as before, and a job that a fork let in
unbound never has a plan to dispatch, so it ends before the retry begins (`Outer`).  No check that
comes after the one a working job holds is a lost runner's (`NoneLater`), and who carries the reason
"child-cancelled" knows of no earlier one (`NoneElse`).  Every step but the verdict
that closes a check loses no runner (`Lossless`), so only that verdict has to be argued.

Only model-checked, because it needs reasoning about fairness: the liveness properties
`EveryCallReturns`, `EveryRevisionReturns`, `LoopIsGivenBack`, `ChecksSettle` and
`InvestigationEnds`.

## Not modelled

* *Remediation jobs, the alarm path and the event stream*: a sequential script, a loop
  with one call per message, and a read-only poll.  Their hazards are listed in
  `PROJECT.json`.
* *Agents and tools, the investigation graph's content*: prompts, answers and read-only queries.
* *Authentication, queries, user interfaces, the data generator and simulator.*
* *NemoClaw's snapshots and migration state*: copies of directories by one process.
* *NemoClaw's CI tooling and image and agent configuration*: static analyses, report generators, patchers
  and configuration generators, that is most of the repository's TypeScript.  They are
  functions from text to text; what could be wrong in them is the text, which the models
  abstract.  The map therefore covers a small share of the repository's lines, and
  nearly all of the code in which several processes change shared state.
