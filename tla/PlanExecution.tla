---------------------------- MODULE PlanExecution ----------------------------
(***************************************************************************)
(* IncidentOrchestrator.execute_plan and triage_feedback, run concurrently *)
(* against PostgreSQL: the API server and the Temporal worker (whose       *)
(* activity may be retried while an earlier attempt still runs) execute a  *)
(* plan, the feedback endpoint replaces its steps, the approve endpoint    *)
(* marks it APPROVED.                                                      *)
(*                                                                         *)
(* A database transaction is a sequence of actions.  What it writes stays  *)
(* in the caller's own record (call, revision) until it commits; what it   *)
(* locks is in planLock (the action_plan row) and stepLock (the plan's     *)
(* action_step rows).  A statement that meets another transaction's lock   *)
(* waits: its action is disabled.                                          *)
(***************************************************************************)
EXTENDS Naturals, Sequences, FiniteSets, CapabilityModels

CONSTANTS Plans,         \* action_plan ids
          Incidents,     \* incident ids
          NoIncident,
          LatestPlan,    \* the newest plan of an incident, or NoPlan
          NoPlan,
          Actions,       \* steps, as far as their capability and arguments go
          Contents,      \* the step lists the language model may propose
          Outcomes,      \* what the engine may return
          Executors,     \* threads that run execute_plan
          Revisers,      \* threads that run triage_feedback
          Nobody,        \* the holder of a free lock
          MaxCalls,      \* bound: calls of execute_plan
          MaxRows        \* bound: generations of step rows of a plan

ASSUME ConstantsAssumption ==
    /\ LatestPlan \in [Incidents -> Plans \cup {NoPlan}]
    /\ NoPlan \notin Plans
    /\ NoIncident \notin Incidents
    /\ Contents \subseteq Seq(Actions)
    /\ Outcomes \subseteq EngineOutcomes
    /\ Executors \cap Revisers = {}
    /\ Nobody \notin Executors \cup Revisers
    /\ MaxCalls \in Nat
    /\ MaxRows \in Nat

VARIABLES
    plan,        \* action_plan rows: status and plan_version
    rows,        \* the current action_step rows of each plan
    executions,  \* committed action_execution and verification_result rows
    incident,    \* incident.status
    audit,       \* ACTION_EXECUTED events, committed on their own connection
    planLock,    \* which transaction has updated the action_plan row
    stepLock,    \* which transaction has updated or deleted the step rows
    call,        \* the execute_plan call each executor is in
    revision,    \* the triage_feedback call each reviser is in
    calls        \* number of execute_plan calls so far

tables == <<plan, rows, executions, incident>>
locks == <<planLock, stepLock>>
vars == <<plan, rows, executions, incident, audit, planLock, stepLock, call, revision, calls>>

-----------------------------------------------------------------------------
(* Rows and local state                                                    *)

PlanStatus == {"PENDING_APPROVAL", "NEEDS_REVIEW", "APPROVED", "EXECUTED", "FAILED"}
StepStatus == {"PENDING", "SUCCEEDED", "FAILED"}
IncidentStatus == {"PLAN_READY", "RESOLVED", "FAILED"}

\* gen tells apart the rows two revisions insert: their action_step_ids differ.
StepRows == [gen : Nat, actions : Seq(Actions), status : Seq(StepStatus)]

NewRows(gen, actions) ==
    [gen |-> gen, actions |-> actions, status |-> [k \in 1..Len(actions) |-> "PENDING"]]

Execution == [plan : Plans, incident : Incidents, gen : Nat, seq : Nat, version : Nat,
              action : Actions, outcome : Outcomes]

\* plan_compiler._compute_idempotency_key: the plan's own id is not part of it, and
\* the incident is the one the caller named.
Key(x) == <<x.incident, x.version, x.seq, x.action>>

CallPhase == {"idle", "steps_read", "compiled", "running", "claimed", "performed"}

\* incident is the one in the request's URL, or the one the workflow is for.
Call == [phase : CallPhase, plan : Plans \cup {NoPlan},
         incident : Incidents \cup {NoIncident}, gen : Nat,
         actions : Seq(Actions), version : Nat, done : Seq(Outcomes),
         outcome : Outcomes \cup {Unsuccessful}]

NoCall == [phase |-> "idle", plan |-> NoPlan, incident |-> NoIncident, gen |-> 0, actions |-> <<>>,
           version |-> 0, done |-> <<>>, outcome |-> Unsuccessful]

RevisionPhase == {"idle", "drafted", "deleting", "deleted"}

Revision == [phase : RevisionPhase, plan : Plans \cup {NoPlan}, gen : Nat,
             actions : Seq(Actions)]

NoRevision == [phase |-> "idle", plan |-> NoPlan, gen |-> 0, actions |-> <<>>]

\* The transaction of e has begun and holds the plan row.
InTransaction(e) == call[e].phase \in {"running", "claimed", "performed"}

\* The position of the step e works on.
Current(e) == Len(call[e].done) + 1

\* The execution row e inserts for step k of its plan with outcome o.
RowOf(e, k, o) ==
    [plan |-> call[e].plan, incident |-> call[e].incident, gen |-> call[e].gen, seq |-> k,
     version |-> call[e].version, action |-> call[e].actions[k], outcome |-> o]

\* The execution rows e has inserted and not yet committed.
Pending(e) == {RowOf(e, k, call[e].done[k]) : k \in 1..Len(call[e].done)}

\* The step rows e read are still the plan's rows.
StepsExist(e) == call[e].gen = rows[call[e].plan].gen

Release(lock, a) == [p \in Plans |-> IF lock[p] = a THEN Nobody ELSE lock[p]]

-----------------------------------------------------------------------------
(* execute_plan                                                            *)

\* First transaction, first statement: SELECT the steps.  Nothing compares the
\* incident with the one the plan was made for.
ReadSteps(e, p, i) ==
    /\ call[e].phase = "idle"
    /\ calls < MaxCalls
    /\ calls' = calls + 1
    /\ call' = [call EXCEPT ![e] = [NoCall EXCEPT !.phase = "steps_read", !.plan = p,
                                                  !.incident = i,
                                                  !.gen = rows[p].gen,
                                                  !.actions = rows[p].actions]]
    /\ UNCHANGED <<tables, locks, audit, revision>>

\* Second statement, on its own snapshot: SELECT plan_version; then compile.
ReadVersion(e) ==
    /\ call[e].phase = "steps_read"
    /\ call' = [call EXCEPT ![e].phase = "compiled",
                            ![e].version = plan[call[e].plan].version]
    /\ UNCHANGED <<tables, locks, audit, revision, calls>>

\* Mutation of Begin: the plan row is updated only at the end.
BeginUnlocked(e) ==
    /\ call[e].phase = "compiled"
    /\ call' = [call EXCEPT ![e].phase = "running"]
    /\ UNCHANGED <<tables, locks, audit, revision, calls>>

\* Second transaction: UPDATE action_plan SET status = 'EXECUTING'.
Begin(e) ==
    /\ call[e].phase = "compiled"
    /\ planLock[call[e].plan] = Nobody
    /\ planLock' = [planLock EXCEPT ![call[e].plan] = e]
    /\ call' = [call EXCEPT ![e].phase = "running"]
    /\ UNCHANGED <<tables, stepLock, audit, revision, calls>>

\* UPDATE action_step SET status = 'EXECUTING': waits for a transaction that
\* has locked the row, and updates nothing when the row is gone.
ClaimStep(e) ==
    LET p == call[e].plan IN
    /\ call[e].phase = "running"
    /\ Current(e) <= Len(call[e].actions)
    /\ StepsExist(e) => stepLock[p] \in {Nobody, e}
    /\ stepLock' = IF StepsExist(e) THEN [stepLock EXCEPT ![p] = e] ELSE stepLock
    /\ call' = [call EXCEPT ![e].phase = "claimed"]
    /\ UNCHANGED <<tables, planLock, audit, revision, calls>>

\* execution_engine.execute_compiled_action.
PerformStep(e) ==
    /\ call[e].phase = "claimed"
    /\ \E o \in Outcomes :
          call' = [call EXCEPT ![e].phase = "performed", ![e].outcome = o]
    /\ UNCHANGED <<tables, locks, audit, revision, calls>>

\* The INSERT waits while another open transaction has inserted the same key.
KeyWaits(e, x) == \E d \in Executors \ {e} : \E y \in Pending(d) : Key(y) = Key(x)

\* Mutation of Conflicts: no UNIQUE constraint on the idempotency key.
ConflictsWithoutKey(e, x) == ~StepsExist(e)

\* Mutation of Conflicts: no foreign key from the execution to its step.
ConflictsWithoutStep(e, x) == \E y \in executions : Key(y) = Key(x)

\* The INSERT is refused: the key is taken, or the step row is gone.
Conflicts(e, x) == (\E y \in executions : Key(y) = Key(x)) \/ ~StepsExist(e)

\* Mutation of RecordStep: the event is left for after the commit.
RecordStepUnaudited(e) ==
    LET x == RowOf(e, Current(e), call[e].outcome) IN
    /\ call[e].phase = "performed"
    /\ ~KeyWaits(e, x)
    /\ ~Conflicts(e, x)
    /\ call' = [call EXCEPT ![e].phase = "running",
                            ![e].done = Append(@, call[e].outcome)]
    /\ UNCHANGED <<tables, locks, audit, revision, calls>>

\* UPDATE action_step, INSERT action_execution and verification_result, then
\* the ACTION_EXECUTED event, which _log_audit commits at once.
RecordStep(e) ==
    LET x == RowOf(e, Current(e), call[e].outcome) IN
    /\ call[e].phase = "performed"
    /\ ~KeyWaits(e, x)
    /\ ~Conflicts(e, x)
    /\ call' = [call EXCEPT ![e].phase = "running",
                            ![e].done = Append(@, call[e].outcome)]
    /\ audit' = audit \cup {x}
    /\ UNCHANGED <<tables, locks, revision, calls>>

\* Mutation of Rollback: the connection goes back with its transaction open.
RollbackForgotten(e) ==
    /\ call' = [call EXCEPT ![e] = NoCall]
    /\ UNCHANGED locks

\* get_connection's except branch: roll back and raise to the caller.
Rollback(e) ==
    /\ call' = [call EXCEPT ![e] = NoCall]
    /\ planLock' = Release(planLock, e)
    /\ stepLock' = Release(stepLock, e)

\* The INSERT of RecordStep violates a constraint.
RecordFails(e) ==
    LET x == RowOf(e, Current(e), call[e].outcome) IN
    /\ call[e].phase = "performed"
    /\ ~KeyWaits(e, x)
    /\ Conflicts(e, x)
    /\ Rollback(e)
    /\ UNCHANGED <<tables, audit, revision, calls>>

\* Verification counts as failed only when it ran and did not pass.
Unverified(o) == o.verification \in {"FAILED", "INCONCLUSIVE"}

\* Mutation of AllVerified: each step overwrites the verdict of the one before.
LastVerified(e) ==
    call[e].done # <<>> => ~Unverified(call[e].done[Len(call[e].done)])

AllVerified(e) == \A k \in 1..Len(call[e].done) : ~Unverified(call[e].done[k])

\* Mutations of StepStatusOf: the bare result; verification is not looked at.
StepStatusIsResult(o) == o.result
StepStatusUnverified(o) == IF o.result = "SUCCESS" THEN "SUCCEEDED" ELSE "FAILED"

StepStatusOf(o) == IF o = Executed("PASSED") THEN "SUCCEEDED" ELSE "FAILED"

\* The final UPDATEs of action_plan and incident, and COMMIT.
Finish(e) ==
    LET p == call[e].plan
        verdict == IF AllVerified(e) THEN "EXECUTED" ELSE "FAILED" IN
    /\ call[e].phase = "running"
    /\ Current(e) > Len(call[e].actions)
    /\ plan' = [plan EXCEPT ![p].status = verdict]
    /\ rows' = IF StepsExist(e)
               THEN [rows EXCEPT ![p].status =
                        [k \in 1..Len(call[e].done) |-> StepStatusOf(call[e].done[k])]]
               ELSE rows
    /\ executions' = executions \cup Pending(e)
    /\ incident' = [incident EXCEPT ![call[e].incident] =
                        IF AllVerified(e) THEN "RESOLVED" ELSE "FAILED"]
    /\ Rollback(e)
    /\ UNCHANGED <<audit, revision, calls>>

\* Mutation of Crash: every statement commits on its own.
CrashCommitted(e) ==
    /\ call[e].phase # "idle"
    /\ executions' = executions \cup Pending(e)
    /\ Rollback(e)
    /\ UNCHANGED <<plan, rows, incident, audit, revision, calls>>

\* The process dies, the connection breaks or a statement raises.
Crash(e) ==
    /\ call[e].phase # "idle"
    /\ Rollback(e)
    /\ UNCHANGED <<tables, audit, revision, calls>>

-----------------------------------------------------------------------------
(* triage_feedback                                                         *)

\* Read the newest plan of the incident and ask the model for another one.
Draft(f, i) ==
    /\ revision[f].phase = "idle"
    /\ LatestPlan[i] # NoPlan
    /\ rows[LatestPlan[i]].gen < MaxRows
    /\ \E actions \in Contents :
          revision' = [revision EXCEPT ![f] = [phase |-> "drafted", plan |-> LatestPlan[i],
                                               gen |-> 0, actions |-> actions]]
    /\ UNCHANGED <<tables, locks, audit, call, calls>>

\* DELETE FROM action_step starts: it will delete the rows of its snapshot.
IssueDelete(f) ==
    /\ revision[f].phase = "drafted"
    /\ revision' = [revision EXCEPT ![f].phase = "deleting",
                                    ![f].gen = rows[revision[f].plan].gen]
    /\ UNCHANGED <<tables, locks, audit, call, calls>>

\* The rows of the snapshot are still there to be deleted.
SnapshotHolds(f) ==
    LET r == rows[revision[f].plan] IN r.gen = revision[f].gen /\ r.actions # <<>>

\* Mutation of Referenced: no foreign key, the rows can always be deleted.
NeverReferenced(f) == FALSE

\* action_execution rows refer to the step rows (foreign key).
Referenced(f) ==
    \E x \in executions : x.plan = revision[f].plan /\ x.gen = revision[f].gen

\* The DELETE gets the rows, or finds them replaced and deletes nothing.
DeleteSteps(f) ==
    LET p == revision[f].plan IN
    /\ revision[f].phase = "deleting"
    /\ SnapshotHolds(f) => stepLock[p] = Nobody /\ ~Referenced(f)
    /\ stepLock' = IF SnapshotHolds(f) THEN [stepLock EXCEPT ![p] = f] ELSE stepLock
    /\ revision' = [revision EXCEPT ![f].phase = "deleted"]
    /\ UNCHANGED <<tables, planLock, audit, call, calls>>

\* Mutation of AbandonRevision: no rollback, the deleted rows stay locked.
AbandonForgotten(f) ==
    /\ revision' = [revision EXCEPT ![f] = NoRevision]
    /\ UNCHANGED <<tables, locks, audit, call, calls>>

AbandonRevision(f) ==
    /\ revision' = [revision EXCEPT ![f] = NoRevision]
    /\ stepLock' = Release(stepLock, f)
    /\ UNCHANGED <<tables, planLock, audit, call, calls>>

\* The DELETE violates the foreign key: roll back.
DeleteFails(f) ==
    /\ revision[f].phase = "deleting"
    /\ SnapshotHolds(f)
    /\ stepLock[revision[f].plan] = Nobody
    /\ Referenced(f)
    /\ AbandonRevision(f)

\* A step row with the same sequence_no is already there (UNIQUE): another
\* revision committed while this one waited.
RowsCollide(f) ==
    LET r == rows[revision[f].plan] IN
    r.gen # revision[f].gen /\ r.actions # <<>> /\ revision[f].actions # <<>>

\* UPDATE action_plan (version, status), INSERT the new rows, COMMIT.
Revise(f) ==
    LET p == revision[f].plan IN
    /\ revision[f].phase = "deleted"
    /\ planLock[p] = Nobody
    /\ ~RowsCollide(f)
    /\ plan' = [plan EXCEPT ![p] = [status |-> "PENDING_APPROVAL", version |-> @.version + 1]]
    /\ rows' = IF rows[p].gen = revision[f].gen \/ rows[p].actions = <<>>
               THEN [rows EXCEPT ![p] = NewRows(@.gen + 1, revision[f].actions)]
               ELSE rows
    /\ revision' = [revision EXCEPT ![f] = NoRevision]
    /\ stepLock' = Release(stepLock, f)
    /\ UNCHANGED <<executions, incident, planLock, audit, call, calls>>

ReviseFails(f) ==
    /\ revision[f].phase = "deleted"
    /\ planLock[revision[f].plan] = Nobody
    /\ RowsCollide(f)
    /\ AbandonRevision(f)

\* The model's answer is an error, or the process dies.
CrashRevision(f) ==
    /\ revision[f].phase # "idle"
    /\ AbandonRevision(f)

-----------------------------------------------------------------------------
(* The approve endpoint's second transaction, and PostgreSQL               *)

\* UPDATE action_plan SET status = 'APPROVED', whatever the status was.
MarkApproved(p) ==
    /\ planLock[p] = Nobody
    /\ plan' = [plan EXCEPT ![p].status = "APPROVED"]
    /\ UNCHANGED <<rows, executions, incident, locks, audit, call,
                   revision, calls>>

\* e has the plan row and wants the step rows; f has the step rows and wants
\* the plan row.
Deadlocked(e, f) ==
    /\ call[e].phase = "running"
    /\ Current(e) <= Len(call[e].actions)
    /\ StepsExist(e)
    /\ revision[f].phase = "deleted"
    /\ revision[f].plan = call[e].plan
    /\ planLock[call[e].plan] = e
    /\ stepLock[call[e].plan] = f

\* PostgreSQL's deadlock detector cancels one of the two statements.
BreakDeadlock(e, f) ==
    /\ Deadlocked(e, f)
    /\ \/ AbandonRevision(f)
       \/ /\ Rollback(e)
          /\ UNCHANGED <<tables, audit, revision, calls>>

-----------------------------------------------------------------------------
Init ==
    /\ \E status \in [Plans -> {"PENDING_APPROVAL", "NEEDS_REVIEW"}] :
          plan = [p \in Plans |-> [status |-> status[p], version |-> 1]]
    /\ \E actions \in [Plans -> Contents] :
          rows = [p \in Plans |-> NewRows(1, actions[p])]
    /\ executions = {}
    /\ incident = [i \in Incidents |-> "PLAN_READY"]
    /\ audit = {}
    /\ planLock = [p \in Plans |-> Nobody]
    /\ stepLock = [p \in Plans |-> Nobody]
    /\ call = [e \in Executors |-> NoCall]
    /\ revision = [f \in Revisers |-> NoRevision]
    /\ calls = 0

Progress(e) ==
    \/ ReadVersion(e)
    \/ Begin(e)
    \/ ClaimStep(e)
    \/ PerformStep(e)
    \/ RecordStep(e)
    \/ RecordFails(e)
    \/ Finish(e)

ProgressRevision(f) ==
    \/ IssueDelete(f)
    \/ DeleteSteps(f)
    \/ DeleteFails(f)
    \/ Revise(f)
    \/ ReviseFails(f)

Next ==
    \/ \E e \in Executors : \/ \E p \in Plans, i \in Incidents : ReadSteps(e, p, i)
                            \/ Progress(e)
                            \/ Crash(e)
    \/ \E f \in Revisers : \/ \E i \in Incidents : Draft(f, i)
                           \/ ProgressRevision(f)
                           \/ CrashRevision(f)
    \/ \E e \in Executors, f \in Revisers : BreakDeadlock(e, f)
    \/ \E p \in Plans : MarkApproved(p)

Spec == Init /\ [][Next]_vars

\* Threads run on, PostgreSQL grants a released row lock to its waiters in
\* turn, and its deadlock detector works.  Nobody has to call anything.
Fairness ==
    /\ \A e \in Executors : SF_vars(Progress(e))
    /\ \A f \in Revisers : SF_vars(ProgressRevision(f))
    /\ \A e \in Executors, f \in Revisers : WF_vars(BreakDeadlock(e, f))

FairSpec == Spec /\ Fairness

-----------------------------------------------------------------------------
(* Properties                                                              *)

\* Every variable holds rows and local state of its type.
TypeOK ==
    /\ plan \in [Plans -> [status : PlanStatus, version : Nat]]
    /\ rows \in [Plans -> StepRows]
    /\ executions \subseteq Execution
    /\ incident \in [Incidents -> IncidentStatus]
    /\ audit \subseteq Execution
    /\ planLock \in [Plans -> Executors \cup {Nobody}]
    /\ stepLock \in [Plans -> Executors \cup Revisers \cup {Nobody}]
    /\ call \in [Executors -> Call]
    /\ revision \in [Revisers -> Revision]
    /\ calls \in Nat

RecordsOf(p) == {x \in executions : x.plan = p}

\* The version of p has been raised over rows that were not replaced, at some time:
\* a revision that waited for another found other rows than it meant to delete, and
\* had none to insert.
Overtaken(p) == plan[p].version # rows[p].gen

\* However often a plan is executed -- by Temporal's retries, by a second click, by
\* an attempt that outlived its timeout -- each of its steps has at most one recorded
\* execution (the idempotency key is UNIQUE), as far as the key tells: it has another
\* for another incident id in the URL, and another for each version that an empty
\* revision raised over the rows.
AtMostOnce ==
    \A x, y \in executions :
        /\ x.plan = y.plan /\ x.gen = y.gen /\ x.seq = y.seq
        /\ x.incident = y.incident
        => x = y \/ (x.version # y.version /\ Overtaken(x.plan))

\* What is on record together with x: of its plan, under one incident and version.
RecordedWith(x) ==
    {y \in RecordsOf(x.plan) : y.incident = x.incident /\ y.version = x.version}

\* A call of execute_plan is on record with every one of the steps the plan shows
\* now, or with none, and under a version these steps have had: a crash half way or
\* a revision in between leaves no partial or orphaned record.
AllOrNothing ==
    \A x \in executions :
        /\ {y.seq : y \in RecordedWith(x)} = DOMAIN rows[x.plan].actions
        /\ x.gen = rows[x.plan].gen
        /\ x.action = rows[x.plan].actions[x.seq]
        /\ x.gen <= x.version /\ x.version <= plan[x.plan].version

\* The status the step rows show is one a recorded execution justifies: SUCCEEDED
\* only with a recorded success that verification passed, FAILED only with a record
\* of something else, and PENDING exactly while nothing is recorded.
RowsMatchRecords ==
    \A p \in Plans : \A k \in DOMAIN rows[p].actions :
        LET outcomes == {x.outcome : x \in {y \in RecordsOf(p) : y.seq = k}}
            status == rows[p].status[k] IN
        /\ status = "PENDING" <=> outcomes = {}
        /\ status = "SUCCEEDED" => Executed("PASSED") \in outcomes
        /\ status = "FAILED" => outcomes \ {Executed("PASSED")} # {}

\* An execution that is on record was announced in the audit trail, whatever
\* crashed: the event is committed before the row (the reverse fails: the event
\* outlives a rollback).
RecordsAudited == executions \subseteq audit

\* The calls that a record x cannot stop: one that read no steps, and one whose keys
\* are others because it names another incident or has read another version.
Unhindered(e, x) ==
    \/ call[e].actions = <<>>
    \/ call[e].incident # x.incident
    \/ call[e].version # x.version /\ Overtaken(x.plan)

\* A plan with a step on record whose verification failed or was inconclusive does
\* not become EXECUTED: no retry turns the failure into a success, except by the
\* commit of a call that the record cannot stop.
FailureIsFinal ==
    [][\A x \in executions' :
          Unverified(x.outcome) /\ plan'[x.plan].status = "EXECUTED" =>
              \/ x \in executions /\ plan[x.plan].status = "EXECUTED"
              \/ \E e \in Executors : /\ InTransaction(e) /\ call'[e].phase = "idle"
                                      /\ call[e].plan = x.plan
                                      /\ Unhindered(e, x)]_vars

\* The rows of a plan are never replaced while a transaction that runs its
\* present steps is open: no step is pulled away under its executor.
NoReplacementUnderRun ==
    [][\A p \in Plans : rows'[p].gen # rows[p].gen =>
          ~\E e \in Executors : InTransaction(e) /\ call[e].plan = p]_vars

\* Every call of execute_plan ends, committed or rolled back: neither the row
\* locks nor a wait for another transaction's key hold it for ever.
EveryCallReturns == \A e \in Executors : call[e].phase # "idle" ~> call[e].phase = "idle"

\* Every revision ends as well.
EveryRevisionReturns ==
    \A f \in Revisers : revision[f].phase # "idle" ~> revision[f].phase = "idle"

\* The docstring of execute_plan: "The incident is only marked RESOLVED if
\* verification actually passed for every action".  When a call marks the
\* incident RESOLVED, every action it ran passed verification.
ResolvedOnlyIfVerified ==
    [][\A i \in Incidents : incident[i] # "RESOLVED" /\ incident'[i] = "RESOLVED" =>
          \A x \in executions' \ executions : x.outcome.verification = "PASSED"]_vars

-----------------------------------------------------------------------------
(* Why the properties hold: an inductive invariant.                         *)

\* How far a call has come: its plan is one of the plans, and it has recorded
\* no more steps than it read.
CallsWellFormed ==
    \A e \in Executors :
        LET c == call[e] IN
        /\ c.phase # "idle" => c.plan \in Plans /\ c.incident \in Incidents
        /\ Len(c.done) <= Len(c.actions)
        /\ c.phase \in {"idle", "steps_read", "compiled"} => c.done = <<>>
        /\ c.phase \in {"claimed", "performed"} => Len(c.done) < Len(c.actions)
        /\ c.phase = "performed" => c.outcome \in Outcomes

\* A revision brings steps that the model proposed.
RevisionsWellFormed ==
    \A f \in Revisers : revision[f].phase # "idle" =>
        revision[f].plan \in Plans /\ revision[f].actions \in Contents

\* Whenever the rows are replaced, the version is raised.
VersionsAgree == \A p \in Plans : rows[p].gen <= plan[p].version

\* What an executor has read is what the plan shows, or older.
CallAgrees(e) ==
    LET c == call[e] IN
    call[e].phase # "idle" =>
        /\ c.gen <= rows[c.plan].gen
        /\ c.gen = rows[c.plan].gen => c.actions = rows[c.plan].actions
        /\ c.phase # "steps_read" => c.gen <= c.version /\ c.version <= plan[c.plan].version

CallsAgree == \A e \in Executors : CallAgrees(e)

\* The step rows have been locked, if they were still there.
HasClaimed(e) == call[e].phase \in {"claimed", "performed"} \/ call[e].done # <<>>

\* x is on record under the incident and the version of e's call.
SameRun(e, x) ==
    x.plan = call[e].plan /\ x.incident = call[e].incident /\ x.version = call[e].version

\* An open transaction holds the plan row; once it has recorded a step it works
\* on the present rows of the plan, and holds them, and nothing else of the plan is on
\* record under its incident and version.
RunIsolated(e) ==
    InTransaction(e) =>
        /\ planLock[call[e].plan] = e
        /\ HasClaimed(e) /\ StepsExist(e) => stepLock[call[e].plan] = e
        /\ call[e].done # <<>> =>
              /\ StepsExist(e)
              /\ \A x \in executions : ~SameRun(e, x)

RunsIsolated == \A e \in Executors : RunIsolated(e)

\* A revision that has deleted the present rows holds them, and no record
\* refers to them.
RevisionIsolated(f) ==
    revision[f].phase # "idle" =>
        /\ revision[f].gen <= rows[revision[f].plan].gen
        /\ revision[f].phase = "deleted" /\ SnapshotHolds(f) =>
              stepLock[revision[f].plan] = f /\ ~Referenced(f)

RevisionsIsolated == \A f \in Revisers : RevisionIsolated(f)

\* What is on record is about the present steps of its plan ...
RecordsCurrent ==
    \A x \in executions :
        /\ x.gen = rows[x.plan].gen
        /\ x.gen <= x.version /\ x.version <= plan[x.plan].version
        /\ x.seq \in DOMAIN rows[x.plan].actions
        /\ x.action = rows[x.plan].actions[x.seq]

\* ... and complete.
RecordsComplete ==
    \A x \in executions : \A k \in DOMAIN rows[x.plan].actions :
        \E y \in RecordedWith(x) : y.seq = k

\* What is about to be committed has been announced too.
PendingAudited == \A e \in Executors : Pending(e) \subseteq audit

Inductive ==
    /\ TypeOK
    /\ CallsWellFormed
    /\ RevisionsWellFormed
    /\ VersionsAgree
    /\ CallsAgree
    /\ RunsIsolated
    /\ RevisionsIsolated
    /\ RecordsCurrent
    /\ RecordsComplete
    /\ AtMostOnce
    /\ RecordsAudited
    /\ PendingAudited

-----------------------------------------------------------------------------
(* What execute_plan and triage_feedback promise together: a plan runs as a   *)
(* whole, once for each incident and version, and its steps are not replaced  *)
(* afterwards.                                                                *)

Abstract == INSTANCE AtomicPlan WITH versions <- [p \in Plans |-> plan[p].version]

\* Every behaviour of the transactions is one of the atomic specification: what
\* interleaves, waits, crashes and is retried looks like whole runs and revisions.
ImplementsAtomicPlan == Abstract!Spec
=============================================================================
