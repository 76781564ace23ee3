---------------------------- MODULE PlanApproval ----------------------------
(***************************************************************************)
(* From a plan on a user's screen to its execution: get_plans shows a plan *)
(* with the hash of its content, approve_plan compares the hash, records   *)
(* the decision and signals the incident's workflow, which executes the    *)
(* plan in the worker; when the signal fails the API executes it itself.   *)
(* Composed with PlanExecution, whose revisions go on meanwhile.           *)
(***************************************************************************)
EXTENDS PlanExecution

CONSTANTS Users,         \* people with the dashboard open
          ApiExecutor,   \* the API's event loop, when it runs execute_plan
          MaxRequests    \* bound: plans shown

ASSUME ApprovalAssumption ==
    /\ ApiExecutor \in Executors
    /\ MaxRequests \in Nat

VARIABLES
    approvals,   \* approval rows: the plan, the content its hash stands for, the decision
    request,     \* what each user sees, and how far the approve endpoint has come with it
    workflow,    \* the IncidentLifecycleWorkflow of each incident
    overridden,  \* plans that a commander has had executed without approval
    requests,    \* number of plans shown so far
    history      \* every content a plan has had, with its version

approvalVars == <<approvals, request, workflow, overridden, requests>>
allVars == <<vars, approvalVars, history>>

Workers == Executors \ {ApiExecutor}

Decisions == {"approve", "reject"}

Approval == [plan : Plans, version : Nat, actions : Seq(Actions), decision : Decisions]

RequestPhase == {"idle", "plan_fetched", "shown", "checking", "checked", "recorded",
                 "unsignalled"}

\* version and actions are those the user sees, incident the one in the URL of the
\* approve request, found the version the endpoint selects.
Request == [phase : RequestPhase, plan : Plans \cup {NoPlan}, version : Nat,
            actions : Seq(Actions), incident : Incidents \cup {NoIncident},
            found : Nat, decision : Decisions]

NoRequest == [phase |-> "idle", plan |-> NoPlan, version |-> 0, actions |-> <<>>,
              incident |-> NoIncident, found |-> 0, decision |-> "reject"]

\* plan is the one of the last signal, running the one execute_activity was called with.
Workflow == [phase : {"triaging", "waiting", "executing", "closed"},
             decision : Decisions \cup {"none"},
             plan : Plans \cup {NoPlan}, running : Plans \cup {NoPlan}]

NewWorkflow(phase) ==
    [phase |-> phase, decision |-> "none", plan |-> NoPlan, running |-> NoPlan]

-----------------------------------------------------------------------------
(* The endpoints                                                           *)

\* Approve, execute and override run on the event loop, which they give up only
\* while they wait for Temporal.
LoopFree ==
    /\ \A u \in Users : request[u].phase \notin {"checking", "checked"}
    /\ call[ApiExecutor].phase = "idle"

\* get_plans, first statement: the plan's row, version included.
FetchPlan(u, p) ==
    /\ request[u].phase = "idle"
    /\ requests < MaxRequests
    /\ requests' = requests + 1
    /\ request' = [request EXCEPT ![u] = [NoRequest EXCEPT !.phase = "plan_fetched", !.plan = p,
                                                           !.version = plan[p].version]]
    /\ UNCHANGED <<vars, approvals, workflow, overridden>>

\* Second statement: its steps.  The hash of both goes to the browser.
FetchSteps(u) ==
    /\ request[u].phase = "plan_fetched"
    /\ request' = [request EXCEPT ![u].phase = "shown",
                                  ![u].actions = rows[request[u].plan].actions]
    /\ UNCHANGED <<vars, approvals, workflow, overridden, requests>>

\* The user decides; the endpoint selects the plan's row, whichever incident the
\* request is for ...
CheckPlan(u, i, decision) ==
    /\ request[u].phase = "shown"
    /\ LoopFree
    /\ request' = [request EXCEPT ![u].phase = "checking", ![u].decision = decision,
                                  ![u].incident = i,
                                  ![u].found = plan[request[u].plan].version]
    /\ UNCHANGED <<vars, approvals, workflow, overridden, requests>>

\* Mutation of HashMatches: the hash is of the steps alone.
StepsMatch(r) == r.actions = rows[r.plan].actions

\* The hash is of the plan's fields, its version among them, and of its steps.
HashMatches(r) == r.version = r.found /\ r.actions = rows[r.plan].actions

\* ... and the steps, and compares: 409 if the hash differs.
CheckSteps(u) ==
    /\ request[u].phase = "checking"
    /\ request' = IF HashMatches(request[u]) THEN [request EXCEPT ![u].phase = "checked"]
                                             ELSE [request EXCEPT ![u] = NoRequest]
    /\ UNCHANGED <<vars, approvals, workflow, overridden, requests>>

\* Second transaction: the approval row, and APPROVED whatever the decision is.
RecordApproval(u) ==
    LET r == request[u] IN
    /\ r.phase = "checked"
    /\ MarkApproved(r.plan)
    /\ approvals' = approvals \cup {[plan |-> r.plan, version |-> r.version,
                                     actions |-> r.actions, decision |-> r.decision]}
    /\ request' = [request EXCEPT ![u].phase = "recorded"]
    /\ UNCHANGED <<workflow, overridden, requests>>

\* The signal reaches the workflow and overwrites what an earlier one has left.
\* Its acknowledgement may be lost.
Signal(u) ==
    LET i == request[u].incident IN
    /\ request[u].phase = "recorded"
    /\ workflow[i].phase # "closed"
    /\ workflow' = [workflow EXCEPT ![i].decision = request[u].decision,
                                    ![i].plan = request[u].plan]
    /\ \/ request' = [request EXCEPT ![u] = NoRequest]
       \/ request' = [request EXCEPT ![u].phase = "unsignalled"]
    /\ UNCHANGED <<vars, approvals, overridden, requests>>

\* Temporal is away, or the workflow is closed or was never started.
SignalFails(u) ==
    /\ request[u].phase = "recorded"
    /\ request' = [request EXCEPT ![u].phase = "unsignalled"]
    /\ UNCHANGED <<vars, approvals, workflow, overridden, requests>>

\* Mutation of ExecuteDirectly: also when the decision was to reject.
ExecuteAnyway(u) ==
    /\ request[u].phase = "unsignalled"
    /\ LoopFree
    /\ ReadSteps(ApiExecutor, request[u].plan, request[u].incident)
    /\ request' = [request EXCEPT ![u] = NoRequest]
    /\ UNCHANGED <<approvals, workflow, overridden, requests>>

\* No signal: the endpoint calls execute_plan itself.
ExecuteDirectly(u) ==
    /\ request[u].phase = "unsignalled"
    /\ request[u].decision = "approve"
    /\ LoopFree
    /\ ReadSteps(ApiExecutor, request[u].plan, request[u].incident)
    /\ request' = [request EXCEPT ![u] = NoRequest]
    /\ UNCHANGED <<approvals, workflow, overridden, requests>>

\* The endpoint answers a rejection, a statement of it raises, or the user goes away.
EndRequest(u) ==
    /\ request[u].phase # "idle"
    /\ request' = [request EXCEPT ![u] = NoRequest]
    /\ UNCHANGED <<vars, approvals, workflow, overridden, requests>>

\* The execute endpoint: a commander overrides the approval.
Override(p, i) ==
    /\ LoopFree
    /\ ReadSteps(ApiExecutor, p, i)
    /\ overridden' = overridden \cup {p}
    /\ UNCHANGED <<approvals, request, workflow, requests>>

-----------------------------------------------------------------------------
(* IncidentLifecycleWorkflow, once there is a plan                          *)

\* A workflow id is free again when its workflow has closed: the incident is
\* triaged once more, while an attempt of the last workflow may still be running.
StartAgain(i) ==
    /\ workflow[i].phase = "closed"
    /\ workflow' = [workflow EXCEPT ![i] = NewWorkflow("triaging")]
    /\ UNCHANGED <<vars, approvals, request, overridden, requests>>

\* The triage activity reports the plan it has saved, or an error.
TriageReported(i) ==
    /\ workflow[i].phase = "triaging"
    /\ \E phase \in {"waiting", "closed"} :
          workflow' = [workflow EXCEPT ![i].phase = phase]
    /\ UNCHANGED <<vars, approvals, request, overridden, requests>>

\* The wait ends when there is a decision, also one signalled before it began.
Proceed(i) ==
    LET w == workflow[i] IN
    /\ w.phase = "waiting"
    /\ w.decision # "none"
    /\ workflow' = IF w.decision = "approve"
                   THEN [workflow EXCEPT ![i].phase = "executing", ![i].running = w.plan]
                   ELSE [workflow EXCEPT ![i].phase = "closed"]
    /\ UNCHANGED <<vars, approvals, request, overridden, requests>>

\* An attempt of the execution activity; an earlier one may still be running.
Attempt(e, i) ==
    /\ workflow[i].phase = "executing"
    /\ ReadSteps(e, workflow[i].running, i)
    /\ UNCHANGED approvalVars

\* The attempt succeeds; Temporal may have given it up by then.
CompleteAttempt(e) ==
    LET i == call[e].incident IN
    /\ Finish(e)
    /\ \/ workflow[i].phase = "executing" /\ workflow' = [workflow EXCEPT ![i].phase = "closed"]
       \/ UNCHANGED workflow
    /\ UNCHANGED <<approvals, request, overridden, requests>>

\* What goes on in the database besides.
Statement ==
    /\ \/ \E e \in Executors : \/ ReadVersion(e)
                               \/ Begin(e)
                               \/ ClaimStep(e)
                               \/ PerformStep(e)
                               \/ RecordStep(e)
                               \/ RecordFails(e)
                               \/ Crash(e)
       \/ Finish(ApiExecutor)
       \/ \E f \in Revisers : \/ \E i \in Incidents : Draft(f, i)
                              \/ ProgressRevision(f)
                              \/ CrashRevision(f)
       \/ \E e \in Executors, f \in Revisers : BreakDeadlock(e, f)
    /\ UNCHANGED approvalVars

-----------------------------------------------------------------------------
\* A plan's content as a user may see it: the plan's version with its steps.
Content(p, version, actions) == [plan |-> p, version |-> version, actions |-> actions]

Shows == {Content(p, plan[p].version, rows[p].actions) : p \in Plans}

ApprovalInit ==
    /\ Init
    /\ approvals = {}
    /\ request = [u \in Users |-> NoRequest]
    /\ \E phase \in [Incidents -> {"triaging", "waiting", "closed"}] :
          workflow = [i \in Incidents |-> NewWorkflow(phase[i])]
    /\ overridden = {}
    /\ requests = 0
    /\ history = Shows

RequestStep(u) ==
    \/ \E p \in Plans : FetchPlan(u, p)
    \/ FetchSteps(u)
    \/ \E i \in Incidents, decision \in Decisions : CheckPlan(u, i, decision)
    \/ CheckSteps(u)
    \/ RecordApproval(u)
    \/ Signal(u)
    \/ SignalFails(u)
    \/ ExecuteDirectly(u)
    \/ EndRequest(u)

WorkflowStep(i) ==
    \/ StartAgain(i)
    \/ TriageReported(i)
    \/ Proceed(i)
    \/ \E e \in Workers : Attempt(e, i)

Record == history' = history \cup Shows'

ApprovalStep ==
    \/ \E u \in Users : RequestStep(u)
    \/ \E i \in Incidents : WorkflowStep(i)
    \/ \E e \in Workers : CompleteAttempt(e)
    \/ \E p \in Plans, i \in Incidents : Override(p, i)
    \/ Statement

ApprovalNext == ApprovalStep /\ Record

ApprovalSpec == ApprovalInit /\ [][ApprovalNext]_allVars

\* The statements of a request that holds the event loop go on as PostgreSQL
\* lets them, like those of the threads in PlanExecution.
LoopStep(u) == CheckSteps(u) \/ RecordApproval(u)

DatabaseFairness ==
    /\ \A u \in Users : SF_allVars(LoopStep(u) /\ Record)
    /\ \A e \in Executors : SF_allVars(Statement /\ Progress(e) /\ Record)
    /\ \A e \in Workers : SF_allVars(CompleteAttempt(e) /\ Record)
    /\ \A f \in Revisers : SF_allVars(Statement /\ ProgressRevision(f) /\ Record)
    /\ \A e \in Executors, f \in Revisers :
          WF_allVars(Statement /\ BreakDeadlock(e, f) /\ Record)

FairApprovalSpec == ApprovalSpec /\ DatabaseFairness

-----------------------------------------------------------------------------
(* Properties                                                              *)

\* The approval rows, the requests and the workflows have their types.
ApprovalTypeOK ==
    /\ TypeOK
    /\ approvals \subseteq Approval
    /\ request \in [Users -> Request]
    /\ workflow \in [Incidents -> Workflow]
    /\ overridden \subseteq Plans
    /\ requests \in Nat
    /\ history \subseteq [plan : Plans, version : Nat, actions : Seq(Actions)]

\* Nobody approves a mixture: although get_plans and approve_plan each read the
\* plan and its steps on two snapshots, with revisions in between, a hash that
\* matches is of a version together with the steps it had.
ApprovedAsAWhole == \A a \in approvals : Content(a.plan, a.version, a.actions) \in history

\* Whatever happens to the signals -- early, overwritten by a contrary one, lost,
\* or acknowledged too late -- only a plan that was approved is executed, or one
\* that a commander ordered; and never in a version older than the approved.
ExecutionIsApproved ==
    \A x \in executions :
        \/ x.plan \in overridden
        \/ \E a \in approvals :
              a.plan = x.plan /\ a.decision = "approve" /\ a.version <= x.version

\* The API answers again: the event loop does not wait for ever for a plan's
\* row that an execution or a revision has locked.
LoopIsGivenBack == ~LoopFree ~> LoopFree

\* plan_hash.py: the hash is there "to bind a human approval decision to the
\* *exact* plan content that was presented to the approver".  What is executed
\* without an override is what was approved.
ExecutedAsApproved ==
    \A x \in executions :
        \/ x.plan \in overridden
        \/ \E a \in approvals :
              /\ a.plan = x.plan
              /\ a.decision = "approve"
              /\ x.seq \in DOMAIN a.actions /\ a.actions[x.seq] = x.action

-----------------------------------------------------------------------------
(* Why they hold: an inductive invariant                                   *)

Approved(p) == \E a \in approvals : a.plan = p /\ a.decision = "approve"

InHistory(r) == Content(r.plan, r.version, r.actions) \in history

\* What a user sees is the present version or an older one.  While it is the
\* present one the steps are its own; so they are once the endpoint has found
\* the same version, which it may have read before a revision.
RequestSound(u) ==
    LET r == request[u] IN
    r.phase # "idle" =>
        /\ r.plan \in Plans
        /\ r.phase \notin {"plan_fetched", "shown"} => r.incident \in Incidents
        /\ r.version <= plan[r.plan].version
        /\ r.phase = "shown" /\ r.version = plan[r.plan].version => InHistory(r)
        /\ r.phase = "checking" /\ r.version = r.found => InHistory(r)
        /\ r.phase = "checked" => InHistory(r)
        /\ r.phase \in {"recorded", "unsignalled"} /\ r.decision = "approve" => Approved(r.plan)

RequestsSound == \A u \in Users : RequestSound(u)

ApprovalsSound ==
    /\ Shows \subseteq history
    /\ ApprovedAsAWhole
    /\ \A a \in approvals : a.version <= plan[a.plan].version

WorkflowsSound ==
    \A i \in Incidents :
        /\ workflow[i].decision = "approve" => Approved(workflow[i].plan)
        /\ workflow[i].phase = "executing" => Approved(workflow[i].running)

\* Who executes a plan was ordered to, or goes by an approval that is not
\* younger than the version he has read.
CallApproved(e) ==
    LET c == call[e] IN
    c.phase # "idle" =>
        \/ c.plan \in overridden
        \/ \E a \in approvals :
              /\ a.plan = c.plan
              /\ a.decision = "approve"
              /\ c.phase # "steps_read" => a.version <= c.version

CallsApproved == \A e \in Executors : CallApproved(e)

ApprovalInductive ==
    /\ ApprovalTypeOK
    /\ CallsWellFormed
    /\ RevisionsWellFormed
    /\ RequestsSound
    /\ ApprovalsSound
    /\ WorkflowsSound
    /\ CallsApproved
    /\ ExecutionIsApproved
=============================================================================
