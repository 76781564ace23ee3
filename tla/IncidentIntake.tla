--------------------------- MODULE IncidentIntake ---------------------------
(***************************************************************************)
(* From a webhook to a plan: process_webhook asks a model what an alert    *)
(* means and opens or closes an incident, the API starts the incident's    *)
(* workflow, the workflow's triage activity investigates and saves a plan, *)
(* and the plan is approved, executed or rejected.  Every block of the     *)
(* API that holds a connection is synchronous and so one step; its awaits  *)
(* (the model's answer, start_workflow) are where requests interleave.     *)
(***************************************************************************)
EXTENDS Naturals, FiniteSets

CONSTANTS Incidents,         \* incident ids
          Requests,          \* calls of the API's webhook, triage and findings endpoints
          None,
          MaximumAttempts,   \* of the triage activity: RetryPolicy(maximum_attempts=3)
          MaxStray           \* bound: attempts still at work after their timeout

ASSUME IntakeAssumption ==
    /\ None \notin Incidents
    /\ MaximumAttempts \in Nat \ {0}
    /\ MaxStray \in Nat

VARIABLES
    connected,   \* the API's Temporal client: connected at startup or never
    status,      \* status of each incident, "absent" before it has a row
    plans,       \* number of action plans of each incident
    impacted,    \* incidents with an impact row for the asset their investigations name
    flow,        \* the IncidentLifecycleWorkflow of each incident
    stray,       \* attempts of each incident that go on after Temporal gave them up
    request,     \* how far each call of the API has come
    begun        \* history: attempts and findings calls of each incident

vars == <<connected, status, plans, impacted, flow, stray, request, begun>>

Status == {"absent", "INVESTIGATING", "PLAN_READY", "RESOLVED", "FAILED"}

Decisions == {"approve", "reject"}

\* thread is the triage attempt in a thread of the worker: investigating, with
\* its findings committed but not yet audited, or in triage_fallback.
Flow == [pc : {"none", "triage", "approval", "execution", "failed", "completed"},
         attempt : 0..MaximumAttempts,
         thread : {"none", "investigate", "audit", "fallback"},
         decision : Decisions \cup {None}]

Running == {"triage", "approval", "execution"}

Request == [pc : {"idle", "analyze", "start", "answered", "failed"},
            incident : Incidents \cup {None}, seen : SUBSET Incidents]

TypeOK ==
    /\ connected \in BOOLEAN
    /\ status \in [Incidents -> Status]
    /\ plans \in [Incidents -> Nat]
    /\ impacted \subseteq Incidents
    /\ flow \in [Incidents -> Flow]
    /\ stray \in [Incidents -> 0..MaxStray]
    /\ request \in [Requests -> Request]
    /\ begun \in [Incidents -> Nat]

Init ==
    /\ connected \in BOOLEAN
    /\ status = [i \in Incidents |-> "absent"]
    /\ plans = [i \in Incidents |-> 0]
    /\ impacted = {}
    /\ flow = [i \in Incidents |->
                 [pc |-> "none", attempt |-> 0, thread |-> "none", decision |-> None]]
    /\ stray = [i \in Incidents |-> 0]
    /\ request = [r \in Requests |-> [pc |-> "idle", incident |-> None, seen |-> {}]]
    /\ begun = [i \in Incidents |-> 0]

-----------------------------------------------------------------------------
(* What the actions are made of.                                           *)

SetStatus(i, s) == status' = [status EXCEPT ![i] = s]

Goes(r, pc) == request' = [request EXCEPT ![r].pc = pc]

\* The workflow is left as w.
Becomes(i, w) == flow' = [flow EXCEPT ![i] = w]

\* Mutant: saved_plan is not looked at.
AfterAnyTriage(w, saved) == [w EXCEPT !.pc = "approval", !.thread = "none"]

\* What the workflow does with the triage activity's result.
AfterTriage(w, saved) ==
    [w EXCEPT !.pc = IF saved THEN "approval" ELSE "failed", !.thread = "none"]

\* Mutant: without the transaction the status can be set and the plan lost.
SaveInParts(i) ==
    /\ plans' \in {plans, [plans EXCEPT ![i] = @ + 1]}
    /\ SetStatus(i, "PLAN_READY")
    /\ UNCHANGED impacted

\* The transaction of save_agent_findings.  (incident, asset) is the key of
\* incident_impact: a second save that names the asset again fails, with its plan.
SaveFindings(i) ==
    /\ plans' = [plans EXCEPT ![i] = @ + 1]
    /\ SetStatus(i, "PLAN_READY")
    /\ \/ UNCHANGED impacted                                  \* names no asset
       \/ i \notin impacted /\ impacted' = impacted \cup {i}

-----------------------------------------------------------------------------
(* POST /ingest/webhook.                                                   *)

\* The incidents shown to the model: nothing sets CLOSED or CANCELLED, and a
\* FAILED incident is still listed.
Receive(r) ==
    /\ request[r].pc = "idle"
    /\ request' = [request EXCEPT ![r].pc = "analyze",
                                  ![r].seen = {i \in Incidents :
                                                 status[i] \notin {"absent", "RESOLVED"}}]
    /\ UNCHANGED <<connected, status, plans, impacted, flow, stray, begun>>

\* The id the model correlates the alert with counts only when it was listed.
Listed(r, i) == i \in request[r].seen

\* A recovery signal resolves the incident, whatever has become of it meanwhile.
ResolveExternally(r) ==
    /\ request[r].pc = "analyze"
    /\ \E i \in Incidents :
         /\ Listed(r, i)
         /\ SetStatus(i, "RESOLVED")
    /\ Goes(r, "answered")
    /\ UNCHANGED <<connected, plans, impacted, flow, stray, begun>>

\* Mutant: the incident is opened and its workflow never started.
OpenIncidentOnly(r) ==
    /\ request[r].pc = "analyze"
    /\ \E i \in Incidents : status[i] = "absent" /\ SetStatus(i, "INVESTIGATING")
    /\ Goes(r, "answered")
    /\ UNCHANGED <<connected, plans, impacted, flow, stray, begun>>

\* A HIGH or CRITICAL alert of no listed incident opens one.
OpenIncident(r) ==
    /\ request[r].pc = "analyze"
    /\ \E i \in Incidents :
         /\ status[i] = "absent"
         /\ SetStatus(i, "INVESTIGATING")
         /\ request' = [request EXCEPT ![r].pc = "start", ![r].incident = i]
    /\ UNCHANGED <<connected, plans, impacted, flow, stray, begun>>

\* Noise, an alert that is only stored or mapped, an error of the model, a
\* transaction rolled back because its audit failed.
NothingOpened(r) ==
    /\ request[r].pc = "analyze"
    /\ \E pc \in {"answered", "failed"} : Goes(r, pc)
    /\ UNCHANGED <<connected, status, plans, impacted, flow, stray, begun>>

-----------------------------------------------------------------------------
(* The other endpoints, and the start of a workflow.                       *)

\* POST /incidents/{id}/triage, up to its await: whatever the status was.
RequestTriage(r) ==
    /\ request[r].pc = "idle"
    /\ \E i \in Incidents :
         /\ status[i] # "absent"
         /\ SetStatus(i, "INVESTIGATING")
         /\ request' = [request EXCEPT ![r].pc = "start", ![r].incident = i]
    /\ UNCHANGED <<connected, plans, impacted, flow, stray, begun>>

\* POST /incidents/{id}/agent-findings.
PostFindings(r) ==
    /\ request[r].pc = "idle"
    /\ \E i \in Incidents :
         /\ status[i] # "absent"
         /\ SaveFindings(i)
         /\ begun' = [begun EXCEPT ![i] = @ + 1]
         /\ request' = [request EXCEPT ![r].pc = "answered", ![r].incident = i]
    /\ UNCHANGED <<connected, flow, stray>>

\* Its payload reports an error, names an asset again, or no incident.
FindingsNotSaved(r) ==
    /\ request[r].pc = "idle"
    /\ Goes(r, "failed")
    /\ UNCHANGED <<connected, status, plans, impacted, flow, stray, begun>>

\* temporal_client is None: answered all the same.
StartNothing(r) ==
    /\ request[r].pc = "start"
    /\ ~connected
    /\ Goes(r, "answered")
    /\ UNCHANGED <<connected, status, plans, impacted, flow, stray, begun>>

\* start_workflow under the incident's workflow id, which must not be running;
\* its answer may be lost.
StartWorkflow(r) ==
    /\ request[r].pc = "start"
    /\ connected
    /\ \E i \in Incidents :
         /\ request[r].incident = i
         /\ flow[i].pc \notin Running
         /\ Becomes(i, [pc |-> "triage", attempt |-> 1, thread |-> "investigate",
                        decision |-> None])
         /\ begun' = [begun EXCEPT ![i] = @ + 1]
    /\ \E pc \in {"answered", "failed"} : Goes(r, pc)
    /\ UNCHANGED <<connected, status, plans, impacted, stray>>

\* Temporal refuses (the workflow runs already) or is away, or the API dies.
StartFails(r) ==
    /\ request[r].pc = "start"
    /\ Goes(r, "failed")
    /\ UNCHANGED <<connected, status, plans, impacted, flow, stray, begun>>

-----------------------------------------------------------------------------
(* The triage activity: triage_incident in a thread of the worker.         *)

Triaging(i, thread) == flow[i].pc = "triage" /\ flow[i].thread = thread

\* The investigation's findings are committed, plan and status together.
AttemptSaves(i) ==
    /\ Triaging(i, "investigate")
    /\ SaveFindings(i)
    /\ Becomes(i, [flow[i] EXCEPT !.thread = "audit"])
    /\ UNCHANGED <<connected, stray, request, begun>>

\* The agents raise, or the findings cannot be saved, or the audit that
\* follows the commit raises: all of it is caught, and the fallback tried.
AttemptFallsBack(i) ==
    /\ \E thread \in {"investigate", "audit"} : Triaging(i, thread)
    /\ Becomes(i, [flow[i] EXCEPT !.thread = "fallback"])
    /\ UNCHANGED <<connected, status, plans, impacted, stray, request, begun>>

AttemptReturns(i) ==
    /\ Triaging(i, "audit")
    /\ Becomes(i, AfterTriage(flow[i], TRUE))
    /\ UNCHANGED <<connected, status, plans, impacted, stray, request, begun>>

\* Mutant: the rows that the fallback refers to exist, and it can commit.
AllAgentRuns == {"SYSTEM", "RCA-Agent", "Commander"}

\* The rows of agent_run, and those that the fallback's hypothesis and plan
\* refer to by foreign keys: no code inserts another row than SYSTEM.
AgentRuns == {"SYSTEM"}

FallbackRuns == {"RCA-Agent", "Commander"}

\* triage_fallback is one transaction, which its foreign keys roll back.
Fallback(i) ==
    /\ Triaging(i, "fallback")
    /\ IF FallbackRuns \subseteq AgentRuns
       THEN SaveFindings(i) /\ Becomes(i, AfterTriage(flow[i], TRUE))
       ELSE /\ UNCHANGED <<status, plans, impacted>>
            /\ Becomes(i, AfterTriage(flow[i], FALSE))
    /\ UNCHANGED <<connected, stray, request, begun>>

\* Mutants: one attempt too many, and the unlimited policy of before.
RetriedOnceMore(w) ==
    IF w.attempt <= MaximumAttempts
    THEN [w EXCEPT !.attempt = @ + 1, !.thread = "investigate"]
    ELSE [w EXCEPT !.pc = "failed", !.thread = "none"]

RetriedForever(w) ==
    [w EXCEPT !.attempt = IF w.attempt < MaximumAttempts THEN w.attempt + 1 ELSE w.attempt,
              !.thread = "investigate"]

\* After a timeout or a failure the activity is tried again, or the workflow fails.
Retried(w) ==
    IF w.attempt < MaximumAttempts
    THEN [w EXCEPT !.attempt = @ + 1, !.thread = "investigate"]
    ELSE [w EXCEPT !.pc = "failed", !.thread = "none"]

\* start_to_close_timeout passes, the worker dies or the activity raises before
\* its try: the thread may go on, though nobody waits for its result.
AttemptLost(i) ==
    /\ flow[i].pc = "triage"
    /\ \/ UNCHANGED stray
       \/ /\ flow[i].thread = "investigate"
          /\ stray[i] < MaxStray
          /\ stray' = [stray EXCEPT ![i] = @ + 1]
    /\ Becomes(i, Retried(flow[i]))
    /\ begun' = [begun EXCEPT ![i] = IF flow[i].attempt < MaximumAttempts THEN @ + 1 ELSE @]
    /\ UNCHANGED <<connected, status, plans, impacted, request>>

\* A thread that Temporal gave up saves its findings after all.
StraySaves(i) ==
    /\ stray[i] > 0
    /\ SaveFindings(i)
    /\ stray' = [stray EXCEPT ![i] = @ - 1]
    /\ UNCHANGED <<connected, flow, request, begun>>

StrayEnds(i) ==
    /\ stray[i] > 0
    /\ stray' = [stray EXCEPT ![i] = @ - 1]
    /\ UNCHANGED <<connected, status, plans, impacted, flow, request, begun>>

-----------------------------------------------------------------------------
(* The plan's approval and execution (PlanApproval and PlanExecution have  *)
(* them in detail).                                                        *)

\* The incident in the URL need not be the one the plan was made for.
SomePlan == \E i \in Incidents : plans[i] > 0

\* approve_plan signals the workflow, also before it waits for a decision.
Approve(i) ==
    /\ SomePlan
    /\ connected
    /\ flow[i].pc \in Running
    /\ \E d \in Decisions : Becomes(i, [flow[i] EXCEPT !.decision = d])
    /\ UNCHANGED <<connected, status, plans, impacted, stray, request, begun>>

Executed(i) == \E s \in {"RESOLVED", "FAILED"} : SetStatus(i, s)

\* The endpoints execute a plan themselves: approve when it cannot signal, execute always.
ExecuteDirectly(i) ==
    /\ SomePlan
    /\ status[i] # "absent"
    /\ Executed(i)
    /\ UNCHANGED <<connected, plans, impacted, flow, stray, request, begun>>

WorkflowDecides(i) ==
    /\ flow[i].pc = "approval"
    /\ flow[i].decision # None
    /\ Becomes(i, [flow[i] EXCEPT !.pc = IF flow[i].decision = "approve"
                                         THEN "execution" ELSE "completed"])
    /\ UNCHANGED <<connected, status, plans, impacted, stray, request, begun>>

\* The execution activity is retried without limit when it raises after its commit.
WorkflowExecutes(i) ==
    /\ flow[i].pc = "execution"
    /\ Executed(i)
    /\ \E pc \in {"execution", "completed"} : Becomes(i, [flow[i] EXCEPT !.pc = pc])
    /\ UNCHANGED <<connected, plans, impacted, stray, request, begun>>

-----------------------------------------------------------------------------
Call(r) == \/ Receive(r) \/ ResolveExternally(r) \/ OpenIncident(r) \/ NothingOpened(r)
           \/ RequestTriage(r) \/ PostFindings(r) \/ FindingsNotSaved(r)
           \/ StartNothing(r) \/ StartWorkflow(r) \/ StartFails(r)

Triage(i) == \/ AttemptSaves(i) \/ AttemptFallsBack(i) \/ AttemptReturns(i)
             \/ Fallback(i) \/ AttemptLost(i) \/ StraySaves(i) \/ StrayEnds(i)

Recovery(i) == \/ Approve(i) \/ ExecuteDirectly(i)
               \/ WorkflowDecides(i) \/ WorkflowExecutes(i)

Next == \/ \E r \in Requests : Call(r)
        \/ \E i \in Incidents : Triage(i) \/ Recovery(i)

Spec == Init /\ [][Next]_vars

\* A start returns, fails or times out, and an attempt ends or is timed out.
Starting(r) == StartNothing(r) \/ StartWorkflow(r) \/ StartFails(r)

Attempting(i) == \/ AttemptSaves(i) \/ AttemptFallsBack(i) \/ AttemptReturns(i)
                 \/ Fallback(i) \/ AttemptLost(i)

FairSpec == /\ Spec
            /\ \A r \in Requests : WF_vars(Starting(r))
            /\ \A i \in Incidents : WF_vars(Attempting(i))

-----------------------------------------------------------------------------
(* Properties.                                                             *)

\* Whoever waits for a decision has something to decide: a workflow past its
\* triage, and an incident that is PLAN_READY, have a plan, although the workflow
\* is not told which (incident_workflow.py:38-48).
WaitingHasPlan ==
    \A i \in Incidents :
        flow[i].pc \in {"approval", "execution"} \/ status[i] = "PLAN_READY" => plans[i] > 0

\* Why an incident is not investigated though it says so: no Temporal client, a
\* start that failed after the status was committed, a triage that failed.
Abandoned(i) ==
    \/ ~connected
    \/ \E r \in Requests : request[r].pc = "failed" /\ request[r].incident = i
    \/ flow[i].pc = "failed"

\* There is no other way to be forgotten: an incident that is INVESTIGATING is
\* being triaged or about to be, or one of these failures has happened to it
\* (main.py:345-381, incident_workflow.py:31-40).
NobodyIsForgotten ==
    \A i \in Incidents :
        status[i] = "INVESTIGATING" =>
            \/ flow[i].pc = "triage"
            \/ \E r \in Requests : request[r].pc = "start" /\ request[r].incident = i
            \/ Abandoned(i)

\* An attempt saves one plan at most, its fallback and its retries included
\* (orchestrator.py:175-190, 338-351): attempts that commit and then fail may
\* leave several plans of an incident, one each.
OnePlanPerAttempt == \A i \in Incidents : plans[i] <= begun[i]

\* A RESOLVED incident is investigated again only on an operator's request, and
\* is ready for approval again only with another plan (orchestrator.py:338-367).
ReopenedWithReason ==
    [][\A i \in Incidents :
          status[i] = "RESOLVED" =>
              /\ status'[i] = "PLAN_READY" => plans'[i] > plans[i]
              /\ status'[i] = "INVESTIGATING" =>
                     \E r \in Requests : request[r].pc = "idle" /\ request'[r].incident = i]_vars

\* "cap retries so a genuinely broken/hanging triage fails visibly instead of
\* looping silently" (incident_workflow.py:29-30): no incident stays INVESTIGATING
\* without one of the failures of Abandoned.
InvestigationEnds ==
    \A i \in Incidents :
        status[i] = "INVESTIGATING" ~> (status[i] # "INVESTIGATING" \/ Abandoned(i))

=============================================================================
