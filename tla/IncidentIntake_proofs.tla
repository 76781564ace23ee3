------------------------ MODULE IncidentIntake_proofs ------------------------
(***************************************************************************)
(* What holds of webhooks, triage attempts and plans for any number of     *)
(* incidents, of calls of the API, of attempts and of stray threads.       *)
(***************************************************************************)
EXTENDS IncidentIntake, TLAPS

-----------------------------------------------------------------------------
(* The types.                                                              *)

\* A call's record keeps its type when it moves on.
LEMMA GoesTyped ==
    ASSUME TypeOK, NEW r \in Requests,
           NEW pc \in {"idle", "analyze", "start", "answered", "failed"}, Goes(r, pc)
    PROVE  request' \in [Requests -> Request]
BY DEF TypeOK, Goes, Request

\* A call that now concerns an incident.
LEMMA CallTyped ==
    ASSUME TypeOK, NEW r \in Requests, NEW i \in Incidents, NEW pc \in {"start", "answered"},
           request' = [request EXCEPT ![r].pc = pc, ![r].incident = i]
    PROVE  request' \in [Requests -> Request]
BY DEF TypeOK, Request

\* A workflow that is left with a typed record is typed.
LEMMA BecomesTyped ==
    ASSUME TypeOK, NEW i \in Incidents, NEW w \in Flow, Becomes(i, w)
    PROVE  flow' \in [Incidents -> Flow]
BY DEF TypeOK, Becomes

LEMMA StatusTyped ==
    ASSUME TypeOK, NEW i \in Incidents, NEW s \in Status, SetStatus(i, s)
    PROVE  status' \in [Incidents -> Status]
BY DEF TypeOK, SetStatus

\* What a save of findings changes, typed.
LEMMA SaveTyped ==
    ASSUME TypeOK, NEW i \in Incidents, SaveFindings(i)
    PROVE  /\ status' \in [Incidents -> Status]
           /\ plans' \in [Incidents -> Nat]
           /\ impacted' \subseteq Incidents
<1>1. "PLAN_READY" \in Status
  BY DEF Status
<1>2. status' \in [Incidents -> Status]
  BY <1>1, StatusTyped DEF SaveFindings
<1>3. plans' \in [Incidents -> Nat]
  BY DEF TypeOK, SaveFindings
<1>4. impacted' \subseteq Incidents
  BY DEF TypeOK, SaveFindings
<1>5. QED
  BY <1>2, <1>3, <1>4

\* The records a workflow can be left with.
LEMMA FlowsTyped ==
    ASSUME TypeOK, NEW i \in Incidents
    PROVE  /\ \A t \in {"audit", "fallback"} : [flow[i] EXCEPT !.thread = t] \in Flow
           /\ \A d \in Decisions : [flow[i] EXCEPT !.decision = d] \in Flow
           /\ \A p \in {"execution", "completed"} : [flow[i] EXCEPT !.pc = p] \in Flow
           /\ \A s \in BOOLEAN : AfterTriage(flow[i], s) \in Flow
           /\ Retried(flow[i]) \in Flow
           /\ [pc |-> "triage", attempt |-> 1, thread |-> "investigate",
               decision |-> None] \in Flow
<1> USE IntakeAssumption
<1>1. flow[i] \in Flow
  BY DEF TypeOK
<1>2. /\ \A t \in {"audit", "fallback"} : [flow[i] EXCEPT !.thread = t] \in Flow
      /\ \A d \in Decisions : [flow[i] EXCEPT !.decision = d] \in Flow
      /\ \A p \in {"execution", "completed"} : [flow[i] EXCEPT !.pc = p] \in Flow
  BY <1>1 DEF Flow
<1>3. \A s \in BOOLEAN : AfterTriage(flow[i], s) \in Flow
  BY <1>1 DEF Flow, AfterTriage
<1>4. Retried(flow[i]) \in Flow
  <2> DEFINE w == flow[i]
  <2>1. w.attempt \in 0..MaximumAttempts
    BY <1>1 DEF Flow
  <2>2. CASE w.attempt < MaximumAttempts
    <3>1. w.attempt + 1 \in 0..MaximumAttempts
      BY <2>1, <2>2
    <3>2. [w EXCEPT !.attempt = w.attempt + 1, !.thread = "investigate"] \in Flow
      BY <1>1, <3>1 DEF Flow
    <3>3. QED
      BY <2>2, <3>2 DEF Retried
  <2>3. CASE ~(w.attempt < MaximumAttempts)
    <3>1. [w EXCEPT !.pc = "failed", !.thread = "none"] \in Flow
      BY <1>1 DEF Flow
    <3>2. QED
      BY <2>3, <3>1 DEF Retried
  <2>4. QED
    BY <2>2, <2>3
<1>5. [pc |-> "triage", attempt |-> 1, thread |-> "investigate",
       decision |-> None] \in Flow
  BY DEF Flow
<1>6. QED
  BY <1>2, <1>3, <1>4, <1>5

LEMMA InitTyped == Init => TypeOK
BY IntakeAssumption DEF Init, TypeOK, Status, Flow, Request

\* A call of the API keeps the types.
LEMMA CallKeepsType ==
    ASSUME TypeOK, NEW r \in Requests, Call(r)
    PROVE  TypeOK'
<1>1. CASE Receive(r)
  BY <1>1 DEF Receive, TypeOK, Request
<1>2. CASE ResolveExternally(r)
  <2>1. request' \in [Requests -> Request]
    BY <1>2, GoesTyped DEF ResolveExternally
  <2>2. status' \in [Incidents -> Status]
    BY <1>2, StatusTyped DEF ResolveExternally, Status
  <2>3. QED
    BY <1>2, <2>1, <2>2 DEF ResolveExternally, TypeOK
<1>3. CASE OpenIncident(r)
  <2>1. PICK i \in Incidents :
          /\ SetStatus(i, "INVESTIGATING")
          /\ request' = [request EXCEPT ![r].pc = "start", ![r].incident = i]
    BY <1>3 DEF OpenIncident
  <2>2. request' \in [Requests -> Request]
    BY <2>1, CallTyped
  <2>3. status' \in [Incidents -> Status]
    BY <2>1, StatusTyped DEF Status
  <2>4. QED
    BY <1>3, <2>2, <2>3 DEF OpenIncident, TypeOK
<1>4. CASE NothingOpened(r)
  <2>1. request' \in [Requests -> Request]
    BY <1>4, GoesTyped DEF NothingOpened
  <2>2. QED
    BY <1>4, <2>1 DEF NothingOpened, TypeOK
<1>5. CASE RequestTriage(r)
  <2>1. PICK i \in Incidents :
          /\ SetStatus(i, "INVESTIGATING")
          /\ request' = [request EXCEPT ![r].pc = "start", ![r].incident = i]
    BY <1>5 DEF RequestTriage
  <2>2. request' \in [Requests -> Request]
    BY <2>1, CallTyped
  <2>3. status' \in [Incidents -> Status]
    BY <2>1, StatusTyped DEF Status
  <2>4. QED
    BY <1>5, <2>2, <2>3 DEF RequestTriage, TypeOK
<1>6. CASE PostFindings(r)
  <2>1. PICK i \in Incidents :
          /\ SaveFindings(i)
          /\ begun' = [begun EXCEPT ![i] = @ + 1]
          /\ request' = [request EXCEPT ![r].pc = "answered", ![r].incident = i]
    BY <1>6 DEF PostFindings
  <2>2. request' \in [Requests -> Request]
    BY <2>1, CallTyped
  <2>3. begun' \in [Incidents -> Nat]
    BY <2>1 DEF TypeOK
  <2>4. QED
    BY <1>6, <2>1, <2>2, <2>3, SaveTyped DEF PostFindings, TypeOK
<1>7. CASE FindingsNotSaved(r)
  <2>1. request' \in [Requests -> Request]
    BY <1>7, GoesTyped DEF FindingsNotSaved
  <2>2. QED
    BY <1>7, <2>1 DEF FindingsNotSaved, TypeOK
<1>8. CASE StartNothing(r)
  <2>1. request' \in [Requests -> Request]
    BY <1>8, GoesTyped DEF StartNothing
  <2>2. QED
    BY <1>8, <2>1 DEF StartNothing, TypeOK
<1>9. CASE StartWorkflow(r)
  <2>1. request' \in [Requests -> Request]
    BY <1>9, GoesTyped DEF StartWorkflow
  <2>2. PICK i \in Incidents :
          /\ Becomes(i, [pc |-> "triage", attempt |-> 1, thread |-> "investigate",
                         decision |-> None])
          /\ begun' = [begun EXCEPT ![i] = @ + 1]
    BY <1>9 DEF StartWorkflow
  <2>3. flow' \in [Incidents -> Flow]
    BY <2>2, FlowsTyped, BecomesTyped
  <2>4. begun' \in [Incidents -> Nat]
    BY <2>2 DEF TypeOK
  <2>5. QED
    BY <1>9, <2>1, <2>3, <2>4 DEF StartWorkflow, TypeOK
<1>10. CASE StartFails(r)
  <2>1. request' \in [Requests -> Request]
    BY <1>10, GoesTyped DEF StartFails
  <2>2. QED
    BY <1>10, <2>1 DEF StartFails, TypeOK
<1>11. QED
  BY <1>1, <1>2, <1>3, <1>4, <1>5, <1>6, <1>7, <1>8, <1>9, <1>10 DEF Call

\* A step of a triage attempt keeps the types.
LEMMA TriageKeepsType ==
    ASSUME TypeOK, NEW i \in Incidents, Triage(i)
    PROVE  TypeOK'
<1>1. CASE AttemptSaves(i)
  <2>1. flow' \in [Incidents -> Flow]
    BY <1>1, FlowsTyped, BecomesTyped DEF AttemptSaves
  <2>2. QED
    BY <1>1, <2>1, SaveTyped DEF AttemptSaves, TypeOK
<1>2. CASE AttemptFallsBack(i)
  <2>1. flow' \in [Incidents -> Flow]
    BY <1>2, FlowsTyped, BecomesTyped DEF AttemptFallsBack
  <2>2. QED
    BY <1>2, <2>1 DEF AttemptFallsBack, TypeOK
<1>3. CASE AttemptReturns(i)
  <2>1. flow' \in [Incidents -> Flow]
    BY <1>3, FlowsTyped, BecomesTyped DEF AttemptReturns
  <2>2. QED
    BY <1>3, <2>1 DEF AttemptReturns, TypeOK
<1>4. CASE Fallback(i)
  <2>1. \E s \in BOOLEAN : Becomes(i, AfterTriage(flow[i], s))
    BY <1>4 DEF Fallback
  <2>2. flow' \in [Incidents -> Flow]
    BY <2>1, FlowsTyped, BecomesTyped
  <2>3. SaveFindings(i) \/ UNCHANGED <<status, plans, impacted>>
    BY <1>4 DEF Fallback
  <2>4. /\ status' \in [Incidents -> Status] /\ plans' \in [Incidents -> Nat]
        /\ impacted' \subseteq Incidents
    BY <2>3, SaveTyped DEF TypeOK
  <2>5. QED
    BY <1>4, <2>2, <2>4 DEF Fallback, TypeOK
<1>5. CASE AttemptLost(i)
  <2>1. flow' \in [Incidents -> Flow]
    BY <1>5, FlowsTyped, BecomesTyped DEF AttemptLost
  <2>2. stray' \in [Incidents -> 0..MaxStray]
    BY <1>5, IntakeAssumption DEF AttemptLost, TypeOK
  <2>3. begun' \in [Incidents -> Nat]
    BY <1>5 DEF AttemptLost, TypeOK
  <2>4. QED
    BY <1>5, <2>1, <2>2, <2>3 DEF AttemptLost, TypeOK
<1>6. CASE StraySaves(i)
  <2>1. stray' \in [Incidents -> 0..MaxStray]
    BY <1>6, IntakeAssumption DEF StraySaves, TypeOK
  <2>2. QED
    BY <1>6, <2>1, SaveTyped DEF StraySaves, TypeOK
<1>7. CASE StrayEnds(i)
  <2>1. stray' \in [Incidents -> 0..MaxStray]
    BY <1>7, IntakeAssumption DEF StrayEnds, TypeOK
  <2>2. QED
    BY <1>7, <2>1 DEF StrayEnds, TypeOK
<1>8. QED
  BY <1>1, <1>2, <1>3, <1>4, <1>5, <1>6, <1>7 DEF Triage

\* Approval and execution keep the types.
LEMMA RecoveryKeepsType ==
    ASSUME TypeOK, NEW i \in Incidents, Recovery(i)
    PROVE  TypeOK'
<1>1. Executed(i) => status' \in [Incidents -> Status]
  BY StatusTyped DEF Executed, Status
<1>2. CASE Approve(i)
  <2>1. flow' \in [Incidents -> Flow]
    BY <1>2, FlowsTyped, BecomesTyped DEF Approve
  <2>2. QED
    BY <1>2, <2>1 DEF Approve, TypeOK
<1>3. CASE ExecuteDirectly(i)
  BY <1>1, <1>3 DEF ExecuteDirectly, TypeOK
<1>4. CASE WorkflowDecides(i)
  <2>1. \E p \in {"execution", "completed"} : Becomes(i, [flow[i] EXCEPT !.pc = p])
    BY <1>4 DEF WorkflowDecides
  <2>2. flow' \in [Incidents -> Flow]
    BY <2>1, FlowsTyped, BecomesTyped
  <2>3. QED
    BY <1>4, <2>2 DEF WorkflowDecides, TypeOK
<1>5. CASE WorkflowExecutes(i)
  <2>1. flow' \in [Incidents -> Flow]
    BY <1>5, FlowsTyped, BecomesTyped DEF WorkflowExecutes
  <2>2. QED
    BY <1>1, <1>5, <2>1 DEF WorkflowExecutes, TypeOK
<1>6. QED
  BY <1>2, <1>3, <1>4, <1>5 DEF Recovery

LEMMA NextKeepsType == TypeOK /\ [Next]_vars => TypeOK'
<1> SUFFICES ASSUME TypeOK, [Next]_vars PROVE TypeOK'
  OBVIOUS
<1>1. CASE Next
  BY <1>1, CallKeepsType, TriageKeepsType, RecoveryKeepsType DEF Next
<1>2. CASE UNCHANGED vars
  BY <1>2 DEF vars, TypeOK
<1>3. QED
  BY <1>1, <1>2

\* Calls, workflows, plans and statuses have their types in every reachable
\* state, for any number of incidents and calls (orchestrator.py, main.py).
THEOREM IntakeTypeCorrect == Spec => []TypeOK
<1>1. QED
  BY InitTyped, NextKeepsType, PTL DEF Spec

-----------------------------------------------------------------------------
(* The inductive invariant.  None of the properties is inductive alone: a  *)
(* workflow waits for a decision because its attempt has committed a plan, *)
(* an incident whose attempt has committed is INVESTIGATING only if a call *)
(* has asked for it since, and the attempts that may still save count too. *)

\* The attempt has committed a plan and not yet returned.
Audited(i) == flow[i].pc = "triage" /\ flow[i].thread = "audit"

\* A call is about to start the incident's workflow or has failed to.
Asked(i) == \E r \in Requests : request[r].pc \in {"start", "failed"} /\ request[r].incident = i

Investigating(i) == flow[i].pc = "triage" /\ flow[i].thread = "investigate"

PlanFirst(i) ==
    \/ flow[i].pc \in {"approval", "execution"}
    \/ status[i] = "PLAN_READY"
    \/ Audited(i)
    => plans[i] > 0

Excused(i) ==
    status[i] = "INVESTIGATING" /\ (flow[i].pc # "triage" \/ Audited(i))
    => ~connected \/ Asked(i) \/ flow[i].pc = "failed"

Counted(i) ==
    /\ plans[i] + stray[i] <= begun[i]
    /\ Investigating(i) => plans[i] + stray[i] + 1 <= begun[i]

IInv == TypeOK /\ \A i \in Incidents : PlanFirst(i) /\ Excused(i) /\ Counted(i)

\* The foreign keys of triage_fallback's rows are never there: it changes
\* nothing, and its attempt ends without a plan (orchestrator.py:419-450).
LEMMA FallbackFails ==
    ASSUME NEW i \in Incidents, Fallback(i)
    PROVE  /\ flow[i].pc = "triage" /\ flow[i].thread = "fallback"
           /\ flow' = [flow EXCEPT ![i] = [flow[i] EXCEPT !.pc = "failed", !.thread = "none"]]
           /\ UNCHANGED <<connected, status, plans, impacted, stray, request, begun>>
<1>1. ~(FallbackRuns \subseteq AgentRuns)
  BY DEF FallbackRuns, AgentRuns
<1>2. /\ UNCHANGED <<status, plans, impacted>>
      /\ Becomes(i, AfterTriage(flow[i], FALSE))
      /\ UNCHANGED <<connected, stray, request, begun>>
      /\ Triaging(i, "fallback")
  BY <1>1 DEF Fallback
<1>3. QED
  BY <1>2 DEF Becomes, AfterTriage, Triaging

LEMMA InitInvariant == Init => IInv
BY InitTyped DEF Init, IInv, PlanFirst, Excused, Counted, Audited, Investigating

\* A call of the API: what needs a plan has one.
LEMMA CallKeepsPlanFirst ==
    ASSUME IInv, TypeOK', NEW r \in Requests, Call(r), NEW j \in Incidents
    PROVE  PlanFirst(j)'
<1> USE DEF PlanFirst, Audited
<1>0. TypeOK /\ PlanFirst(j)
  BY DEF IInv
<1>1. CASE Receive(r)
  BY <1>0, <1>1 DEF Receive, TypeOK
<1>2. CASE ResolveExternally(r)
  BY <1>0, <1>2 DEF ResolveExternally, SetStatus, Goes, TypeOK
<1>3. CASE OpenIncident(r)
  BY <1>0, <1>3 DEF OpenIncident, SetStatus, TypeOK
<1>4. CASE NothingOpened(r)
  BY <1>0, <1>4 DEF NothingOpened, Goes, TypeOK
<1>5. CASE RequestTriage(r)
  BY <1>0, <1>5 DEF RequestTriage, SetStatus, TypeOK
<1>6. CASE PostFindings(r)
  BY <1>0, <1>6 DEF PostFindings, SaveFindings, SetStatus, TypeOK
<1>7. CASE FindingsNotSaved(r)
  BY <1>0, <1>7 DEF FindingsNotSaved, Goes, TypeOK
<1>8. CASE StartNothing(r)
  BY <1>0, <1>8 DEF StartNothing, Goes, TypeOK
<1>9. CASE StartWorkflow(r)
  BY <1>0, <1>9 DEF StartWorkflow, Becomes, Goes, Running, TypeOK
<1>10. CASE StartFails(r)
  BY <1>0, <1>10 DEF StartFails, Goes, TypeOK
<1>11. QED
  BY <1>1, <1>2, <1>3, <1>4, <1>5, <1>6, <1>7, <1>8, <1>9, <1>10 DEF Call

\* A step of an attempt: what needs a plan has one.
LEMMA TriageKeepsPlanFirst ==
    ASSUME IInv, TypeOK', NEW i \in Incidents, Triage(i), NEW j \in Incidents
    PROVE  PlanFirst(j)'
<1> USE DEF PlanFirst, Audited
<1>0. TypeOK /\ PlanFirst(j)
  BY DEF IInv
<1>1. CASE AttemptSaves(i)
  BY <1>0, <1>1 DEF AttemptSaves, Triaging, SaveFindings, SetStatus, Becomes, TypeOK
<1>2. CASE AttemptFallsBack(i)
  BY <1>0, <1>2 DEF AttemptFallsBack, Triaging, Becomes, TypeOK
<1>3. CASE AttemptReturns(i)
  BY <1>0, <1>3 DEF AttemptReturns, Triaging, Becomes, AfterTriage, TypeOK
<1>4. CASE Fallback(i)
  <2>1. /\ flow[i].pc = "triage" /\ flow[i].thread = "fallback"
        /\ flow' = [flow EXCEPT ![i] = [flow[i] EXCEPT !.pc = "failed", !.thread = "none"]]
        /\ UNCHANGED <<connected, status, plans, impacted, stray, request, begun>>
    BY <1>4, FallbackFails
  <2>2. QED
    BY <1>0, <2>1 DEF TypeOK, Flow
<1>5. CASE AttemptLost(i)
  BY <1>0, <1>5 DEF AttemptLost, Becomes, Retried, TypeOK
<1>6. CASE StraySaves(i)
  BY <1>0, <1>6 DEF StraySaves, SaveFindings, SetStatus, TypeOK
<1>7. CASE StrayEnds(i)
  BY <1>0, <1>7 DEF StrayEnds, TypeOK
<1>8. QED
  BY <1>1, <1>2, <1>3, <1>4, <1>5, <1>6, <1>7 DEF Triage

\* Approval and execution: what needs a plan has one.
LEMMA RecoveryKeepsPlanFirst ==
    ASSUME IInv, TypeOK', NEW i \in Incidents, Recovery(i), NEW j \in Incidents
    PROVE  PlanFirst(j)'
<1> USE DEF PlanFirst, Audited
<1>0. TypeOK /\ PlanFirst(j)
  BY DEF IInv
<1>1. CASE Approve(i)
  BY <1>0, <1>1 DEF Approve, Becomes, TypeOK
<1>2. CASE ExecuteDirectly(i)
  BY <1>0, <1>2 DEF ExecuteDirectly, Executed, SetStatus, TypeOK
<1>3. CASE WorkflowDecides(i)
  BY <1>0, <1>3 DEF WorkflowDecides, Becomes, TypeOK
<1>4. CASE WorkflowExecutes(i)
  BY <1>0, <1>4 DEF WorkflowExecutes, Executed, SetStatus, Becomes, TypeOK
<1>5. QED
  BY <1>1, <1>2, <1>3, <1>4 DEF Recovery

\* A call of the API: an incident nobody triages is accounted for.
LEMMA CallKeepsExcused ==
    ASSUME IInv, TypeOK', NEW r \in Requests, Call(r), NEW j \in Incidents
    PROVE  Excused(j)'
<1> USE DEF Excused, Audited, Asked
<1>0. TypeOK /\ Excused(j)
  BY DEF IInv
<1>1. CASE Receive(r)
  BY <1>0, <1>1 DEF Receive, TypeOK
<1>2. CASE ResolveExternally(r)
  BY <1>0, <1>2 DEF ResolveExternally, SetStatus, Goes, TypeOK
<1>3. CASE OpenIncident(r)
  BY <1>0, <1>3 DEF OpenIncident, SetStatus, TypeOK
<1>4. CASE NothingOpened(r)
  BY <1>0, <1>4 DEF NothingOpened, Goes, TypeOK
<1>5. CASE RequestTriage(r)
  BY <1>0, <1>5 DEF RequestTriage, SetStatus, TypeOK
<1>6. CASE PostFindings(r)
  BY <1>0, <1>6 DEF PostFindings, SaveFindings, SetStatus, TypeOK
<1>7. CASE FindingsNotSaved(r)
  BY <1>0, <1>7 DEF FindingsNotSaved, Goes, TypeOK
<1>8. CASE StartNothing(r)
  BY <1>0, <1>8 DEF StartNothing, Goes, TypeOK
<1>9. CASE StartWorkflow(r)
  BY <1>0, <1>9 DEF StartWorkflow, Becomes, Goes, Running, TypeOK
<1>10. CASE StartFails(r)
  BY <1>0, <1>10 DEF StartFails, Goes, TypeOK
<1>11. QED
  BY <1>1, <1>2, <1>3, <1>4, <1>5, <1>6, <1>7, <1>8, <1>9, <1>10 DEF Call

\* A step of an attempt: an incident nobody triages is accounted for.
LEMMA TriageKeepsExcused ==
    ASSUME IInv, TypeOK', NEW i \in Incidents, Triage(i), NEW j \in Incidents
    PROVE  Excused(j)'
<1> USE DEF Excused, Audited, Asked
<1>0. TypeOK /\ Excused(j)
  BY DEF IInv
<1>1. CASE AttemptSaves(i)
  BY <1>0, <1>1 DEF AttemptSaves, Triaging, SaveFindings, SetStatus, Becomes, TypeOK
<1>2. CASE AttemptFallsBack(i)
  BY <1>0, <1>2 DEF AttemptFallsBack, Triaging, Becomes, TypeOK
<1>3. CASE AttemptReturns(i)
  BY <1>0, <1>3 DEF AttemptReturns, Triaging, Becomes, AfterTriage, TypeOK
<1>4. CASE Fallback(i)
  <2>1. /\ flow[i].pc = "triage" /\ flow[i].thread = "fallback"
        /\ flow' = [flow EXCEPT ![i] = [flow[i] EXCEPT !.pc = "failed", !.thread = "none"]]
        /\ UNCHANGED <<connected, status, plans, impacted, stray, request, begun>>
    BY <1>4, FallbackFails
  <2>2. QED
    BY <1>0, <2>1 DEF TypeOK, Flow
<1>5. CASE AttemptLost(i)
  BY <1>0, <1>5 DEF AttemptLost, Becomes, Retried, TypeOK
<1>6. CASE StraySaves(i)
  BY <1>0, <1>6 DEF StraySaves, SaveFindings, SetStatus, TypeOK
<1>7. CASE StrayEnds(i)
  BY <1>0, <1>7 DEF StrayEnds, TypeOK
<1>8. QED
  BY <1>1, <1>2, <1>3, <1>4, <1>5, <1>6, <1>7 DEF Triage

\* Approval and execution: an incident nobody triages is accounted for.
LEMMA RecoveryKeepsExcused ==
    ASSUME IInv, TypeOK', NEW i \in Incidents, Recovery(i), NEW j \in Incidents
    PROVE  Excused(j)'
<1> USE DEF Excused, Audited, Asked
<1>0. TypeOK /\ Excused(j)
  BY DEF IInv
<1>1. CASE Approve(i)
  BY <1>0, <1>1 DEF Approve, Becomes, TypeOK
<1>2. CASE ExecuteDirectly(i)
  BY <1>0, <1>2 DEF ExecuteDirectly, Executed, SetStatus, TypeOK
<1>3. CASE WorkflowDecides(i)
  BY <1>0, <1>3 DEF WorkflowDecides, Becomes, TypeOK
<1>4. CASE WorkflowExecutes(i)
  BY <1>0, <1>4 DEF WorkflowExecutes, Executed, SetStatus, Becomes, TypeOK
<1>5. QED
  BY <1>1, <1>2, <1>3, <1>4 DEF Recovery

\* A call of the API: plans and attempts still at work are counted.
LEMMA CallKeepsCounted ==
    ASSUME IInv, TypeOK', NEW r \in Requests, Call(r), NEW j \in Incidents
    PROVE  Counted(j)'
<1> USE DEF Counted, Investigating
<1>0. TypeOK /\ Counted(j)
  BY DEF IInv
<1>1. CASE Receive(r)
  BY <1>0, <1>1 DEF Receive, TypeOK
<1>2. CASE ResolveExternally(r)
  BY <1>0, <1>2 DEF ResolveExternally, SetStatus, Goes, TypeOK
<1>3. CASE OpenIncident(r)
  BY <1>0, <1>3 DEF OpenIncident, SetStatus, TypeOK
<1>4. CASE NothingOpened(r)
  BY <1>0, <1>4 DEF NothingOpened, Goes, TypeOK
<1>5. CASE RequestTriage(r)
  BY <1>0, <1>5 DEF RequestTriage, SetStatus, TypeOK
<1>6. CASE PostFindings(r)
  BY <1>0, <1>6 DEF PostFindings, SaveFindings, SetStatus, TypeOK
<1>7. CASE FindingsNotSaved(r)
  BY <1>0, <1>7 DEF FindingsNotSaved, Goes, TypeOK
<1>8. CASE StartNothing(r)
  BY <1>0, <1>8 DEF StartNothing, Goes, TypeOK
<1>9. CASE StartWorkflow(r)
  BY <1>0, <1>9 DEF StartWorkflow, Becomes, Goes, Running, TypeOK
<1>10. CASE StartFails(r)
  BY <1>0, <1>10 DEF StartFails, Goes, TypeOK
<1>11. QED
  BY <1>1, <1>2, <1>3, <1>4, <1>5, <1>6, <1>7, <1>8, <1>9, <1>10 DEF Call

\* A step of an attempt: plans and attempts still at work are counted.
LEMMA TriageKeepsCounted ==
    ASSUME IInv, TypeOK', NEW i \in Incidents, Triage(i), NEW j \in Incidents
    PROVE  Counted(j)'
<1> USE DEF Counted, Investigating
<1>0. TypeOK /\ Counted(j)
  BY DEF IInv
<1>1. CASE AttemptSaves(i)
  BY <1>0, <1>1 DEF AttemptSaves, Triaging, SaveFindings, SetStatus, Becomes, TypeOK
<1>2. CASE AttemptFallsBack(i)
  BY <1>0, <1>2 DEF AttemptFallsBack, Triaging, Becomes, TypeOK
<1>3. CASE AttemptReturns(i)
  BY <1>0, <1>3 DEF AttemptReturns, Triaging, Becomes, AfterTriage, TypeOK
<1>4. CASE Fallback(i)
  <2>1. /\ flow[i].pc = "triage" /\ flow[i].thread = "fallback"
        /\ flow' = [flow EXCEPT ![i] = [flow[i] EXCEPT !.pc = "failed", !.thread = "none"]]
        /\ UNCHANGED <<connected, status, plans, impacted, stray, request, begun>>
    BY <1>4, FallbackFails
  <2>2. QED
    BY <1>0, <2>1 DEF TypeOK, Flow
<1>5. CASE AttemptLost(i)
  BY <1>0, <1>5 DEF AttemptLost, Becomes, Retried, TypeOK
<1>6. CASE StraySaves(i)
  BY <1>0, <1>6 DEF StraySaves, SaveFindings, SetStatus, TypeOK
<1>7. CASE StrayEnds(i)
  BY <1>0, <1>7 DEF StrayEnds, TypeOK
<1>8. QED
  BY <1>1, <1>2, <1>3, <1>4, <1>5, <1>6, <1>7 DEF Triage

\* Approval and execution: plans and attempts still at work are counted.
LEMMA RecoveryKeepsCounted ==
    ASSUME IInv, TypeOK', NEW i \in Incidents, Recovery(i), NEW j \in Incidents
    PROVE  Counted(j)'
<1> USE DEF Counted, Investigating
<1>0. TypeOK /\ Counted(j)
  BY DEF IInv
<1>1. CASE Approve(i)
  BY <1>0, <1>1 DEF Approve, Becomes, TypeOK
<1>2. CASE ExecuteDirectly(i)
  BY <1>0, <1>2 DEF ExecuteDirectly, Executed, SetStatus, TypeOK
<1>3. CASE WorkflowDecides(i)
  BY <1>0, <1>3 DEF WorkflowDecides, Becomes, TypeOK
<1>4. CASE WorkflowExecutes(i)
  BY <1>0, <1>4 DEF WorkflowExecutes, Executed, SetStatus, Becomes, TypeOK
<1>5. QED
  BY <1>1, <1>2, <1>3, <1>4 DEF Recovery

LEMMA NextKeepsInvariant == IInv /\ [Next]_vars => IInv'
<1> SUFFICES ASSUME IInv, [Next]_vars PROVE IInv'
  OBVIOUS
<1>1. TypeOK'
  BY NextKeepsType DEF IInv
<1>2. ASSUME NEW j \in Incidents PROVE (PlanFirst(j) /\ Excused(j) /\ Counted(j))'
  <2>1. CASE \E r \in Requests : Call(r)
    BY <1>1, <2>1, CallKeepsPlanFirst, CallKeepsExcused, CallKeepsCounted
  <2>2. CASE \E i \in Incidents : Triage(i)
    BY <1>1, <2>2, TriageKeepsPlanFirst, TriageKeepsExcused, TriageKeepsCounted
  <2>3. CASE \E i \in Incidents : Recovery(i)
    BY <1>1, <2>3, RecoveryKeepsPlanFirst, RecoveryKeepsExcused, RecoveryKeepsCounted
  <2>4. CASE UNCHANGED vars
    BY <2>4 DEF vars, IInv, PlanFirst, Excused, Counted, Audited, Asked, Investigating
  <2>5. QED
    BY <2>1, <2>2, <2>3, <2>4 DEF Next
<1>3. QED
  BY <1>1, <1>2 DEF IInv

\* The inductive invariant holds in every reachable state.
THEOREM IntakeInvariant == Spec => []IInv
<1>1. QED
  BY InitInvariant, NextKeepsInvariant, PTL DEF Spec

-----------------------------------------------------------------------------
(* What follows.                                                           *)

\* No workflow waits for a decision, and no incident is PLAN_READY, without a
\* plan, whatever fails and however late a thread saves (incident_workflow.py:38-48).
THEOREM WaitingAlwaysHasPlan == Spec => []WaitingHasPlan
<1>1. IInv => WaitingHasPlan
  BY DEF IInv, PlanFirst, WaitingHasPlan
<1>2. QED
  BY <1>1, IntakeInvariant, PTL

\* An incident that says it is investigated is, or is about to be, or one of the
\* failures of Abandoned has happened to it (main.py:345-381).
THEOREM NobodyEverForgotten == Spec => []NobodyIsForgotten
<1>1. IInv => NobodyIsForgotten
  BY DEF IInv, Excused, Asked, Abandoned, NobodyIsForgotten
<1>2. QED
  BY <1>1, IntakeInvariant, PTL

\* Retries, late threads and the fallback together save no more plans than
\* attempts were begun (orchestrator.py:175-190).
THEOREM OnePlanForEachAttempt == Spec => []OnePlanPerAttempt
<1>1. IInv => OnePlanPerAttempt
  <2> SUFFICES ASSUME IInv, NEW i \in Incidents PROVE plans[i] <= begun[i]
    BY DEF OnePlanPerAttempt
  <2>1. plans[i] \in Nat /\ begun[i] \in Nat /\ stray[i] \in Nat
    BY IntakeAssumption DEF IInv, TypeOK
  <2>2. plans[i] + stray[i] <= begun[i]
    BY DEF IInv, Counted
  <2>3. QED
    BY <2>1, <2>2
<1>2. QED
  BY <1>1, IntakeInvariant, PTL

\* The step behind ReopenedWithReason.
LEMMA ReopensWithReason ==
    ASSUME TypeOK, [Next]_vars, NEW i \in Incidents, status[i] = "RESOLVED"
    PROVE  /\ status'[i] = "PLAN_READY" => plans'[i] > plans[i]
           /\ status'[i] = "INVESTIGATING" =>
                  \E r \in Requests : request[r].pc = "idle" /\ request'[r].incident = i
<1>1. ASSUME NEW k \in Incidents, SaveFindings(k)
      PROVE  /\ status'[i] = "PLAN_READY" => plans'[i] > plans[i]
             /\ status'[i] # "INVESTIGATING"
  BY <1>1 DEF SaveFindings, SetStatus, TypeOK
<1>2. CASE \E q \in Requests : Call(q)
  <2>1. PICK q \in Requests : Call(q)
    BY <1>2
  <2>2. CASE RequestTriage(q)
    BY <2>2 DEF RequestTriage, SetStatus, TypeOK, Request
  <2>3. CASE OpenIncident(q) \/ ResolveExternally(q)
    BY <2>3 DEF OpenIncident, ResolveExternally, SetStatus, TypeOK
  <2>4. CASE PostFindings(q)
    BY <1>1, <2>4 DEF PostFindings
  <2>5. CASE \/ Receive(q) \/ NothingOpened(q) \/ FindingsNotSaved(q)
             \/ StartNothing(q) \/ StartWorkflow(q) \/ StartFails(q)
    BY <2>5 DEF Receive, NothingOpened, FindingsNotSaved, StartNothing, StartWorkflow, StartFails
  <2>6. QED
    BY <2>1, <2>2, <2>3, <2>4, <2>5 DEF Call
<1>3. CASE \E k \in Incidents : Triage(k)
  <2>1. \E k \in Incidents : SaveFindings(k) \/ UNCHANGED status
    BY <1>3 DEF Triage, AttemptSaves, AttemptFallsBack, AttemptReturns, Fallback,
                AttemptLost, StraySaves, StrayEnds
  <2>2. QED
    BY <1>1, <2>1
<1>4. CASE \E k \in Incidents : Recovery(k)
  BY <1>4 DEF Recovery, Approve, ExecuteDirectly, WorkflowDecides, WorkflowExecutes,
              Executed, SetStatus, TypeOK
<1>5. CASE UNCHANGED vars
  BY <1>5 DEF vars
<1>6. QED
  BY <1>2, <1>3, <1>4, <1>5 DEF Next

\* A RESOLVED incident becomes PLAN_READY only with one more plan, and
\* INVESTIGATING only by a triage request for it (orchestrator.py:338-367).
THEOREM ReopenedOnlyWithReason == Spec => ReopenedWithReason
<1>1. TypeOK /\ [Next]_vars =>
        [\A i \in Incidents :
          status[i] = "RESOLVED" =>
              /\ status'[i] = "PLAN_READY" => plans'[i] > plans[i]
              /\ status'[i] = "INVESTIGATING" =>
                     \E r \in Requests : request[r].pc = "idle" /\ request'[r].incident = i]_vars
  BY ReopensWithReason
<1>2. QED
  BY <1>1, IntakeTypeCorrect, PTL DEF Spec, ReopenedWithReason

=============================================================================
