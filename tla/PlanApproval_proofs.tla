------------------------- MODULE PlanApproval_proofs -------------------------
(***************************************************************************)
(* Theorems about PlanApproval, for every value of its constants.          *)
(***************************************************************************)
EXTENDS PlanApproval, PlanExecution_proofs

LEMMA InductiveGivesTypes == ApprovalInductive => TypeInv
BY DEF ApprovalInductive, ApprovalTypeOK, TypeInv

LEMMA NoRequestTyped == NoRequest \in Request
BY EmptySeq DEF NoRequest, Request, RequestPhase, Decisions

-----------------------------------------------------------------------------
(* What a step of PlanExecution does to versions, calls and records        *)

VersionsGrow == \A p \in Plans : plan[p].version <= plan'[p].version

SameCall(e) == call'[e].plan = call[e].plan /\ call'[e].version = call[e].version

\* A call ends, reads its version, or goes on with the version it has read.
CallMoves(e) ==
    \/ call'[e] = call[e]
    \/ call'[e].phase = "idle"
    \/ /\ call[e].phase = "steps_read"
       /\ call'[e].plan = call[e].plan
       /\ call'[e].version = plan[call[e].plan].version
    \/ /\ call[e].phase \notin {"idle", "steps_read"}
       /\ call'[e].phase # "steps_read"
       /\ SameCall(e)

\* What is new on record comes from a call that has read its version.
RecordsGrow ==
    \A x \in executions' \ executions :
        \E e \in Executors : /\ call[e].phase = "running"
                             /\ x.plan = call[e].plan
                             /\ x.version = call[e].version

LEMMA FinishRecords ==
    ASSUME TypeInv, NEW e \in Executors, Finish(e)
    PROVE  RecordsGrow
<1> SUFFICES ASSUME NEW x \in executions' \ executions
             PROVE  /\ call[e].phase = "running"
                    /\ x.plan = call[e].plan
                    /\ x.version = call[e].version
  BY DEF RecordsGrow
<1>1. x \in Pending(e) /\ call[e].phase = "running"
  BY DEF Finish
<1>2. QED
  BY <1>1 DEF Pending, RowOf

LEMMA ExecutorMoves ==
    ASSUME TypeInv, NEW e \in Executors, Progress(e) \/ Crash(e)
    PROVE  /\ \A d \in Executors : CallMoves(d)
           /\ \A p \in Plans : plan'[p].version = plan[p].version
           /\ RecordsGrow
<1>0. call[e] \in Call /\ (call[e].phase # "idle" => call[e].plan \in Plans)
  BY DEF TypeInv, TypeOK, CallsWellFormed
<1>1. CASE ReadVersion(e)
  <2>1. CallMoves(e)
    BY <1>1 DEF ReadVersion, TypeInv, TypeOK, CallMoves
  <2>2. QED
    BY <1>1, <2>1 DEF ReadVersion, TypeInv, TypeOK, CallMoves, tables, RecordsGrow
<1>2. CASE Begin(e)
  <2>1. CallMoves(e)
    BY <1>2 DEF Begin, TypeInv, TypeOK, CallMoves, SameCall
  <2>2. QED
    BY <1>2, <2>1 DEF Begin, TypeInv, TypeOK, CallMoves, tables, RecordsGrow
<1>3. CASE ClaimStep(e)
  <2>1. CallMoves(e)
    BY <1>3 DEF ClaimStep, TypeInv, TypeOK, CallMoves, SameCall
  <2>2. QED
    BY <1>3, <2>1 DEF ClaimStep, TypeInv, TypeOK, CallMoves, tables, RecordsGrow
<1>4. CASE PerformStep(e)
  <2>1. PICK o \in Outcomes : call' = [call EXCEPT ![e].phase = "performed", ![e].outcome = o]
    BY <1>4 DEF PerformStep
  <2>2. CallMoves(e)
    BY <1>4, <2>1 DEF PerformStep, TypeInv, TypeOK, CallMoves, SameCall
  <2>3. QED
    BY <1>4, <2>1, <2>2 DEF PerformStep, TypeInv, TypeOK, CallMoves, tables, RecordsGrow
<1>5. CASE RecordStep(e)
  <2>1. CallMoves(e)
    BY <1>5 DEF RecordStep, TypeInv, TypeOK, CallMoves, SameCall
  <2>2. QED
    BY <1>5, <2>1 DEF RecordStep, TypeInv, TypeOK, CallMoves, tables, RecordsGrow
<1>6. CASE RecordFails(e) \/ Crash(e)
  <2>1. call' = [call EXCEPT ![e] = NoCall] /\ UNCHANGED tables
    BY <1>6 DEF RecordFails, Crash, Rollback
  <2>2. QED
    BY <2>1 DEF TypeInv, TypeOK, CallMoves, NoCall, tables, RecordsGrow
<1>7. CASE Finish(e)
  <2>1. call' = [call EXCEPT ![e] = NoCall]
    BY <1>7 DEF Finish, Rollback
  <2>2. \A p \in Plans : plan'[p].version = plan[p].version
    BY <1>7 DEF Finish, TypeInv, TypeOK
  <2>3. QED
    BY <1>7, <2>1, <2>2, FinishRecords DEF TypeInv, TypeOK, CallMoves, NoCall
<1>8. QED
  BY <1>1, <1>2, <1>3, <1>4, <1>5, <1>6, <1>7 DEF Progress

LEMMA ReviserMoves ==
    ASSUME TypeInv, NEW f \in Revisers,
           \/ \E i \in Incidents : Draft(f, i)
           \/ ProgressRevision(f)
           \/ CrashRevision(f)
    PROVE  UNCHANGED <<call, executions>> /\ VersionsGrow
<1>0. /\ \A p \in Plans : plan[p].version \in Nat
      /\ plan \in [Plans -> [status : PlanStatus, version : Nat]]
  BY DEF TypeInv, TypeOK
<1>1. CASE Revise(f)
  <2>1. plan' = [plan EXCEPT ![revision[f].plan] =
                    [status |-> "PENDING_APPROVAL", version |-> @.version + 1]]
    BY <1>1 DEF Revise
  <2>2. VersionsGrow
    BY <1>0, <2>1 DEF VersionsGrow
  <2>3. QED
    BY <1>1, <2>2 DEF Revise
<1>2. CASE ~Revise(f)
  <2>1. UNCHANGED <<call, executions, plan>>
    BY <1>2 DEF Draft, ProgressRevision, IssueDelete, DeleteSteps, DeleteFails, ReviseFails,
                CrashRevision, AbandonRevision, tables
  <2>2. QED
    BY <1>0, <2>1 DEF VersionsGrow
<1>3. QED
  BY <1>1, <1>2

LEMMA StatementMoves ==
    ASSUME TypeInv, Statement
    PROVE  /\ \A d \in Executors : CallMoves(d)
           /\ VersionsGrow
           /\ RecordsGrow
           /\ [Next]_vars
<1>0. \A p \in Plans : plan[p].version \in Nat
  BY DEF TypeInv, TypeOK
<1>1. ASSUME NEW e \in Executors,
             \/ ReadVersion(e) \/ Begin(e) \/ ClaimStep(e) \/ PerformStep(e)
             \/ RecordStep(e) \/ RecordFails(e) \/ Crash(e) \/ Finish(e)
      PROVE  /\ \A d \in Executors : CallMoves(d)
             /\ VersionsGrow
             /\ RecordsGrow
             /\ [Next]_vars
  <2>1. Progress(e) \/ Crash(e)
    BY <1>1 DEF Progress
  <2>2. QED
    BY <1>0, <2>1, ExecutorMoves DEF VersionsGrow, Next
<1>2. ASSUME NEW f \in Revisers,
             \/ \E i \in Incidents : Draft(f, i)
             \/ ProgressRevision(f)
             \/ CrashRevision(f)
      PROVE  /\ \A d \in Executors : CallMoves(d)
             /\ VersionsGrow
             /\ RecordsGrow
             /\ [Next]_vars
  BY <1>2, ReviserMoves DEF CallMoves, RecordsGrow, Next
<1>3. ASSUME NEW e \in Executors, NEW f \in Revisers, BreakDeadlock(e, f)
      PROVE  /\ \A d \in Executors : CallMoves(d)
             /\ VersionsGrow
             /\ RecordsGrow
             /\ [Next]_vars
  <2>1. UNCHANGED <<plan, executions>>
    BY <1>3 DEF BreakDeadlock, AbandonRevision, tables
  <2>2. call' = call \/ call' = [call EXCEPT ![e] = NoCall]
    BY <1>3 DEF BreakDeadlock, AbandonRevision, Rollback
  <2>3. \A d \in Executors : CallMoves(d)
    BY <2>2 DEF TypeInv, TypeOK, CallMoves, NoCall
  <2>4. QED
    BY <1>0, <1>3, <2>1, <2>3 DEF VersionsGrow, RecordsGrow, Next
<1>4. QED
  BY <1>1, <1>2, <1>3, ApprovalAssumption DEF Statement

-----------------------------------------------------------------------------
(* What is kept when nothing that it is about changes                      *)

\* Approvals, orders and the history only grow.
Growth ==
    /\ VersionsGrow
    /\ approvals \subseteq approvals'
    /\ overridden \subseteq overridden'
    /\ history' = history \cup Shows'

LEMMA ApprovedStays == Growth => \A p : Approved(p) => Approved(p)'
BY DEF Growth, Approved

LEMMA HistoryTyped ==
    ASSUME ApprovalInductive, TypeOK', Record
    PROVE  history' \subseteq [plan : Plans, version : Nat, actions : Seq(Actions)]
<1>1. Shows' \subseteq [plan : Plans, version : Nat, actions : Seq(Actions)]
  BY DEF TypeOK, Shows, Content, StepRows
<1>2. QED
  BY <1>1 DEF ApprovalInductive, ApprovalTypeOK, Record

LEMMA RequestKept ==
    ASSUME ApprovalInductive, Growth, TypeOK', NEW u \in Users, request'[u] = request[u]
    PROVE  RequestSound(u)'
<1>1. /\ RequestSound(u)
      /\ request[u] \in Request
      /\ request[u].phase # "idle" => request[u].plan \in Plans
  BY DEF ApprovalInductive, RequestsSound, RequestSound, ApprovalTypeOK
<1>2. CASE request[u].phase = "idle"
  BY <1>2 DEF RequestSound
<1>3. CASE request[u].phase # "idle"
  <2> DEFINE now == plan[request[u].plan].version
             next == plan'[request[u].plan].version
  <2>1. /\ now \in Nat /\ next \in Nat /\ request[u].version \in Nat
        /\ now <= next /\ request[u].version <= now
    BY <1>1, <1>3 DEF Growth, VersionsGrow, ApprovalInductive, ApprovalTypeOK, TypeOK, Request,
                      RequestSound
  <2>2. /\ request[u].version <= next
        /\ request[u].version = next => request[u].version = now
    BY <2>1
  <2>3. history \subseteq history' /\ approvals \subseteq approvals'
    BY DEF Growth
  <2> HIDE DEF now, next
  <2>4. /\ request[u].phase = "shown" /\ request[u].version = now => InHistory(request[u])
        /\ request[u].phase = "checking" /\ request[u].version = request[u].found
               => InHistory(request[u])
        /\ request[u].phase = "checked" => InHistory(request[u])
        /\ request[u].phase \in {"recorded", "unsignalled"} /\ request[u].decision = "approve"
               => Approved(request[u].plan)
    BY <1>1, <1>3 DEF RequestSound, now
  <2>5. /\ request[u].phase = "shown" /\ request[u].version = next => InHistory(request[u])'
        /\ request[u].phase = "checking" /\ request[u].version = request[u].found
               => InHistory(request[u])'
        /\ request[u].phase = "checked" => InHistory(request[u])'
        /\ request[u].phase \in {"recorded", "unsignalled"} /\ request[u].decision = "approve"
               => Approved(request[u].plan)'
    BY <2>2, <2>3, <2>4 DEF InHistory, Approved
  <2>6. QED
    BY <1>1, <1>3, <2>2, <2>5 DEF RequestSound, InHistory, Approved, next
<1>4. QED
  BY <1>2, <1>3

LEMMA ApprovalsKept ==
    ASSUME ApprovalInductive, Growth, TypeOK', UNCHANGED approvals
    PROVE  ApprovalsSound'
<1>1. Shows' \subseteq history'
  BY DEF Growth
<1>2. ApprovedAsAWhole'
  BY DEF ApprovalInductive, ApprovalsSound, ApprovedAsAWhole, Growth, Content
<1>3. ASSUME NEW a \in approvals' PROVE a.version <= plan'[a.plan].version
  <2>1. /\ a.plan \in Plans /\ a.version \in Nat
        /\ a.version <= plan[a.plan].version
    BY <1>3 DEF ApprovalInductive, ApprovalTypeOK, Approval, ApprovalsSound
  <2>2. /\ plan[a.plan].version \in Nat /\ plan'[a.plan].version \in Nat
        /\ plan[a.plan].version <= plan'[a.plan].version
    BY <2>1 DEF ApprovalInductive, ApprovalTypeOK, TypeOK, Growth, VersionsGrow
  <2>3. QED
    BY <2>1, <2>2
<1>4. QED
  BY <1>1, <1>2, <1>3 DEF ApprovalsSound

LEMMA WorkflowsKept ==
    ASSUME ApprovalInductive, Growth, UNCHANGED workflow
    PROVE  WorkflowsSound'
BY ApprovedStays DEF ApprovalInductive, WorkflowsSound

\* A call that goes on was ordered before, or had its approval; when it reads its
\* version no approval is of a later one.
LEMMA CallKeptApproved ==
    ASSUME ApprovalInductive, Growth, NEW e \in Executors, CallMoves(e)
    PROVE  CallApproved(e)'
<1>0. /\ CallApproved(e)
      /\ \A a \in approvals : a.version <= plan[a.plan].version
  BY DEF ApprovalInductive, CallsApproved, ApprovalsSound
<1>1. CASE call'[e] = call[e]
  BY <1>0, <1>1 DEF CallApproved, Growth
<1>2. CASE call'[e].phase = "idle"
  BY <1>2 DEF CallApproved
<1>3. CASE /\ call[e].phase = "steps_read"
           /\ call'[e].plan = call[e].plan
           /\ call'[e].version = plan[call[e].plan].version
  BY <1>0, <1>3 DEF CallApproved, Growth
<1>4. CASE /\ call[e].phase \notin {"idle", "steps_read"}
           /\ call'[e].phase # "steps_read"
           /\ SameCall(e)
  BY <1>0, <1>4 DEF CallApproved, Growth, SameCall
<1>5. QED
  BY <1>1, <1>2, <1>3, <1>4 DEF CallMoves

LEMMA RecordsKeptApproved ==
    ASSUME ApprovalInductive, Growth, RecordsGrow
    PROVE  ExecutionIsApproved'
<1> SUFFICES ASSUME NEW x \in executions'
             PROVE  \/ x.plan \in overridden
                    \/ \E a \in approvals :
                          a.plan = x.plan /\ a.decision = "approve" /\ a.version <= x.version
  BY DEF ExecutionIsApproved, Growth
<1>1. CASE x \in executions
  BY <1>1 DEF ApprovalInductive, ExecutionIsApproved
<1>2. CASE x \notin executions
  <2>1. PICK e \in Executors : /\ call[e].phase = "running"
                               /\ x.plan = call[e].plan
                               /\ x.version = call[e].version
    BY <1>2 DEF RecordsGrow
  <2>2. CallApproved(e)
    BY DEF ApprovalInductive, CallsApproved
  <2>3. QED
    BY <2>1, <2>2 DEF CallApproved
<1>3. QED
  BY <1>1, <1>2

-----------------------------------------------------------------------------
(* The steps of a request                                                  *)

\* A step of a request that leaves the database and the workflows alone keeps
\* the invariant if the request stays sound.
LEMMA RequestFrame ==
    ASSUME ApprovalInductive, Record,
           UNCHANGED <<vars, approvals, workflow, overridden>>, requests' \in Nat,
           NEW u \in Users, NEW r \in Request,
           request' = [request EXCEPT ![u] = r],
           RequestSound(u)'
    PROVE  ApprovalInductive'
<1>1. TypeOK' /\ CallsWellFormed' /\ RevisionsWellFormed'
  BY InductiveGivesTypes, TypeInvStep DEF TypeInv
<1>2. Growth
  BY DEF Growth, VersionsGrow, Record, ApprovalInductive, ApprovalTypeOK, TypeOK, vars
<1>3. /\ request' \in [Users -> Request]
      /\ \A t \in Users \ {u} : request'[t] = request[t]
  BY DEF ApprovalInductive, ApprovalTypeOK
<1>4. ApprovalTypeOK'
  BY <1>1, <1>3, HistoryTyped DEF ApprovalInductive, ApprovalTypeOK
<1>5. RequestsSound'
  BY <1>1, <1>2, <1>3, RequestKept DEF RequestsSound
<1>6. ApprovalsSound' /\ WorkflowsSound'
  BY <1>1, <1>2, ApprovalsKept, WorkflowsKept
<1>7. CallsApproved'
  BY <1>2, CallKeptApproved DEF CallsApproved, CallMoves, vars
<1>8. ExecutionIsApproved'
  BY <1>2, RecordsKeptApproved DEF RecordsGrow, vars
<1>9. QED
  BY <1>1, <1>4, <1>5, <1>6, <1>7, <1>8 DEF ApprovalInductive

LEMMA RequestFacts ==
    ASSUME ApprovalInductive, NEW u \in Users
    PROVE  /\ request[u] \in Request
           /\ RequestSound(u)
           /\ \A p \in Plans : /\ plan[p].version \in Nat
                               /\ rows[p].actions \in Seq(Actions)
                               /\ Content(p, plan[p].version, rows[p].actions) \in history
           /\ request \in [Users -> Request]
           /\ requests \in Nat
<1>1. TypeOK /\ Shows \subseteq history
  BY DEF ApprovalInductive, ApprovalTypeOK, ApprovalsSound
<1>2. QED
  BY <1>1 DEF ApprovalInductive, ApprovalTypeOK, TypeOK, StepRows, Shows, RequestsSound

LEMMA FetchKeeps ==
    ASSUME ApprovalInductive, Record, NEW u \in Users,
           (\E p \in Plans : FetchPlan(u, p)) \/ FetchSteps(u)
    PROVE  ApprovalInductive'
<1> DEFINE r == request[u]
<1>0. /\ r \in Request /\ RequestSound(u) /\ request \in [Users -> Request] /\ requests \in Nat
      /\ \A p \in Plans : /\ plan[p].version \in Nat
                          /\ rows[p].actions \in Seq(Actions)
                          /\ Content(p, plan[p].version, rows[p].actions) \in history
  BY RequestFacts
<1>1. ASSUME NEW p \in Plans, FetchPlan(u, p) PROVE ApprovalInductive'
  <2> DEFINE s == [NoRequest EXCEPT !.phase = "plan_fetched", !.plan = p,
                                    !.version = plan[p].version]
  <2>1. /\ s \in Request
        /\ s.phase = "plan_fetched" /\ s.plan = p /\ s.version = plan[p].version
    BY <1>0, NoRequestTyped DEF NoRequest, Request, RequestPhase
  <2>2. request' = [request EXCEPT ![u] = s]
    BY <1>1 DEF FetchPlan
  <2> HIDE DEF s
  <2>3. UNCHANGED <<vars, approvals, workflow, overridden>> /\ requests' = requests + 1
    BY <1>1 DEF FetchPlan
  <2>4. request'[u] = s /\ plan' = plan
    BY <1>0, <2>2, <2>3 DEF vars, tables
  <2>5. RequestSound(u)'
    BY <1>0, <2>1, <2>4 DEF RequestSound
  <2>6. requests' \in Nat
    BY <1>0, <2>3
  <2>7. QED
    BY <2>1, <2>2, <2>3, <2>5, <2>6, RequestFrame
<1>2. CASE FetchSteps(u)
  <2> DEFINE s == [r EXCEPT !.phase = "shown", !.actions = rows[r.plan].actions]
  <2>0. r.plan \in Plans /\ r.version <= plan[r.plan].version
    BY <1>0, <1>2 DEF FetchSteps, RequestSound
  <2>1. /\ s \in Request
        /\ s.phase = "shown" /\ s.plan = r.plan /\ s.version = r.version
        /\ s.actions = rows[r.plan].actions
    BY <1>0, <2>0 DEF Request, RequestPhase
  <2>2. request' = [request EXCEPT ![u] = s]
    BY <1>2 DEF FetchSteps
  <2> HIDE DEF s
  <2>3. UNCHANGED <<vars, approvals, workflow, overridden, requests>>
    BY <1>2 DEF FetchSteps
  <2>4. request'[u] = s /\ plan' = plan /\ history \subseteq history'
    BY <1>0, <2>2, <2>3 DEF vars, tables, Record
  <2>5. s.version = plan[s.plan].version => Content(s.plan, s.version, s.actions) \in history
    BY <1>0, <2>0, <2>1
  <2>6. RequestSound(u)'
    BY <2>0, <2>1, <2>4, <2>5 DEF RequestSound, InHistory
  <2>7. QED
    BY <1>0, <2>1, <2>2, <2>3, <2>6, RequestFrame
<1>3. QED
  BY <1>1, <1>2

LEMMA CheckKeeps ==
    ASSUME ApprovalInductive, Record, NEW u \in Users,
           \/ \E i \in Incidents, decision \in Decisions : CheckPlan(u, i, decision)
           \/ CheckSteps(u)
    PROVE  ApprovalInductive'
<1> DEFINE r == request[u]
<1>0. /\ r \in Request /\ RequestSound(u) /\ request \in [Users -> Request] /\ requests \in Nat
      /\ \A p \in Plans : plan[p].version \in Nat
  BY RequestFacts
<1>1. ASSUME NEW i \in Incidents, NEW decision \in Decisions, CheckPlan(u, i, decision)
      PROVE  ApprovalInductive'
  <2> DEFINE s == [r EXCEPT !.phase = "checking", !.decision = decision, !.incident = i,
                            !.found = plan[r.plan].version]
  <2>0. /\ r.plan \in Plans /\ r.version <= plan[r.plan].version
        /\ r.version = plan[r.plan].version => Content(r.plan, r.version, r.actions) \in history
    BY <1>0, <1>1 DEF CheckPlan, RequestSound, InHistory
  <2>1. /\ s \in Request
        /\ s.phase = "checking" /\ s.plan = r.plan /\ s.version = r.version
        /\ s.actions = r.actions /\ s.found = plan[r.plan].version /\ s.incident = i
    BY <1>0, <2>0 DEF Request, RequestPhase
  <2>2. request' = [request EXCEPT ![u] = s]
    BY <1>1 DEF CheckPlan
  <2> HIDE DEF s
  <2>3. UNCHANGED <<vars, approvals, workflow, overridden, requests>>
    BY <1>1 DEF CheckPlan
  <2>4. request'[u] = s /\ plan' = plan /\ history \subseteq history'
    BY <1>0, <2>2, <2>3 DEF vars, tables, Record
  <2>5. RequestSound(u)'
    BY <2>0, <2>1, <2>4 DEF RequestSound, InHistory
  <2>6. QED
    BY <1>0, <2>1, <2>2, <2>3, <2>5, RequestFrame
<1>2. CASE CheckSteps(u) /\ HashMatches(r)
  <2> DEFINE s == [r EXCEPT !.phase = "checked"]
  <2>0. /\ r.plan \in Plans /\ r.incident \in Incidents /\ r.version <= plan[r.plan].version
        /\ Content(r.plan, r.version, r.actions) \in history
    BY <1>0, <1>2 DEF CheckSteps, RequestSound, InHistory, HashMatches
  <2>1. /\ s \in Request
        /\ s.phase = "checked" /\ s.plan = r.plan /\ s.version = r.version
        /\ s.actions = r.actions /\ s.incident = r.incident
    BY <1>0 DEF Request, RequestPhase
  <2>2. request' = [request EXCEPT ![u] = s]
    BY <1>2 DEF CheckSteps
  <2> HIDE DEF s
  <2>3. UNCHANGED <<vars, approvals, workflow, overridden, requests>>
    BY <1>2 DEF CheckSteps
  <2>4. request'[u] = s /\ plan' = plan /\ history \subseteq history'
    BY <1>0, <2>2, <2>3 DEF vars, tables, Record
  <2>5. RequestSound(u)'
    BY <2>0, <2>1, <2>4 DEF RequestSound, InHistory
  <2>6. QED
    BY <1>0, <2>1, <2>2, <2>3, <2>5, RequestFrame
<1>3. CASE CheckSteps(u) /\ ~HashMatches(r)
  <2>1. /\ request' = [request EXCEPT ![u] = NoRequest]
        /\ UNCHANGED <<vars, approvals, workflow, overridden, requests>>
    BY <1>3 DEF CheckSteps
  <2>2. RequestSound(u)'
    BY <1>0, <2>1 DEF RequestSound, NoRequest
  <2>3. QED
    BY <1>0, <2>1, <2>2, NoRequestTyped, RequestFrame
<1>4. QED
  BY <1>1, <1>2, <1>3

LEMMA EndKeeps ==
    ASSUME ApprovalInductive, Record, NEW u \in Users, SignalFails(u) \/ EndRequest(u)
    PROVE  ApprovalInductive'
<1> DEFINE r == request[u]
<1>0. /\ r \in Request /\ RequestSound(u) /\ request \in [Users -> Request] /\ requests \in Nat
  BY RequestFacts
<1>1. CASE SignalFails(u)
  <2> DEFINE s == [r EXCEPT !.phase = "unsignalled"]
  <2>0. /\ r.plan \in Plans /\ r.incident \in Incidents /\ r.version <= plan[r.plan].version
        /\ r.decision = "approve" => Approved(r.plan)
    BY <1>0, <1>1 DEF SignalFails, RequestSound
  <2>1. /\ s \in Request
        /\ s.phase = "unsignalled" /\ s.plan = r.plan /\ s.version = r.version
        /\ s.decision = r.decision /\ s.incident = r.incident
    BY <1>0 DEF Request, RequestPhase
  <2>2. request' = [request EXCEPT ![u] = s]
    BY <1>1 DEF SignalFails
  <2> HIDE DEF s
  <2>3. UNCHANGED <<vars, approvals, workflow, overridden, requests>>
    BY <1>1 DEF SignalFails
  <2>4. request'[u] = s /\ plan' = plan
    BY <1>0, <2>2, <2>3 DEF vars, tables
  <2>5. RequestSound(u)'
    BY <2>0, <2>1, <2>3, <2>4 DEF RequestSound, Approved
  <2>6. QED
    BY <1>0, <2>1, <2>2, <2>3, <2>5, RequestFrame
<1>2. CASE EndRequest(u)
  <2>1. /\ request' = [request EXCEPT ![u] = NoRequest]
        /\ UNCHANGED <<vars, approvals, workflow, overridden, requests>>
    BY <1>2 DEF EndRequest
  <2>2. RequestSound(u)'
    BY <1>0, <2>1 DEF RequestSound, NoRequest
  <2>3. QED
    BY <1>0, <2>1, <2>2, NoRequestTyped, RequestFrame
<1>3. QED
  BY <1>1, <1>2

-----------------------------------------------------------------------------
(* The steps that change an approval, a workflow or a call                 *)

LEMMA SamePlanGrows ==
    ASSUME ApprovalInductive, \A p \in Plans : plan'[p].version = plan[p].version
    PROVE  VersionsGrow
BY DEF VersionsGrow, ApprovalInductive, ApprovalTypeOK, TypeOK

LEMMA RequestsKept ==
    ASSUME ApprovalInductive, Growth, TypeOK', NEW u \in Users, NEW r \in Request,
           request' = [request EXCEPT ![u] = r],
           RequestSound(u)'
    PROVE  RequestsSound' /\ request' \in [Users -> Request]
<1>1. /\ request' \in [Users -> Request]
      /\ \A t \in Users \ {u} : request'[t] = request[t]
  BY DEF ApprovalInductive, ApprovalTypeOK
<1>2. RequestsSound'
  BY <1>1, RequestKept DEF RequestsSound
<1>3. QED
  BY <1>1, <1>2

LEMMA NoRequestSound ==
    ASSUME ApprovalInductive, NEW u \in Users, request' = [request EXCEPT ![u] = NoRequest]
    PROVE  RequestSound(u)'
<1>1. request'[u] = NoRequest
  BY RequestFacts
<1>2. QED
  BY <1>1 DEF RequestSound, NoRequest

\* What is left to show of a step that records no approval.
LEMMA Combine ==
    ASSUME ApprovalInductive, Record, TypeInv', Growth, UNCHANGED approvals,
           request' \in [Users -> Request], workflow' \in [Incidents -> Workflow],
           overridden' \subseteq Plans, requests' \in Nat,
           RequestsSound', WorkflowsSound', CallsApproved', RecordsGrow
    PROVE  ApprovalInductive'
<1>1. TypeOK' /\ CallsWellFormed' /\ RevisionsWellFormed'
  BY DEF TypeInv
<1>2. ApprovalTypeOK'
  BY <1>1, HistoryTyped DEF ApprovalInductive, ApprovalTypeOK
<1>3. ApprovalsSound' /\ ExecutionIsApproved'
  BY <1>1, ApprovalsKept, RecordsKeptApproved
<1>4. QED
  BY <1>1, <1>2, <1>3 DEF ApprovalInductive

\* Who starts to execute a plan that was ordered or approved.
LEMMA ReadStepsApproved ==
    ASSUME ApprovalInductive, Growth, NEW e \in Executors, NEW p \in Plans, NEW i \in Incidents,
           ReadSteps(e, p, i),
           \/ p \in overridden'
           \/ \E a \in approvals' : a.plan = p /\ a.decision = "approve"
    PROVE  CallsApproved' /\ RecordsGrow /\ TypeInv'
<1>1. /\ call'[e].phase = "steps_read"
      /\ call'[e].plan = p
      /\ \A d \in Executors \ {e} : call'[d] = call[d]
      /\ executions' = executions
  BY DEF ReadSteps, NoCall, tables, ApprovalInductive, ApprovalTypeOK, TypeOK
<1>2. CallApproved(e)'
  BY <1>1 DEF CallApproved
<1>3. ASSUME NEW d \in Executors \ {e} PROVE CallApproved(d)'
  BY <1>1, CallKeptApproved DEF CallMoves
<1>4. RecordsGrow
  BY <1>1 DEF RecordsGrow
<1>5. TypeInv'
  BY InductiveGivesTypes, TypeInvExecution
<1>6. QED
  BY <1>2, <1>3, <1>4, <1>5 DEF CallsApproved

LEMMA RecordApprovalKeeps ==
    ASSUME ApprovalInductive, Record, NEW u \in Users, RecordApproval(u)
    PROVE  ApprovalInductive'
<1> DEFINE r == request[u]
           s == [r EXCEPT !.phase = "recorded"]
           a == [plan |-> r.plan, version |-> r.version, actions |-> r.actions,
                 decision |-> r.decision]
<1>0. /\ r \in Request /\ RequestSound(u) /\ request \in [Users -> Request]
      /\ MarkApproved(r.plan) /\ r.phase = "checked"
      /\ approvals' = approvals \cup {a}
      /\ request' = [request EXCEPT ![u] = s]
      /\ UNCHANGED <<workflow, overridden, requests>>
  BY RequestFacts DEF RecordApproval
<1>1. /\ r.plan \in Plans /\ r.incident \in Incidents /\ r.version <= plan[r.plan].version
      /\ Content(r.plan, r.version, r.actions) \in history
  BY <1>0 DEF RequestSound, InHistory
<1>2. /\ s \in Request
      /\ s.phase = "recorded" /\ s.plan = r.plan /\ s.version = r.version
      /\ s.decision = r.decision /\ s.incident = r.incident
      /\ request'[u] = s
  BY <1>0 DEF Request, RequestPhase
<1>3. /\ a \in Approval
      /\ a.plan = r.plan /\ a.version = r.version /\ a.actions = r.actions
      /\ a.decision = r.decision
  BY <1>0, <1>1 DEF Request, Approval
<1> HIDE DEF r, s, a
<1>4. /\ UNCHANGED <<executions, call>>
      /\ \A p \in Plans : plan'[p].version = plan[p].version /\ plan[p].version \in Nat
  BY <1>0 DEF MarkApproved, ApprovalInductive, ApprovalTypeOK, TypeOK
<1>5. TypeInv'
  BY <1>0, <1>1, InductiveGivesTypes, TypeInvApproval
<1>6. Growth
  BY <1>0, <1>4, SamePlanGrows DEF Growth, Record
<1>7. RequestsSound' /\ request' \in [Users -> Request]
  <2>1. r.decision = "approve" => \E b \in approvals' : b.plan = r.plan /\ b.decision = "approve"
    BY <1>0, <1>3
  <2>2. RequestSound(u)'
    BY <1>1, <1>2, <1>4, <2>1 DEF RequestSound, Approved
  <2>3. QED
    BY <1>0, <1>2, <1>5, <1>6, <2>2, RequestsKept DEF TypeInv
<1>8. ApprovalsSound'
  <2>1. Shows' \subseteq history' /\ history \subseteq history'
    BY <1>6 DEF Growth
  <2>2. ApprovedAsAWhole'
    BY <1>0, <1>1, <1>3, <2>1 DEF ApprovalInductive, ApprovalsSound, ApprovedAsAWhole, Content
  <2>3. \A b \in approvals : b.plan \in Plans /\ b.version <= plan[b.plan].version
    BY DEF ApprovalInductive, ApprovalTypeOK, ApprovalsSound, Approval
  <2>4. \A b \in approvals' : b.version <= plan'[b.plan].version
    BY <1>0, <1>1, <1>3, <1>4, <2>3
  <2>5. QED
    BY <2>1, <2>2, <2>4 DEF ApprovalsSound
<1>9. WorkflowsSound'
  BY <1>0, <1>6, WorkflowsKept
<1>10. CallsApproved' /\ ExecutionIsApproved'
  BY <1>4, <1>6, CallKeptApproved, RecordsKeptApproved DEF CallsApproved, CallMoves, RecordsGrow
<1>11. ApprovalTypeOK'
  BY <1>0, <1>3, <1>5, <1>7, HistoryTyped DEF ApprovalInductive, ApprovalTypeOK, TypeInv
<1>12. QED
  BY <1>5, <1>7, <1>8, <1>9, <1>10, <1>11 DEF ApprovalInductive, TypeInv

LEMMA SignalKeeps ==
    ASSUME ApprovalInductive, Record, NEW u \in Users, Signal(u)
    PROVE  ApprovalInductive'
<1> DEFINE r == request[u]
           i == r.incident
           s == [r EXCEPT !.phase = "unsignalled"]
<1>0. /\ r \in Request /\ RequestSound(u) /\ request \in [Users -> Request] /\ requests \in Nat
      /\ workflow \in [Incidents -> Workflow]
  BY RequestFacts DEF ApprovalInductive, ApprovalTypeOK
<1>1. /\ r.plan \in Plans /\ r.version <= plan[r.plan].version /\ i \in Incidents
      /\ r.decision = "approve" => Approved(r.plan)
  <2>1. r.phase = "recorded"
    BY DEF Signal
  <2>2. QED
    BY <1>0, <2>1 DEF RequestSound
<1>2. /\ workflow' = [workflow EXCEPT ![i].decision = r.decision, ![i].plan = r.plan]
      /\ request' = [request EXCEPT ![u] = NoRequest] \/ request' = [request EXCEPT ![u] = s]
      /\ UNCHANGED <<vars, approvals, overridden, requests>>
  BY DEF Signal
<1>3. /\ s \in Request
      /\ s.phase = "unsignalled" /\ s.plan = r.plan /\ s.version = r.version
      /\ s.decision = r.decision /\ s.incident = i
  BY <1>0 DEF Request, RequestPhase
<1>4. /\ workflow' \in [Incidents -> Workflow]
      /\ workflow'[i].decision = r.decision /\ workflow'[i].plan = r.plan
      /\ workflow'[i].phase = workflow[i].phase
      /\ workflow'[i].running = workflow[i].running
      /\ \A j \in Incidents \ {i} : workflow'[j] = workflow[j]
  <2>1. r.decision \in Decisions /\ r.plan \in Plans
    BY <1>0, <1>1 DEF Request
  <2> HIDE DEF r, i
  <2>2. workflow[i] \in Workflow
    BY <1>0, <1>1
  <2>3. [workflow[i] EXCEPT !.decision = r.decision, !.plan = r.plan] \in Workflow
    BY <2>1, <2>2 DEF Workflow
  <2>4. workflow' = [workflow EXCEPT ![i] = [@ EXCEPT !.decision = r.decision, !.plan = r.plan]]
    BY <1>0, <1>1, <1>2, <2>2 DEF Workflow
  <2>5. QED
    BY <1>0, <1>1, <2>2, <2>3, <2>4 DEF Workflow
<1> HIDE DEF r, i, s
<1>5. TypeInv'
  BY <1>2, InductiveGivesTypes, TypeInvStep
<1>6. Growth
  BY <1>2, SamePlanGrows DEF Growth, Record, vars
<1>7. RequestsSound' /\ request' \in [Users -> Request]
  <2>1. CASE request' = [request EXCEPT ![u] = NoRequest]
    BY <1>5, <1>6, <2>1, NoRequestTyped, NoRequestSound, RequestsKept DEF TypeInv
  <2>2. CASE request' = [request EXCEPT ![u] = s]
    <3>1. request'[u] = s /\ plan' = plan /\ approvals' = approvals
      BY <1>0, <1>2, <2>2 DEF vars
    <3>2. RequestSound(u)'
      BY <1>1, <1>3, <3>1 DEF RequestSound, Approved
    <3>3. QED
      BY <1>3, <1>5, <1>6, <2>2, <3>2, RequestsKept DEF TypeInv
  <2>3. QED
    BY <1>2, <2>1, <2>2
<1>8. WorkflowsSound'
  BY <1>1, <1>2, <1>4 DEF ApprovalInductive, WorkflowsSound, Approved
<1>9. CallsApproved' /\ RecordsGrow
  BY <1>2, <1>6, CallKeptApproved DEF CallsApproved, CallMoves, RecordsGrow, vars
<1>10. QED
  BY <1>0, <1>2, <1>4, <1>5, <1>6, <1>7, <1>8, <1>9, Combine
     DEF ApprovalInductive, ApprovalTypeOK

LEMMA ExecuteKeeps ==
    ASSUME ApprovalInductive, Record, NEW e \in Executors, NEW p \in Plans, NEW i \in Incidents,
           ReadSteps(e, p, i),
           UNCHANGED <<approvals, workflow, requests>>,
           request' \in [Users -> Request],
           \A u \in Users : request'[u] \in {request[u], NoRequest},
           overridden' \in {overridden, overridden \cup {p}},
           p \in overridden' \/ Approved(p)
    PROVE  ApprovalInductive'
<1>1. plan' = plan
  BY DEF ReadSteps, tables
<1>2. Growth
  BY <1>1, SamePlanGrows DEF Growth, Record
<1>3. CallsApproved' /\ RecordsGrow /\ TypeInv'
  BY <1>2, ReadStepsApproved DEF Approved
<1>4. ASSUME NEW u \in Users PROVE RequestSound(u)'
  <2>1. CASE request'[u] = request[u]
    BY <1>2, <1>3, <2>1, RequestKept DEF TypeInv
  <2>2. CASE request'[u] = NoRequest
    BY <2>2 DEF RequestSound, NoRequest
  <2>3. QED
    BY <2>1, <2>2
<1>5. RequestsSound' /\ WorkflowsSound'
  BY <1>2, <1>4, WorkflowsKept DEF RequestsSound
<1>6. QED
  BY <1>2, <1>3, <1>5, Combine DEF ApprovalInductive, ApprovalTypeOK

\* The three ways to have a plan executed.
LEMMA OrdersKeep ==
    ASSUME ApprovalInductive, Record,
           \/ \E u \in Users : ExecuteDirectly(u)
           \/ \E p \in Plans, i \in Incidents : Override(p, i)
           \/ \E i \in Incidents, e \in Workers : Attempt(e, i)
    PROVE  ApprovalInductive'
<1>1. ASSUME NEW u \in Users, ExecuteDirectly(u) PROVE ApprovalInductive'
  <2>1. /\ request \in [Users -> Request] /\ RequestSound(u)
        /\ request[u].phase = "unsignalled" /\ request[u].decision = "approve"
        /\ ReadSteps(ApiExecutor, request[u].plan, request[u].incident)
        /\ request' = [request EXCEPT ![u] = NoRequest]
        /\ UNCHANGED <<approvals, workflow, overridden, requests>>
    BY <1>1, RequestFacts DEF ExecuteDirectly
  <2>2. /\ request[u].plan \in Plans /\ request[u].incident \in Incidents
        /\ Approved(request[u].plan)
    BY <2>1 DEF RequestSound
  <2>3. /\ request' \in [Users -> Request]
        /\ \A t \in Users : request'[t] \in {request[t], NoRequest}
    BY <2>1, NoRequestTyped
  <2>4. QED
    BY <2>1, <2>2, <2>3, ExecuteKeeps, ApprovalAssumption
<1>2. ASSUME NEW p \in Plans, NEW i \in Incidents, Override(p, i) PROVE ApprovalInductive'
  BY <1>2, ExecuteKeeps, ApprovalAssumption DEF Override, ApprovalInductive, ApprovalTypeOK
<1>3. ASSUME NEW i \in Incidents, NEW e \in Workers, Attempt(e, i) PROVE ApprovalInductive'
  <2> DEFINE p == workflow[i].running
  <2>1. Approved(p) /\ workflow[i] \in Workflow
    BY <1>3 DEF Attempt, ApprovalInductive, ApprovalTypeOK, WorkflowsSound
  <2>2. p \in Plans
    BY <2>1 DEF Approved, ApprovalInductive, ApprovalTypeOK, Approval
  <2>3. /\ ReadSteps(e, p, i) /\ e \in Executors
        /\ UNCHANGED <<approvals, request, workflow, overridden, requests>>
    BY <1>3 DEF Attempt, approvalVars, Workers
  <2> HIDE DEF p
  <2>4. QED
    BY <2>1, <2>2, <2>3, ExecuteKeeps DEF ApprovalInductive, ApprovalTypeOK
<1>4. QED
  BY <1>1, <1>2, <1>3

\* A step of the threads in the database, with what the workflows make of it.
LEMMA DatabaseKeeps ==
    ASSUME ApprovalInductive, Record, TypeInv', VersionsGrow,
           \A d \in Executors : CallMoves(d), RecordsGrow,
           UNCHANGED <<approvals, request, overridden, requests>>,
           workflow' \in [Incidents -> Workflow],
           \A i \in Incidents :
              /\ workflow'[i].decision = "approve" => Approved(workflow'[i].plan)
              /\ workflow'[i].phase = "executing" => Approved(workflow'[i].running)
    PROVE  ApprovalInductive'
<1>1. Growth
  BY DEF Growth, Record
<1>2. RequestsSound'
  BY <1>1, RequestKept DEF RequestsSound, TypeInv
<1>3. CallsApproved'
  BY <1>1, CallKeptApproved DEF CallsApproved
<1>4. WorkflowsSound'
  BY DEF WorkflowsSound, Approved
<1>5. QED
  BY <1>1, <1>2, <1>3, <1>4, Combine DEF ApprovalInductive, ApprovalTypeOK

LEMMA StutterMoves ==
    ASSUME ApprovalInductive, UNCHANGED vars
    PROVE  /\ TypeInv' /\ VersionsGrow /\ RecordsGrow
           /\ \A d \in Executors : CallMoves(d)
<1>1. TypeInv'
  BY InductiveGivesTypes, TypeInvStep
<1>2. QED
  BY <1>1, SamePlanGrows DEF CallMoves, RecordsGrow, vars

LEMMA WorkflowKeeps ==
    ASSUME ApprovalInductive, Record, NEW i \in Incidents,
           StartAgain(i) \/ TriageReported(i) \/ Proceed(i)
    PROVE  ApprovalInductive'
<1>0. /\ workflow \in [Incidents -> Workflow] /\ WorkflowsSound
      /\ workflow[i] \in Workflow
  BY DEF ApprovalInductive, ApprovalTypeOK
<1>1. UNCHANGED <<vars, approvals, request, overridden, requests>>
  BY DEF StartAgain, TriageReported, Proceed
<1>2. CASE StartAgain(i)
  <2>1. /\ workflow' \in [Incidents -> Workflow]
        /\ workflow'[i].decision = "none" /\ workflow'[i].phase = "triaging"
        /\ \A j \in Incidents \ {i} : workflow'[j] = workflow[j]
    BY <1>0, <1>2 DEF StartAgain, Workflow, NewWorkflow
  <2>2. QED
    BY <1>0, <1>1, <2>1, StutterMoves, DatabaseKeeps DEF WorkflowsSound
<1>3. CASE TriageReported(i) \/ Proceed(i)
  <2>1. PICK phase \in {"waiting", "executing", "closed"}, running \in Plans \cup {NoPlan} :
           /\ workflow' = [workflow EXCEPT ![i].phase = phase, ![i].running = running]
           /\ phase = "executing" => Approved(running)
    <3>1. CASE TriageReported(i)
      <4>1. PICK phase \in {"waiting", "closed"} :
                workflow' = [workflow EXCEPT ![i].phase = phase]
        BY <3>1 DEF TriageReported
      <4>2. workflow' = [workflow EXCEPT ![i].phase = phase,
                                         ![i].running = workflow[i].running]
        BY <1>0, <4>1 DEF Workflow
      <4>3. QED
        BY <1>0, <4>1, <4>2 DEF Workflow
    <3>2. CASE Proceed(i) /\ workflow[i].decision = "approve"
      BY <1>0, <3>2 DEF Proceed, Workflow, WorkflowsSound
    <3>3. CASE Proceed(i) /\ workflow[i].decision # "approve"
      <4>1. workflow' = [workflow EXCEPT ![i].phase = "closed"]
        BY <3>3 DEF Proceed
      <4>2. workflow' = [workflow EXCEPT ![i].phase = "closed",
                                         ![i].running = workflow[i].running]
        BY <1>0, <4>1 DEF Workflow
      <4>3. QED
        BY <1>0, <4>2 DEF Workflow
    <3>4. QED
      BY <1>3, <3>1, <3>2, <3>3
  <2>2. /\ workflow' \in [Incidents -> Workflow]
        /\ workflow'[i].phase = phase /\ workflow'[i].running = running
        /\ workflow'[i].decision = workflow[i].decision /\ workflow'[i].plan = workflow[i].plan
        /\ \A j \in Incidents \ {i} : workflow'[j] = workflow[j]
    BY <1>0, <2>1 DEF Workflow
  <2>3. \A j \in Incidents :
           /\ workflow'[j].decision = "approve" => Approved(workflow'[j].plan)
           /\ workflow'[j].phase = "executing" => Approved(workflow'[j].running)
    BY <1>0, <2>1, <2>2 DEF WorkflowsSound
  <2>4. QED
    BY <1>1, <2>2, <2>3, StutterMoves, DatabaseKeeps
<1>4. QED
  BY <1>2, <1>3

LEMMA StatementKeeps ==
    ASSUME ApprovalInductive, Record, Statement \/ \E e \in Workers : CompleteAttempt(e)
    PROVE  ApprovalInductive'
<1>0. workflow \in [Incidents -> Workflow] /\ WorkflowsSound /\ TypeInv
  BY InductiveGivesTypes DEF ApprovalInductive, ApprovalTypeOK
<1>1. CASE Statement
  <2>1. UNCHANGED <<approvals, request, workflow, overridden, requests>>
    BY <1>1 DEF Statement, approvalVars
  <2>2. /\ \A d \in Executors : CallMoves(d)
        /\ VersionsGrow /\ RecordsGrow /\ TypeInv'
    BY <1>0, <1>1, StatementMoves, TypeInvStep
  <2>3. QED
    BY <1>0, <2>1, <2>2, DatabaseKeeps DEF WorkflowsSound
<1>2. ASSUME NEW e \in Workers, CompleteAttempt(e) PROVE ApprovalInductive'
  <2> DEFINE i == call[e].incident
  <2>0. e \in Executors
    BY DEF Workers
  <2>1. /\ Finish(e) /\ UNCHANGED <<approvals, request, overridden, requests>>
        /\ \/ workflow' = [workflow EXCEPT ![i].phase = "closed"]
           \/ workflow' = workflow
    BY <1>2 DEF CompleteAttempt
  <2>2. i \in Incidents
    BY <1>0, <2>0, <2>1 DEF TypeInv, CallsWellFormed, Finish
  <2>3. /\ \A d \in Executors : CallMoves(d)
        /\ VersionsGrow /\ RecordsGrow /\ TypeInv'
    BY <1>0, <2>0, <2>1, ExecutorMoves, SamePlanGrows, TypeInvExecution DEF Progress
  <2> HIDE DEF i
  <2>4. /\ workflow' \in [Incidents -> Workflow]
        /\ \A j \in Incidents :
              /\ workflow'[j].decision = workflow[j].decision
              /\ workflow'[j].plan = workflow[j].plan
              /\ workflow'[j].running = workflow[j].running
              /\ workflow'[j].phase \in {workflow[j].phase, "closed"}
    BY <1>0, <2>1, <2>2 DEF Workflow
  <2>5. QED
    BY <1>0, <2>1, <2>3, <2>4, DatabaseKeeps DEF WorkflowsSound
<1>3. QED
  BY <1>1, <1>2

-----------------------------------------------------------------------------
(* The theorems                                                            *)

LEMMA ApprovalInductiveInit == ApprovalInit => ApprovalInductive
<1> SUFFICES ASSUME ApprovalInit PROVE ApprovalInductive
  OBVIOUS
<1>1. TypeInv
  BY TypeInvInit DEF ApprovalInit
<1>2. history \subseteq [plan : Plans, version : Nat, actions : Seq(Actions)]
  BY <1>1 DEF ApprovalInit, TypeInv, TypeOK, Shows, Content, StepRows
<1>3. workflow \in [Incidents -> Workflow] /\ WorkflowsSound
  <2>1. PICK phase \in [Incidents -> {"triaging", "waiting", "closed"}] :
            workflow = [i \in Incidents |-> NewWorkflow(phase[i])]
    BY DEF ApprovalInit
  <2>2. QED
    BY <2>1 DEF Workflow, WorkflowsSound, NewWorkflow
<1>4. ApprovalTypeOK
  BY <1>1, <1>2, <1>3, NoRequestTyped DEF ApprovalInit, ApprovalTypeOK, TypeInv
<1>5. RequestsSound
  BY DEF ApprovalInit, RequestsSound, RequestSound, NoRequest
<1>6. ApprovalsSound
  BY DEF ApprovalInit, ApprovalsSound, ApprovedAsAWhole
<1>7. CallsApproved /\ ExecutionIsApproved
  BY DEF ApprovalInit, Init, CallsApproved, CallApproved, ExecutionIsApproved, NoCall
<1>8. QED
  BY <1>1, <1>3, <1>4, <1>5, <1>6, <1>7 DEF ApprovalInductive, TypeInv

LEMMA ApprovalInductiveStep == ApprovalInductive /\ [ApprovalNext]_allVars => ApprovalInductive'
<1>1. ASSUME ApprovalInductive, ApprovalStep, Record PROVE ApprovalInductive'
  <2>1. ASSUME NEW u \in Users, RequestStep(u) PROVE ApprovalInductive'
    BY <1>1, <2>1, FetchKeeps, CheckKeeps, EndKeeps, RecordApprovalKeeps, SignalKeeps,
       OrdersKeep DEF RequestStep
  <2>2. ASSUME NEW i \in Incidents, WorkflowStep(i) PROVE ApprovalInductive'
    BY <1>1, <2>2, WorkflowKeeps, OrdersKeep DEF WorkflowStep
  <2>3. QED
    BY <1>1, <2>1, <2>2, OrdersKeep, StatementKeeps DEF ApprovalStep
<1>2. ASSUME ApprovalInductive, UNCHANGED allVars PROVE ApprovalInductive'
  BY <1>2 DEF ApprovalInductive, ApprovalTypeOK, TypeOK, CallsWellFormed, RevisionsWellFormed,
              RequestsSound, RequestSound, InHistory, Content, Approved, ApprovalsSound, Shows,
              ApprovedAsAWhole, WorkflowsSound, CallsApproved, CallApproved,
              ExecutionIsApproved, allVars, approvalVars, vars
<1>3. QED
  BY <1>1, <1>2 DEF ApprovalNext

LEMMA ApprovalInductiveAlways == ApprovalSpec => []ApprovalInductive
BY ApprovalInductiveInit, ApprovalInductiveStep, PTL DEF ApprovalSpec

\* The approval rows, the requests and the workflows keep their types.
THEOREM ApprovalTypeCorrect == ApprovalSpec => []ApprovalTypeOK
<1>1. ApprovalInductive => ApprovalTypeOK
  BY DEF ApprovalInductive
<1>2. QED
  BY <1>1, ApprovalInductiveAlways, PTL

\* Only what somebody approved, or a commander ordered, is executed, and never
\* in a version older than the approved one: for any number of users, incidents
\* and workers, whatever happens to the signals.
THEOREM OnlyApprovedIsExecuted == ApprovalSpec => []ExecutionIsApproved
<1>1. ApprovalInductive => ExecutionIsApproved
  BY DEF ApprovalInductive
<1>2. QED
  BY <1>1, ApprovalInductiveAlways, PTL

\* What is approved was the content of the plan at one moment, although it is
\* read and compared on four snapshots.
THEOREM ApprovalIsOfOneVersion == ApprovalSpec => []ApprovedAsAWhole
<1>1. ApprovalInductive => ApprovedAsAWhole
  BY DEF ApprovalInductive, ApprovalsSound
<1>2. QED
  BY <1>1, ApprovalInductiveAlways, PTL

LEMMA ApprovalStepIsStep == ApprovalInductive /\ [ApprovalNext]_allVars => [Next]_vars
<1> SUFFICES ASSUME ApprovalInductive, ApprovalNext PROVE [Next]_vars
  BY DEF allVars, vars
<1>1. ASSUME NEW u \in Users, RequestStep(u) PROVE [Next]_vars
  <2>1. CASE RecordApproval(u)
    <3>1. request[u].plan \in Plans
      BY <2>1, RequestFacts DEF RecordApproval, RequestSound
    <3>2. QED
      BY <2>1, <3>1 DEF RecordApproval, Next
  <2>2. CASE ExecuteDirectly(u)
    <3>1. request[u].plan \in Plans /\ request[u].incident \in Incidents
      BY <2>2, RequestFacts DEF ExecuteDirectly, RequestSound
    <3>2. QED
      BY <2>2, <3>1, ApprovalAssumption DEF ExecuteDirectly, Next
  <2>3. QED
    BY <1>1, <2>1, <2>2 DEF RequestStep, FetchPlan, FetchSteps, CheckPlan, CheckSteps, Signal,
                            SignalFails, EndRequest
<1>2. ASSUME NEW i \in Incidents, WorkflowStep(i) PROVE [Next]_vars
  <2>1. ASSUME NEW e \in Workers, Attempt(e, i) PROVE Next
    <3>1. workflow[i].running \in Plans
      BY <2>1 DEF Attempt, ApprovalInductive, ApprovalTypeOK, WorkflowsSound, Approved, Approval
    <3>2. QED
      BY <2>1, <3>1 DEF Attempt, Next, Workers
  <2>2. QED
    BY <1>2, <2>1 DEF WorkflowStep, StartAgain, TriageReported, Proceed
<1>3. ASSUME NEW e \in Workers, CompleteAttempt(e) PROVE Next
  BY <1>3 DEF CompleteAttempt, Next, Progress, Workers
<1>4. ASSUME NEW p \in Plans, NEW i \in Incidents, Override(p, i) PROVE Next
  BY <1>4, ApprovalAssumption DEF Override, Next
<1>5. CASE Statement
  BY <1>5, InductiveGivesTypes, StatementMoves
<1>6. QED
  BY <1>1, <1>2, <1>3, <1>4, <1>5 DEF ApprovalNext, ApprovalStep

\* With the approval endpoint and the workflows around them the transactions
\* do nothing that PlanExecution does not allow: its theorems hold here too.
THEOREM ApprovalKeepsExecution == ApprovalSpec => Spec
<1>1. ApprovalInit => Init
  BY DEF ApprovalInit
<1>2. QED
  BY <1>1, ApprovalStepIsStep, ApprovalInductiveAlways, PTL DEF ApprovalSpec, Spec
==============================================================================
