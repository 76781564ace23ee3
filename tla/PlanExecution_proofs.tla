------------------------ MODULE PlanExecution_proofs ------------------------
(***************************************************************************)
(* Theorems about PlanExecution, for every value of its constants.         *)
(***************************************************************************)
EXTENDS PlanExecution, SequenceTheorems, TLAPS

-----------------------------------------------------------------------------
(* Rows and outcomes                                                       *)

LEMMA FunctionIsSeq ==
    ASSUME NEW S, NEW n \in Nat, NEW f \in [1..n -> S]
    PROVE  /\ f \in Seq(S)
           /\ Len(f) = n
           /\ DOMAIN f = 1..n
<1>1. f \in Seq(S)
  BY SeqDef
<1>2. QED
  BY <1>1, LenProperties, SMT

LEMMA FreshRowsTyped ==
    ASSUME NEW gen \in Nat, NEW actions \in Seq(Actions)
    PROVE  /\ NewRows(gen, actions) \in StepRows
           /\ NewRows(gen, actions).gen = gen
           /\ NewRows(gen, actions).actions = actions
<1>1. Len(actions) \in Nat
  BY LenProperties
<1>2. [k \in 1..Len(actions) |-> "PENDING"] \in Seq(StepStatus)
  BY <1>1, FunctionIsSeq, [k \in 1..Len(actions) |-> "PENDING"] \in [1..Len(actions) -> StepStatus]
     DEF StepStatus
<1>3. QED
  BY <1>2 DEF NewRows, StepRows

LEMMA OutcomesTyped == Outcomes \subseteq EngineOutcomes
BY ConstantsAssumption

LEMMA NoCallTyped == NoCall \in Call
BY EmptySeq DEF NoCall, Call, CallPhase

LEMMA NoRevisionTyped == NoRevision \in Revision
BY EmptySeq DEF NoRevision, Revision, RevisionPhase

LEMMA ReleaseKeepsType ==
    ASSUME NEW H, NEW lock \in [Plans -> H], Nobody \in H, NEW a
    PROVE  Release(lock, a) \in [Plans -> H]
BY DEF Release

-----------------------------------------------------------------------------
(* Type correctness                                                        *)

TypeInv == TypeOK /\ CallsWellFormed /\ RevisionsWellFormed

LEMMA TypeInvInit == Init => TypeInv
<1> SUFFICES ASSUME Init PROVE TypeInv
  OBVIOUS
<1>1. plan \in [Plans -> [status : PlanStatus, version : Nat]]
  BY DEF Init, PlanStatus
<1>2. rows \in [Plans -> StepRows]
  BY FreshRowsTyped, ConstantsAssumption DEF Init
<1>3. TypeOK
  BY <1>1, <1>2, NoCallTyped, NoRevisionTyped DEF Init, TypeOK, IncidentStatus
<1>4. CallsWellFormed
  BY EmptySeq DEF Init, CallsWellFormed, NoCall
<1>5. RevisionsWellFormed
  BY DEF Init, RevisionsWellFormed, NoRevision
<1>6. QED
  BY <1>3, <1>4, <1>5 DEF TypeInv

\* A call of which only the phase and the version change.
LEMMA CallPhaseTyped ==
    ASSUME NEW c \in Call, NEW ph \in CallPhase, NEW v \in Nat
    PROVE  /\ [c EXCEPT !.phase = ph] \in Call
           /\ [c EXCEPT !.phase = ph, !.version = v] \in Call
BY DEF Call

LEMMA RollbackKeepsTypes ==
    ASSUME TypeInv, NEW e \in Executors, Rollback(e)
    PROVE  /\ planLock' \in [Plans -> Executors \cup {Nobody}]
           /\ stepLock' \in [Plans -> Executors \cup Revisers \cup {Nobody}]
           /\ call' \in [Executors -> Call]
           /\ CallsWellFormed'
<1>1. /\ planLock' \in [Plans -> Executors \cup {Nobody}]
      /\ stepLock' \in [Plans -> Executors \cup Revisers \cup {Nobody}]
  BY ReleaseKeepsType DEF TypeInv, TypeOK, Rollback
<1>2. call' \in [Executors -> Call]
  BY NoCallTyped DEF TypeInv, TypeOK, Rollback
<1>3. CallsWellFormed'
  BY EmptySeq DEF TypeInv, TypeOK, CallsWellFormed, Rollback, NoCall
<1>4. QED
  BY <1>1, <1>2, <1>3

LEMMA AbandonKeepsTypeInv ==
    ASSUME TypeInv, NEW f \in Revisers, AbandonRevision(f)
    PROVE  TypeInv'
<1>1. stepLock' \in [Plans -> Executors \cup Revisers \cup {Nobody}]
  BY ReleaseKeepsType DEF TypeInv, TypeOK, AbandonRevision
<1>2. revision' \in [Revisers -> Revision]
  BY NoRevisionTyped DEF TypeInv, TypeOK, AbandonRevision
<1>3. TypeOK'
  BY <1>1, <1>2 DEF TypeInv, TypeOK, AbandonRevision, tables
<1>4. CallsWellFormed'
  BY DEF TypeInv, CallsWellFormed, AbandonRevision
<1>5. RevisionsWellFormed'
  BY DEF TypeInv, TypeOK, RevisionsWellFormed, AbandonRevision, NoRevision
<1>6. QED
  BY <1>3, <1>4, <1>5 DEF TypeInv

\* A row that an executor inserts is an execution.
LEMMA RowTyped ==
    ASSUME TypeInv, NEW e \in Executors, call[e].phase # "idle",
           NEW k \in 1..Len(call[e].actions), NEW o \in Outcomes
    PROVE  RowOf(e, k, o) \in Execution
<1>1. /\ call[e] \in Call
      /\ call[e].plan \in Plans /\ call[e].incident \in Incidents
  BY DEF TypeInv, TypeOK, CallsWellFormed
<1>2. call[e].actions[k] \in Actions
  BY <1>1, ElementOfSeq DEF Call
<1>3. QED
  BY <1>1, <1>2, LenProperties DEF RowOf, Execution, Call

LEMMA PendingTyped ==
    ASSUME TypeInv, NEW e \in Executors
    PROVE  Pending(e) \subseteq Execution
<1> SUFFICES ASSUME NEW k \in 1..Len(call[e].done)
             PROVE  RowOf(e, k, call[e].done[k]) \in Execution
  BY DEF Pending
<1>1. /\ call[e].actions \in Seq(Actions)
      /\ call[e].done \in Seq(Outcomes)
      /\ Len(call[e].done) <= Len(call[e].actions)
      /\ call[e].phase = "idle" => call[e].done = <<>>
  BY DEF TypeInv, TypeOK, CallsWellFormed, Call
<1>2. call[e].phase # "idle" /\ k \in 1..Len(call[e].actions)
  BY <1>1, EmptySeq, LenProperties
<1>3. QED
  BY <1>1, <1>2, ElementOfSeq, RowTyped

LEMMA TypeInvExecution ==
    ASSUME TypeInv, NEW e \in Executors,
           \/ \E p \in Plans, i \in Incidents : ReadSteps(e, p, i)
           \/ Progress(e)
           \/ Crash(e)
    PROVE  TypeInv'
<1> USE DEF TypeInv
<1>0. /\ call[e] \in Call
      /\ call[e].phase # "idle" => call[e].plan \in Plans /\ call[e].incident \in Incidents
  BY DEF TypeOK, CallsWellFormed
<1>1. ASSUME NEW p \in Plans, NEW i \in Incidents, ReadSteps(e, p, i) PROVE TypeInv'
  <2> DEFINE c == [NoCall EXCEPT !.phase = "steps_read", !.plan = p, !.incident = i,
                                 !.gen = rows[p].gen, !.actions = rows[p].actions]
  <2>0. /\ c \in Call
        /\ c.phase = "steps_read"
        /\ c.plan = p /\ c.incident = i
        /\ c.done = <<>>
    BY NoCallTyped DEF TypeOK, StepRows, Call, NoCall, CallPhase
  <2> HIDE DEF c
  <2>1. /\ call' = [call EXCEPT ![e] = c]
        /\ call' \in [Executors -> Call]
        /\ calls' = calls + 1
        /\ UNCHANGED <<tables, locks, audit, revision>>
    BY <1>1, <2>0 DEF ReadSteps, TypeOK, c
  <2>2. TypeOK'
    BY <2>1 DEF TypeOK, tables, locks
  <2>3. CallsWellFormed'
    BY <2>0, <2>1, EmptySeq, LenProperties DEF TypeOK, CallsWellFormed, Call
  <2>4. RevisionsWellFormed'
    BY <1>1 DEF ReadSteps, RevisionsWellFormed
  <2>5. QED
    BY <2>2, <2>3, <2>4
<1>2. CASE ReadVersion(e)
  <2>0. call[e].plan \in Plans /\ plan[call[e].plan].version \in Nat
    BY <1>0, <1>2 DEF ReadVersion, TypeOK
  <2>1. call'[e] \in Call
    BY <1>0, <1>2, <2>0 DEF ReadVersion, TypeOK, Call, CallPhase
  <2>2. TypeOK'
    BY <1>2, <2>1 DEF ReadVersion, TypeOK, tables, locks
  <2>3. CallsWellFormed'
    BY <1>2, <2>1 DEF ReadVersion, TypeOK, CallsWellFormed, Call
  <2>4. RevisionsWellFormed'
    BY <1>2 DEF ReadVersion, RevisionsWellFormed
  <2>5. QED
    BY <2>2, <2>3, <2>4
<1>3. CASE Begin(e)
  <2>1. call'[e] \in Call
    BY <1>0, <1>3, CallPhaseTyped DEF Begin, TypeOK, CallPhase
  <2>2. TypeOK'
    BY <1>3, <2>1 DEF Begin, TypeOK, tables
  <2>3. CallsWellFormed'
    BY <1>3, <2>1 DEF Begin, TypeOK, CallsWellFormed, Call
  <2>4. RevisionsWellFormed'
    BY <1>3 DEF Begin, RevisionsWellFormed
  <2>5. QED
    BY <2>2, <2>3, <2>4
<1>4. CASE ClaimStep(e)
  <2>1. call'[e] \in Call
    BY <1>0, <1>4, CallPhaseTyped DEF ClaimStep, TypeOK, CallPhase
  <2>2. TypeOK'
    BY <1>4, <2>1 DEF ClaimStep, TypeOK, tables
  <2>3. CallsWellFormed'
    BY <1>4, <2>1, LenProperties DEF ClaimStep, TypeOK, CallsWellFormed, Call, Current
  <2>4. RevisionsWellFormed'
    BY <1>4 DEF ClaimStep, RevisionsWellFormed
  <2>5. QED
    BY <2>2, <2>3, <2>4
<1>5. CASE PerformStep(e)
  <2>0. PICK o \in Outcomes :
            call' = [call EXCEPT ![e].phase = "performed", ![e].outcome = o]
    BY <1>5 DEF PerformStep
  <2>1. call'[e] \in Call /\ call'[e].outcome \in Outcomes
    BY <1>0, <2>0 DEF TypeOK, Call, CallPhase
  <2>2. TypeOK'
    BY <1>5, <2>1 DEF PerformStep, TypeOK, tables, locks
  <2>3. CallsWellFormed'
    <3>1. /\ \A d \in Executors \ {e} : call'[d] = call[d]
          /\ call'[e].phase = "performed" /\ call[e].phase = "claimed"
          /\ call'[e].plan = call[e].plan /\ call'[e].incident = call[e].incident
          /\ call'[e].actions = call[e].actions /\ call'[e].done = call[e].done
      BY <1>0, <1>5, <2>0 DEF PerformStep, TypeOK, Call
    <3>2. QED
      BY <2>1, <3>1 DEF TypeInv, CallsWellFormed
  <2>4. RevisionsWellFormed'
    BY <1>5 DEF PerformStep, RevisionsWellFormed
  <2>5. QED
    BY <2>2, <2>3, <2>4
<1>6. CASE RecordStep(e)
  <2>1. /\ call[e].outcome \in Outcomes
        /\ call[e].done \in Seq(Outcomes)
        /\ Len(call[e].done) < Len(call[e].actions)
    BY <1>0, <1>6 DEF RecordStep, CallsWellFormed, Call
  <2>2. /\ call'[e] \in Call
        /\ call'[e].phase = "running"
        /\ call'[e].actions = call[e].actions
        /\ Len(call'[e].done) = Len(call[e].done) + 1
        /\ call'[e].plan = call[e].plan /\ call'[e].incident = call[e].incident
    <3>1. /\ Append(call[e].done, call[e].outcome) \in Seq(Outcomes)
          /\ Len(Append(call[e].done, call[e].outcome)) = Len(call[e].done) + 1
      BY <2>1, AppendProperties
    <3>2. QED
      BY <1>0, <1>6, <3>1 DEF RecordStep, TypeOK, Call, CallPhase
  <2>3. RowOf(e, Current(e), call[e].outcome) \in Execution
    <3>1. Current(e) \in 1..Len(call[e].actions)
      BY <1>0, <2>1, LenProperties DEF Current, Call
    <3>2. QED
      BY <1>6, <2>1, <3>1, RowTyped DEF RecordStep
  <2>4. TypeOK'
    BY <1>6, <2>2, <2>3 DEF RecordStep, TypeOK, tables, locks
  <2>5. CallsWellFormed'
    <3>1. \A d \in Executors \ {e} : call'[d] = call[d]
      BY <1>6 DEF RecordStep, TypeOK
    <3>2. Len(call[e].done) \in Nat /\ Len(call[e].actions) \in Nat
      BY <1>0, LenProperties DEF Call
    <3>3. call'[e].plan \in Plans /\ call'[e].incident \in Incidents
      BY <1>0, <1>6, <2>2 DEF RecordStep
    <3>4. Len(call'[e].done) <= Len(call'[e].actions)
      BY <2>1, <2>2, <3>2
    <3>5. QED
      BY <2>2, <3>1, <3>3, <3>4 DEF CallsWellFormed
  <2>6. RevisionsWellFormed'
    BY <1>6 DEF RecordStep, RevisionsWellFormed
  <2>7. QED
    BY <2>4, <2>5, <2>6
<1>7. CASE RecordFails(e)
  <2>1. TypeOK' /\ CallsWellFormed'
    BY <1>7, RollbackKeepsTypes DEF RecordFails, TypeOK, tables
  <2>2. RevisionsWellFormed'
    BY <1>7 DEF RecordFails, RevisionsWellFormed
  <2>3. QED
    BY <2>1, <2>2
<1>8. CASE Finish(e)
  <2> DEFINE p == call[e].plan
  <2>1. p \in Plans /\ call[e].incident \in Incidents
    BY <1>0, <1>8 DEF Finish
  <2>2. plan' \in [Plans -> [status : PlanStatus, version : Nat]]
    BY <1>8, <2>1 DEF Finish, TypeOK, PlanStatus
  <2>3. rows' \in [Plans -> StepRows]
    <3>1. Len(call[e].done) \in Nat
      BY <1>0, LenProperties DEF Call
    <3> DEFINE status == [k \in 1..Len(call[e].done) |-> StepStatusOf(call[e].done[k])]
    <3>2. status \in Seq(StepStatus)
      <4>1. status \in [1..Len(call[e].done) -> StepStatus]
        BY DEF StepStatusOf, StepStatus
      <4>2. QED
        BY <3>1, <4>1, FunctionIsSeq
    <3> HIDE DEF status
    <3>3. rows' = IF StepsExist(e) THEN [rows EXCEPT ![p].status = status] ELSE rows
      BY <1>8 DEF Finish, status
    <3>4. QED
      BY <2>1, <3>2, <3>3 DEF TypeOK, StepRows
  <2>4. executions' \subseteq Execution
    BY <1>8, PendingTyped DEF Finish, TypeOK
  <2>5. incident' \in [Incidents -> IncidentStatus]
    BY <1>8, <2>1 DEF Finish, TypeOK, IncidentStatus
  <2>6. TypeOK' /\ CallsWellFormed'
    BY <1>8, <2>2, <2>3, <2>4, <2>5, RollbackKeepsTypes DEF Finish, TypeOK
  <2>7. RevisionsWellFormed'
    BY <1>8 DEF Finish, RevisionsWellFormed
  <2>8. QED
    BY <2>6, <2>7
<1>9. CASE Crash(e)
  <2>1. TypeOK' /\ CallsWellFormed'
    BY <1>9, RollbackKeepsTypes DEF Crash, TypeOK, tables
  <2>2. RevisionsWellFormed'
    BY <1>9 DEF Crash, RevisionsWellFormed
  <2>3. QED
    BY <2>1, <2>2
<1>10. QED
  BY <1>1, <1>2, <1>3, <1>4, <1>5, <1>6, <1>7, <1>8, <1>9 DEF Progress

LEMMA TypeInvRevision ==
    ASSUME TypeInv, NEW f \in Revisers,
           \/ \E i \in Incidents : Draft(f, i)
           \/ ProgressRevision(f)
           \/ CrashRevision(f)
    PROVE  TypeInv'
<1> USE DEF TypeInv
<1>0. /\ revision[f] \in Revision
      /\ revision[f].phase # "idle" => revision[f].plan \in Plans
  BY DEF TypeOK, RevisionsWellFormed
<1>1. ASSUME NEW i \in Incidents, Draft(f, i) PROVE TypeInv'
  <2>1. PICK actions \in Contents :
            revision' = [revision EXCEPT ![f] = [phase |-> "drafted", plan |-> LatestPlan[i],
                                                 gen |-> 0, actions |-> actions]]
    BY <1>1 DEF Draft
  <2>2. LatestPlan[i] \in Plans /\ actions \in Seq(Actions)
    BY <1>1, ConstantsAssumption DEF Draft
  <2>3. /\ revision' \in [Revisers -> Revision]
        /\ revision'[f].plan \in Plans
    BY <2>1, <2>2 DEF TypeOK, Revision, RevisionPhase
  <2>4. TypeOK'
    BY <1>1, <2>3 DEF Draft, TypeOK, tables, locks
  <2>5. CallsWellFormed'
    BY <1>1 DEF Draft, CallsWellFormed
  <2>6. RevisionsWellFormed'
    BY <2>1, <2>2 DEF TypeOK, RevisionsWellFormed
  <2>7. QED
    BY <2>4, <2>5, <2>6
<1>2. CASE IssueDelete(f)
  <2>1. revision[f].plan \in Plans /\ rows[revision[f].plan].gen \in Nat
    BY <1>0, <1>2 DEF IssueDelete, TypeOK, StepRows
  <2>2. revision' \in [Revisers -> Revision] /\ RevisionsWellFormed'
    BY <1>0, <1>2, <2>1 DEF IssueDelete, TypeOK, Revision, RevisionPhase, RevisionsWellFormed
  <2>3. TypeOK'
    BY <1>2, <2>2 DEF IssueDelete, TypeOK, tables, locks
  <2>4. CallsWellFormed'
    BY <1>2 DEF IssueDelete, CallsWellFormed
  <2>5. QED
    BY <2>2, <2>3, <2>4
<1>3. CASE DeleteSteps(f)
  <2>1. revision' \in [Revisers -> Revision] /\ RevisionsWellFormed'
    BY <1>0, <1>3 DEF DeleteSteps, TypeOK, Revision, RevisionPhase, RevisionsWellFormed
  <2>2. stepLock' \in [Plans -> Executors \cup Revisers \cup {Nobody}]
    BY <1>3 DEF DeleteSteps, TypeOK
  <2>3. TypeOK'
    BY <1>3, <2>1, <2>2 DEF DeleteSteps, TypeOK, tables
  <2>4. CallsWellFormed'
    BY <1>3 DEF DeleteSteps, CallsWellFormed
  <2>5. QED
    BY <2>1, <2>3, <2>4
<1>4. CASE Revise(f)
  <2> DEFINE p == revision[f].plan
  <2>1. p \in Plans /\ revision[f].actions \in Seq(Actions)
    BY <1>0, <1>4 DEF Revise, Revision
  <2>2. plan' \in [Plans -> [status : PlanStatus, version : Nat]]
    BY <1>4, <2>1 DEF Revise, TypeOK, PlanStatus
  <2>3. rows' \in [Plans -> StepRows]
    <3>0. rows[p].gen + 1 \in Nat
      BY <2>1 DEF TypeOK, StepRows
    <3>1. NewRows(rows[p].gen + 1, revision[f].actions) \in StepRows
      BY <2>1, <3>0, FreshRowsTyped
    <3>2. \/ rows' = [rows EXCEPT ![p] = NewRows(rows[p].gen + 1, revision[f].actions)]
          \/ rows' = rows
      BY <1>4 DEF Revise
    <3>3. QED
      BY <3>1, <3>2 DEF TypeOK
  <2>4. revision' \in [Revisers -> Revision] /\ RevisionsWellFormed'
    BY <1>4, NoRevisionTyped DEF Revise, TypeOK, RevisionsWellFormed, NoRevision
  <2>5. stepLock' \in [Plans -> Executors \cup Revisers \cup {Nobody}]
    BY <1>4, ReleaseKeepsType DEF Revise, TypeOK
  <2>6. TypeOK'
    BY <1>4, <2>2, <2>3, <2>4, <2>5 DEF Revise, TypeOK
  <2>7. CallsWellFormed'
    BY <1>4 DEF Revise, CallsWellFormed
  <2>8. QED
    BY <2>4, <2>6, <2>7
<1>5. CASE DeleteFails(f) \/ ReviseFails(f) \/ CrashRevision(f)
  BY <1>5, AbandonKeepsTypeInv DEF DeleteFails, ReviseFails, CrashRevision
<1>6. QED
  BY <1>1, <1>2, <1>3, <1>4, <1>5 DEF ProgressRevision

LEMMA TypeInvDeadlock ==
    ASSUME TypeInv, NEW e \in Executors, NEW f \in Revisers, BreakDeadlock(e, f)
    PROVE  TypeInv'
<1>1. CASE AbandonRevision(f)
  BY <1>1, AbandonKeepsTypeInv
<1>2. CASE Rollback(e) /\ UNCHANGED <<tables, audit, revision, calls>>
  <2>1. TypeOK' /\ CallsWellFormed'
    BY <1>2, RollbackKeepsTypes DEF TypeInv, TypeOK, tables
  <2>2. RevisionsWellFormed'
    BY <1>2 DEF TypeInv, RevisionsWellFormed
  <2>3. QED
    BY <2>1, <2>2 DEF TypeInv
<1>3. QED
  BY <1>1, <1>2 DEF BreakDeadlock

LEMMA TypeInvApproval ==
    ASSUME TypeInv, NEW p \in Plans, MarkApproved(p)
    PROVE  TypeInv'
<1>1. plan' \in [Plans -> [status : PlanStatus, version : Nat]]
  BY DEF TypeInv, TypeOK, MarkApproved, PlanStatus
<1>2. QED
  BY <1>1 DEF TypeInv, TypeOK, CallsWellFormed, RevisionsWellFormed, MarkApproved, locks

LEMMA TypeInvStep == TypeInv /\ [Next]_vars => TypeInv'
<1>1. ASSUME TypeInv, Next PROVE TypeInv'
  BY <1>1, TypeInvExecution, TypeInvRevision, TypeInvDeadlock, TypeInvApproval DEF Next
<1>2. ASSUME TypeInv, UNCHANGED vars PROVE TypeInv'
  BY <1>2 DEF TypeInv, TypeOK, CallsWellFormed, RevisionsWellFormed, vars
<1>3. QED
  BY <1>1, <1>2

LEMMA TypeInvAlways == Spec => []TypeInv
<1>1. QED
  BY TypeInvInit, TypeInvStep, PTL DEF Spec

\* The tables, the locks and the state of every call and revision keep their
\* types, whatever the language model proposes.
THEOREM TypeCorrect == Spec => []TypeOK
<1>1. TypeInv => TypeOK
  BY DEF TypeInv
<1>2. QED
  BY <1>1, TypeInvAlways, PTL

-----------------------------------------------------------------------------
(* What a step of one thread leaves to the others                          *)

\* A step of a never takes or releases a lock that another thread holds.
KeepsOthersLocks(a) ==
    \A p \in Plans : \A h \in (Executors \cup Revisers) \ {a} :
        /\ planLock[p] = h => planLock'[p] = h
        /\ stepLock[p] = h => stepLock'[p] = h

LEMMA NobodyIsNoThread ==
    ASSUME NEW e \in Executors, NEW f \in Revisers
    PROVE  e # Nobody /\ f # Nobody /\ e # f
BY ConstantsAssumption

\* The parts of the invariant about the tables alone.
LEMMA TablesKept ==
    ASSUME Inductive, UNCHANGED tables, audit \subseteq audit'
    PROVE  /\ VersionsAgree'
           /\ RecordsCurrent'
           /\ RecordsComplete'
           /\ AtMostOnce'
           /\ RecordsAudited'
BY DEF Inductive, tables, VersionsAgree, RecordsCurrent, RecordsComplete, RecordedWith,
       RecordsOf, AtMostOnce, Overtaken, RecordsAudited

\* A call that a step leaves alone, with the tables and its locks.
LEMMA CallKept ==
    ASSUME Inductive, TypeInv', NEW d \in Executors, call'[d] = call[d],
           UNCHANGED tables, audit \subseteq audit',
           \A p \in Plans : /\ planLock[p] = d => planLock'[p] = d
                            /\ stepLock[p] = d => stepLock'[p] = d
    PROVE  CallAgrees(d)' /\ RunIsolated(d)' /\ (Pending(d) \subseteq audit)'
<1>1. /\ call[d].phase # "idle" => call[d].plan \in Plans
      /\ CallAgrees(d) /\ RunIsolated(d) /\ Pending(d) \subseteq audit
  BY DEF Inductive, CallsWellFormed, CallsAgree, RunsIsolated, PendingAudited
<1>2. CallAgrees(d)'
  BY <1>1 DEF CallAgrees, tables
<1>3. RunIsolated(d)'
  BY <1>1 DEF RunIsolated, InTransaction, HasClaimed, StepsExist, SameRun, tables
<1>4. (Pending(d) \subseteq audit)'
  BY <1>1 DEF Pending, RowOf
<1>5. QED
  BY <1>2, <1>3, <1>4

LEMMA RevisionKept ==
    ASSUME Inductive, NEW g \in Revisers, revision'[g] = revision[g], UNCHANGED tables,
           \A p \in Plans : stepLock[p] = g => stepLock'[p] = g
    PROVE  RevisionIsolated(g)'
<1>1. /\ revision[g].phase # "idle" => revision[g].plan \in Plans
      /\ RevisionIsolated(g)
  BY DEF Inductive, RevisionsWellFormed, RevisionsIsolated
<1>2. QED
  BY <1>1 DEF RevisionIsolated, SnapshotHolds, Referenced, tables

\* A step of executor e that leaves the tables alone preserves the invariant if
\* it preserves what the invariant says of e.
LEMMA ExecutorFrame ==
    ASSUME Inductive, TypeInv', NEW e \in Executors,
           UNCHANGED <<tables, revision>>, audit \subseteq audit',
           \A d \in Executors \ {e} : call'[d] = call[d],
           KeepsOthersLocks(e),
           CallAgrees(e)', RunIsolated(e)', (Pending(e) \subseteq audit)'
    PROVE  Inductive'
<1>1. \A d \in Executors : CallAgrees(d)' /\ RunIsolated(d)' /\ (Pending(d) \subseteq audit)'
  <2> SUFFICES ASSUME NEW d \in Executors, d # e
               PROVE  CallAgrees(d)' /\ RunIsolated(d)' /\ (Pending(d) \subseteq audit)'
    OBVIOUS
  <2>1. \A p \in Plans : /\ planLock[p] = d => planLock'[p] = d
                         /\ stepLock[p] = d => stepLock'[p] = d
    BY DEF KeepsOthersLocks
  <2>2. QED
    BY <2>1, CallKept
<1>2. \A g \in Revisers : RevisionIsolated(g)'
  <2> SUFFICES ASSUME NEW g \in Revisers PROVE RevisionIsolated(g)'
    OBVIOUS
  <2>1. \A p \in Plans : stepLock[p] = g => stepLock'[p] = g
    BY NobodyIsNoThread DEF KeepsOthersLocks
  <2>2. QED
    BY <2>1, RevisionKept
<1>3. QED
  BY <1>1, <1>2, TablesKept
     DEF Inductive, TypeInv, CallsAgree, RunsIsolated, RevisionsIsolated, PendingAudited

\* The same of a step of reviser f.
LEMMA ReviserFrame ==
    ASSUME Inductive, TypeInv', NEW f \in Revisers,
           UNCHANGED <<tables, call, audit>>,
           \A g \in Revisers \ {f} : revision'[g] = revision[g],
           KeepsOthersLocks(f),
           RevisionIsolated(f)'
    PROVE  Inductive'
<1>1. \A d \in Executors : CallAgrees(d)' /\ RunIsolated(d)' /\ (Pending(d) \subseteq audit)'
  <2> SUFFICES ASSUME NEW d \in Executors
               PROVE  CallAgrees(d)' /\ RunIsolated(d)' /\ (Pending(d) \subseteq audit)'
    OBVIOUS
  <2>1. \A p \in Plans : /\ planLock[p] = d => planLock'[p] = d
                         /\ stepLock[p] = d => stepLock'[p] = d
    BY NobodyIsNoThread DEF KeepsOthersLocks
  <2>2. QED
    BY <2>1, CallKept
<1>2. \A g \in Revisers : RevisionIsolated(g)'
  <2> SUFFICES ASSUME NEW g \in Revisers, g # f PROVE RevisionIsolated(g)'
    OBVIOUS
  <2>1. \A p \in Plans : stepLock[p] = g => stepLock'[p] = g
    BY DEF KeepsOthersLocks
  <2>2. QED
    BY <2>1, RevisionKept
<1>3. QED
  BY <1>1, <1>2, TablesKept
     DEF Inductive, TypeInv, CallsAgree, RunsIsolated, RevisionsIsolated, PendingAudited

LEMMA RollbackIsLocal ==
    ASSUME TypeInv, NEW e \in Executors, Rollback(e)
    PROVE  /\ \A d \in Executors \ {e} : call'[d] = call[d]
           /\ call'[e] = NoCall
           /\ KeepsOthersLocks(e)
           /\ CallAgrees(e)' /\ RunIsolated(e)' /\ Pending(e)' = {}
<1>1. /\ \A d \in Executors \ {e} : call'[d] = call[d]
      /\ call'[e] = NoCall
  BY DEF TypeInv, TypeOK, Rollback
<1>2. KeepsOthersLocks(e)
  BY DEF TypeInv, TypeOK, Rollback, Release, KeepsOthersLocks
<1>3. CallAgrees(e)' /\ RunIsolated(e)'
  BY <1>1 DEF NoCall, CallAgrees, RunIsolated, InTransaction
<1>4. Pending(e)' = {}
  BY <1>1, EmptySeq DEF NoCall, Pending
<1>5. QED
  BY <1>1, <1>2, <1>3, <1>4

\* Each row that is inserted has been announced.
LEMMA RecordIsAudited ==
    ASSUME TypeInv, NEW e \in Executors, RecordStep(e), Pending(e) \subseteq audit
    PROVE  (Pending(e) \subseteq audit)'
<1> SUFFICES ASSUME NEW k \in 1..Len(call'[e].done)
             PROVE  RowOf(e, k, call[e].done[k])' \in audit'
  BY DEF Pending
<1>1. /\ call[e] \in Call
      /\ call'[e] = [call[e] EXCEPT !.phase = "running", !.done = Append(@, call[e].outcome)]
  BY DEF TypeInv, TypeOK, RecordStep
<1>2. /\ call[e].done \in Seq(Outcomes)
      /\ call[e].outcome \in Outcomes
  BY <1>1 DEF RecordStep, Call, TypeInv, CallsWellFormed
<1>3. /\ call'[e].done = Append(call[e].done, call[e].outcome)
      /\ Len(call'[e].done) = Len(call[e].done) + 1
      /\ Len(call[e].done) \in Nat
      /\ \A j \in 1..Len(call[e].done) : call'[e].done[j] = call[e].done[j]
      /\ call'[e].done[Len(call[e].done) + 1] = call[e].outcome
  BY <1>1, <1>2, AppendProperties, LenProperties DEF Call
<1>4. RowOf(e, k, call[e].done[k])' = RowOf(e, k, call'[e].done[k])
  BY <1>1 DEF RowOf, Call
<1>5. CASE k = Len(call[e].done) + 1
  BY <1>3, <1>4, <1>5 DEF RecordStep, Current
<1>6. CASE k # Len(call[e].done) + 1
  <2>1. k \in 1..Len(call[e].done)
    BY <1>3, <1>6
  <2>2. RowOf(e, k, call[e].done[k]) \in audit
    BY <2>1 DEF Pending
  <2>3. RowOf(e, k, call'[e].done[k]) = RowOf(e, k, call[e].done[k])
    BY <1>3, <2>1
  <2>4. audit \subseteq audit'
    BY DEF RecordStep
  <2>5. QED
    BY <1>4, <2>2, <2>3, <2>4
<1>7. QED
  BY <1>5, <1>6

LEMMA AbandonKeepsInductive ==
    ASSUME Inductive, NEW f \in Revisers, AbandonRevision(f)
    PROVE  Inductive'
<1>1. TypeInv /\ TypeInv'
  BY AbandonKeepsTypeInv DEF Inductive, TypeInv
<1>2. /\ \A g \in Revisers \ {f} : revision'[g] = revision[g]
      /\ RevisionIsolated(f)'
  BY <1>1 DEF TypeInv, TypeOK, AbandonRevision, NoRevision, RevisionIsolated
<1>3. KeepsOthersLocks(f)
  BY <1>1 DEF TypeInv, TypeOK, AbandonRevision, Release, KeepsOthersLocks
<1>4. QED
  BY <1>1, <1>2, <1>3, ReviserFrame DEF AbandonRevision

-----------------------------------------------------------------------------
(* The plan row's lock and the audit trail                                 *)

\* An open transaction holds the row of its plan.
HoldsPlan(d) == InTransaction(d) => planLock[call[d].plan] = d

Held ==
    /\ TypeInv
    /\ \A d \in Executors : HoldsPlan(d) /\ Pending(d) \subseteq audit
    /\ RecordsAudited

LEMMA StillHeld ==
    ASSUME Held, TypeInv', NEW d \in Executors, call'[d] = call[d], audit \subseteq audit',
           \A p \in Plans : planLock[p] = d => planLock'[p] = d
    PROVE  HoldsPlan(d)' /\ (Pending(d) \subseteq audit)'
<1>1. /\ call[d].phase # "idle" => call[d].plan \in Plans
      /\ HoldsPlan(d) /\ Pending(d) \subseteq audit
  BY DEF Held, TypeInv, CallsWellFormed
<1>2. HoldsPlan(d)'
  BY <1>1 DEF HoldsPlan, InTransaction
<1>3. (Pending(d) \subseteq audit)'
  BY <1>1 DEF Pending, RowOf
<1>4. QED
  BY <1>2, <1>3

\* Whatever the step of e does to its own call.
LEMMA HeldFrame ==
    ASSUME Held, TypeInv', NEW e \in Executors, audit \subseteq audit', RecordsAudited',
           \A d \in Executors \ {e} : call'[d] = call[d],
           KeepsOthersLocks(e), HoldsPlan(e)', (Pending(e) \subseteq audit)'
    PROVE  Held'
<1>1. ASSUME NEW d \in Executors PROVE HoldsPlan(d)' /\ (Pending(d) \subseteq audit)'
  <2>1. CASE d = e
    BY <2>1
  <2>2. CASE d # e
    BY <2>2, StillHeld DEF KeepsOthersLocks
  <2>3. QED
    BY <2>1, <2>2
<1>2. QED
  BY <1>1 DEF Held

LEMMA HeldExecution ==
    ASSUME Held, TypeInv', NEW e \in Executors,
           (\E p \in Plans, i \in Incidents : ReadSteps(e, p, i)) \/ Progress(e) \/ Crash(e)
    PROVE  Held'
<1>1. /\ TypeInv /\ call[e] \in Call /\ call \in [Executors -> Call]
      /\ planLock \in [Plans -> Executors \cup {Nobody}]
      /\ call[e].phase # "idle" => call[e].plan \in Plans
      /\ call[e].phase \in {"idle", "steps_read", "compiled"} => call[e].done = <<>>
      /\ HoldsPlan(e) /\ Pending(e) \subseteq audit /\ RecordsAudited
  BY DEF Held, TypeInv, TypeOK, CallsWellFormed
<1>2. ASSUME executions' = executions, audit \subseteq audit' PROVE RecordsAudited'
  BY <1>1, <1>2 DEF RecordsAudited
<1>3. CASE (\E p \in Plans, i \in Incidents : ReadSteps(e, p, i)) \/ ReadVersion(e)
  <2>1. /\ call'[e].phase \in {"steps_read", "compiled"} /\ call'[e].done = <<>>
        /\ \A d \in Executors \ {e} : call'[d] = call[d]
        /\ UNCHANGED <<executions, audit, locks>>
    <3>1. ASSUME NEW p \in Plans, NEW i \in Incidents, ReadSteps(e, p, i)
          PROVE  call'[e].phase = "steps_read" /\ call'[e].done = <<>>
      BY <1>1, <3>1 DEF ReadSteps, NoCall
    <3>2. ASSUME ReadVersion(e)
          PROVE  call'[e].phase = "compiled" /\ call'[e].done = <<>>
      BY <1>1, <3>2 DEF ReadVersion, Call
    <3>3. /\ \A d \in Executors \ {e} : call'[d] = call[d]
          /\ UNCHANGED <<executions, audit, locks>>
      BY <1>1, <1>3 DEF ReadSteps, ReadVersion, tables
    <3>4. QED
      BY <1>3, <3>1, <3>2, <3>3
  <2>2. KeepsOthersLocks(e)
    BY <2>1 DEF KeepsOthersLocks, locks
  <2>3. HoldsPlan(e)'
    BY <2>1 DEF HoldsPlan, InTransaction
  <2>4. (Pending(e) \subseteq audit)'
    BY <2>1, EmptySeq DEF Pending
  <2>5. QED
    BY <1>2, <2>1, <2>2, <2>3, <2>4, HeldFrame
<1>4. ASSUME NEW c \in Call, call' = [call EXCEPT ![e] = c],
             c.plan = call[e].plan, c.incident = call[e].incident,
             c.gen = call[e].gen, c.actions = call[e].actions,
             c.version = call[e].version, c.done = call[e].done,
             planLock'[call[e].plan] = e, KeepsOthersLocks(e), UNCHANGED <<executions, audit>>
      PROVE  Held'
  <2>1. call'[e] = c /\ \A d \in Executors \ {e} : call'[d] = call[d]
    BY <1>1, <1>4
  <2>2. HoldsPlan(e)'
    BY <1>4, <2>1 DEF HoldsPlan
  <2>3. (Pending(e) \subseteq audit)'
    BY <1>1, <1>4, <2>1 DEF Pending, RowOf
  <2>4. QED
    BY <1>2, <1>4, <2>1, <2>2, <2>3, HeldFrame
<1>5. CASE Begin(e)
  <2> DEFINE c == [call[e] EXCEPT !.phase = "running"]
  <2>1. /\ c \in Call /\ c.plan = call[e].plan /\ c.incident = call[e].incident
        /\ c.gen = call[e].gen
        /\ c.actions = call[e].actions /\ c.version = call[e].version
        /\ c.done = call[e].done
    BY <1>1 DEF Call, CallPhase
  <2>2. call' = [call EXCEPT ![e] = c] /\ UNCHANGED <<executions, audit>>
    BY <1>5 DEF Begin, tables
  <2>3. planLock'[call[e].plan] = e /\ KeepsOthersLocks(e)
    BY <1>1, <1>5, ConstantsAssumption DEF Begin, KeepsOthersLocks
  <2> HIDE DEF c
  <2>4. QED
    BY <1>4, <2>1, <2>2, <2>3
<1>6. CASE ClaimStep(e) \/ PerformStep(e)
  <2>1. PICK o \in Outcomes \cup {Unsuccessful}, ph \in {"claimed", "performed"} :
            call' = [call EXCEPT ![e] = [call[e] EXCEPT !.phase = ph, !.outcome = o]]
    <3>1. CASE ClaimStep(e)
      <4>1. call' = [call EXCEPT ![e] = [call[e] EXCEPT !.phase = "claimed",
                                                        !.outcome = call[e].outcome]]
        BY <1>1, <3>1 DEF ClaimStep, Call
      <4>2. QED
        BY <1>1, <4>1 DEF Call
    <3>2. CASE PerformStep(e)
      <4>1. PICK o \in Outcomes :
                call' = [call EXCEPT ![e].phase = "performed", ![e].outcome = o]
        BY <3>2 DEF PerformStep
      <4>2. call' = [call EXCEPT ![e] = [call[e] EXCEPT !.phase = "performed", !.outcome = o]]
        BY <1>1, <4>1
      <4>3. QED
        BY <4>2
    <3>3. QED
      BY <1>6, <3>1, <3>2
  <2> DEFINE c == [call[e] EXCEPT !.phase = ph, !.outcome = o]
  <2>2. /\ c \in Call /\ c.plan = call[e].plan /\ c.incident = call[e].incident
        /\ c.gen = call[e].gen
        /\ c.actions = call[e].actions /\ c.version = call[e].version
        /\ c.done = call[e].done
    BY <1>1 DEF Call, CallPhase
  <2>3. call' = [call EXCEPT ![e] = c] /\ UNCHANGED <<executions, audit, planLock>>
    BY <1>6, <2>1 DEF ClaimStep, PerformStep, tables, locks
  <2> HIDE DEF c
  <2>4. planLock'[call[e].plan] = e
    BY <1>1, <1>6, <2>3 DEF ClaimStep, PerformStep, HoldsPlan, InTransaction
  <2>5. KeepsOthersLocks(e)
    BY <1>1, <1>6, ConstantsAssumption
       DEF ClaimStep, PerformStep, locks, KeepsOthersLocks, TypeInv, TypeOK
  <2>6. QED
    BY <1>4, <2>2, <2>3, <2>4, <2>5
<1>7. CASE RecordStep(e)
  <2>1. /\ call'[e].phase = "running" /\ call'[e].plan = call[e].plan
        /\ \A d \in Executors \ {e} : call'[d] = call[d]
    BY <1>1, <1>7 DEF RecordStep, Call
  <2>2. /\ UNCHANGED <<executions, locks>> /\ audit \subseteq audit'
        /\ call[e].phase = "performed"
    BY <1>7 DEF RecordStep, tables
  <2>3. HoldsPlan(e)' /\ KeepsOthersLocks(e)
    BY <1>1, <2>1, <2>2 DEF HoldsPlan, InTransaction, KeepsOthersLocks, locks
  <2>4. QED
    BY <1>1, <1>2, <1>7, <2>1, <2>2, <2>3, RecordIsAudited, HeldFrame
<1>8. CASE RecordFails(e) \/ Finish(e) \/ Crash(e)
  <2>1. /\ Rollback(e) /\ audit' = audit
        /\ executions' \in {executions, executions \cup Pending(e)}
    BY <1>8 DEF RecordFails, Finish, Crash, tables
  <2>2. RecordsAudited'
    BY <1>1, <2>1 DEF RecordsAudited
  <2>3. /\ call'[e] = NoCall /\ \A d \in Executors \ {e} : call'[d] = call[d]
        /\ KeepsOthersLocks(e) /\ Pending(e)' = {}
    BY <1>1, <2>1, RollbackIsLocal
  <2>4. HoldsPlan(e)'
    BY <2>3 DEF HoldsPlan, InTransaction, NoCall
  <2>5. QED
    BY <2>1, <2>2, <2>3, <2>4, HeldFrame
<1>9. QED
  BY <1>3, <1>5, <1>6, <1>7, <1>8 DEF Progress

LEMMA HeldStep == Held /\ [Next]_vars => Held'
<1> SUFFICES ASSUME Held, [Next]_vars PROVE Held'
  OBVIOUS
<1>1. TypeInv /\ TypeInv'
  BY TypeInvStep DEF Held
<1>2. ASSUME UNCHANGED <<call, planLock, executions, audit>> PROVE Held'
  <2>1. RecordsAudited'
    BY <1>2 DEF Held, RecordsAudited
  <2>2. QED
    BY <1>1, <1>2, <2>1, StillHeld DEF Held
<1>3. ASSUME NEW e \in Executors,
             (\E p \in Plans, i \in Incidents : ReadSteps(e, p, i)) \/ Progress(e) \/ Crash(e)
      PROVE  Held'
  BY <1>1, <1>3, HeldExecution
<1>4. ASSUME NEW f \in Revisers,
             (\E i \in Incidents : Draft(f, i)) \/ ProgressRevision(f) \/ CrashRevision(f)
      PROVE  Held'
  BY <1>2, <1>4 DEF ProgressRevision, Draft, IssueDelete, DeleteSteps, DeleteFails, Revise,
     ReviseFails, CrashRevision, AbandonRevision, tables, locks
<1>5. ASSUME NEW e \in Executors, NEW f \in Revisers, BreakDeadlock(e, f) PROVE Held'
  <2>1. CASE AbandonRevision(f)
    BY <1>2, <2>1 DEF AbandonRevision, tables
  <2>2. CASE Rollback(e) /\ UNCHANGED <<tables, audit, revision, calls>>
    <3>1. /\ call'[e] = NoCall /\ \A d \in Executors \ {e} : call'[d] = call[d]
          /\ KeepsOthersLocks(e) /\ Pending(e)' = {}
      BY <1>1, <2>2, RollbackIsLocal
    <3>2. HoldsPlan(e)'
      BY <3>1 DEF HoldsPlan, InTransaction, NoCall
    <3>3. RecordsAudited' /\ audit' = audit
      BY <2>2 DEF Held, RecordsAudited, tables
    <3>4. QED
      BY <1>1, <3>1, <3>2, <3>3, HeldFrame
  <2>3. QED
    BY <1>5, <2>1, <2>2 DEF BreakDeadlock
<1>6. ASSUME NEW p \in Plans, MarkApproved(p) PROVE Held'
  BY <1>2, <1>6 DEF MarkApproved, locks
<1>7. CASE UNCHANGED vars
  BY <1>2, <1>7 DEF vars, tables
<1>8. QED
  BY <1>3, <1>4, <1>5, <1>6, <1>7 DEF Next

LEMMA HeldAlways == Spec => []Held
<1>1. Init => Held
  <2> SUFFICES ASSUME Init PROVE Held
    OBVIOUS
  <2>1. \A d \in Executors : HoldsPlan(d) /\ Pending(d) \subseteq audit
    BY EmptySeq DEF Init, NoCall, HoldsPlan, InTransaction, Pending
  <2>2. QED
    BY <2>1, TypeInvInit DEF Held, Init, RecordsAudited
<1>2. QED
  BY <1>1, HeldStep, PTL DEF Spec

\* Whatever is on record was announced in the audit trail: _log_audit commits the event on
\* its own connection before execute_plan commits the row.
THEOREM RecordsAlwaysAudited == Spec => []RecordsAudited
<1>1. Held => RecordsAudited
  BY DEF Held
<1>2. QED
  BY <1>1, HeldAlways, PTL

\* Only the commits of Finish, Revise and MarkApproved are seen in the tables.
LEMMA VisibleSteps ==
    ASSUME [Next]_vars
    PROVE  \/ UNCHANGED <<plan, rows, executions>>
           \/ \E e \in Executors : Finish(e)
           \/ \E f \in Revisers : Revise(f)
           \/ \E p \in Plans : MarkApproved(p)
<1>1. CASE UNCHANGED vars
  BY <1>1 DEF vars
<1>2. ASSUME NEW e \in Executors,
             (\E p \in Plans, i \in Incidents : ReadSteps(e, p, i)) \/ Progress(e) \/ Crash(e)
      PROVE  Finish(e) \/ UNCHANGED <<plan, rows, executions>>
  BY <1>2 DEF Progress, ReadSteps, ReadVersion, Begin, ClaimStep, PerformStep, RecordStep,
              RecordFails, Crash, tables
<1>3. ASSUME NEW f \in Revisers,
             (\E i \in Incidents : Draft(f, i)) \/ ProgressRevision(f) \/ CrashRevision(f)
      PROVE  Revise(f) \/ UNCHANGED <<plan, rows, executions>>
  BY <1>3 DEF ProgressRevision, Draft, IssueDelete, DeleteSteps, DeleteFails, ReviseFails,
              CrashRevision, AbandonRevision, tables
<1>4. ASSUME NEW e \in Executors, NEW f \in Revisers, BreakDeadlock(e, f)
      PROVE  UNCHANGED <<plan, rows, executions>>
  BY <1>4 DEF BreakDeadlock, AbandonRevision, tables
<1>5. QED
  BY <1>1, <1>2, <1>3, <1>4 DEF Next

\* No step is pulled away under the executor that runs its plan: execute_plan holds the
\* action_plan row until it ends, and triage_feedback updates that row before it commits.
THEOREM NeverReplacedUnderRun == Spec => NoReplacementUnderRun
<1>1. ASSUME Held, [Next]_vars, NEW p \in Plans, rows'[p].gen # rows[p].gen
      PROVE  ~\E e \in Executors : InTransaction(e) /\ call[e].plan = p
  <2>1. rows \in [Plans -> StepRows]
    BY <1>1 DEF Held, TypeInv, TypeOK
  <2>2. ASSUME NEW e \in Executors, Finish(e) PROVE FALSE
    <3>1. call[e].plan \in Plans
      BY <1>1, <2>2 DEF Held, TypeInv, CallsWellFormed, Finish
    <3>2. \A q \in Plans : rows'[q].gen = rows[q].gen
      BY <2>1, <2>2, <3>1 DEF Finish, StepRows
    <3>3. QED
      BY <1>1, <3>2
  <2>3. PICK f \in Revisers : Revise(f)
    BY <1>1, <2>2, VisibleSteps DEF MarkApproved
  <2>4. p = revision[f].plan /\ planLock[p] = Nobody
    BY <1>1, <2>1, <2>3 DEF Revise
  <2>5. QED
    BY <1>1, <2>4, NobodyIsNoThread DEF Held, HoldsPlan
<1>2. Held /\ [Next]_vars =>
          [\A p \in Plans : rows'[p].gen # rows[p].gen =>
              ~\E e \in Executors : InTransaction(e) /\ call[e].plan = p]_vars
  BY <1>1
<1>3. QED
  BY <1>2, HeldAlways, PTL DEF Spec, NoReplacementUnderRun


-----------------------------------------------------------------------------
(* The inductive invariant                                                 *)

\* Of two records of one plan under different versions, one has a version that was
\* raised over its rows.
LEMMA OncePerVersion ==
    ASSUME TypeOK', RecordsCurrent',
           \A x, y \in executions' :
               /\ x.plan = y.plan /\ x.gen = y.gen /\ x.seq = y.seq
               /\ x.incident = y.incident /\ x.version = y.version
               => x = y
    PROVE  AtMostOnce'
<1> SUFFICES ASSUME NEW x \in executions', NEW y \in executions',
                    x.plan = y.plan, x.version # y.version
             PROVE  plan'[x.plan].version # rows'[x.plan].gen
  BY DEF AtMostOnce, Overtaken
<1>1. /\ x.version \in Nat /\ y.version \in Nat /\ x.plan \in Plans
      /\ plan' \in [Plans -> [status : PlanStatus, version : Nat]]
      /\ rows' \in [Plans -> StepRows]
  BY DEF TypeOK, Execution
<1>2. /\ rows'[x.plan].gen \in Nat /\ plan'[x.plan].version \in Nat
      /\ rows'[x.plan].gen <= x.version /\ x.version <= plan'[x.plan].version
      /\ rows'[x.plan].gen <= y.version /\ y.version <= plan'[x.plan].version
  BY <1>1 DEF RecordsCurrent, StepRows
<1>3. \A g, v, a, b \in Nat : g <= a /\ a <= v /\ g <= b /\ b <= v /\ a # b => v # g
  OBVIOUS
<1>4. QED
  BY <1>1, <1>2, <1>3

\* If the INSERT of a step's row meets no constraint, the rows that were read
\* are still there and nothing of the plan is on record under the call's incident
\* and version: a record of the same step would have the same key.
LEMMA NoConflictNoRecord ==
    ASSUME Inductive, NEW e \in Executors, call[e].phase = "performed",
           ~Conflicts(e, RowOf(e, Current(e), call[e].outcome))
    PROVE  StepsExist(e) /\ \A x \in executions : ~SameRun(e, x)
<1> DEFINE p == call[e].plan
           k == Current(e)
<1>1. p \in Plans /\ call[e] \in Call
  BY DEF Inductive, TypeOK, CallsWellFormed
<1>2. StepsExist(e)
  BY DEF Conflicts
<1>3. call[e].actions = rows[p].actions
  BY <1>2 DEF Inductive, CallsAgree, CallAgrees, StepsExist
<1>4. k \in DOMAIN rows[p].actions
  <2>1. Len(call[e].done) < Len(call[e].actions)
    BY DEF Inductive, CallsWellFormed
  <2>2. /\ Len(call[e].done) \in Nat
        /\ Len(call[e].actions) \in Nat
        /\ DOMAIN call[e].actions = 1..Len(call[e].actions)
    BY <1>1, LenProperties DEF Call
  <2>3. QED
    BY <1>3, <2>1, <2>2 DEF Current
<1>5. ASSUME NEW x \in executions, SameRun(e, x) PROVE FALSE
  <2>1. PICK y \in RecordedWith(x) : y.seq = k
    BY <1>4, <1>5 DEF Inductive, RecordsComplete, SameRun
  <2>2. /\ y \in executions /\ y.plan = p
        /\ y.incident = call[e].incident /\ y.version = call[e].version
    BY <1>5, <2>1 DEF RecordedWith, RecordsOf, SameRun
  <2>3. y.action = rows[p].actions[k]
    BY <2>1, <2>2 DEF Inductive, RecordsCurrent
  <2>4. Key(y) = Key(RowOf(e, k, call[e].outcome))
    BY <1>3, <2>1, <2>2, <2>3 DEF Key, RowOf
  <2>5. QED
    BY <2>2, <2>4 DEF Conflicts
<1>6. QED
  BY <1>2, <1>5

LEMMA InductiveExecution ==
    ASSUME Inductive, TypeInv', NEW e \in Executors,
           \/ \E p \in Plans, i \in Incidents : ReadSteps(e, p, i)
           \/ ReadVersion(e)
           \/ Begin(e)
           \/ ClaimStep(e)
           \/ PerformStep(e)
           \/ RecordStep(e)
           \/ RecordFails(e)
           \/ Crash(e)
    PROVE  Inductive'
<1>0. /\ TypeInv
      /\ call \in [Executors -> Call]
      /\ rows \in [Plans -> StepRows]
      /\ plan \in [Plans -> [status : PlanStatus, version : Nat]]
      /\ call[e].phase # "idle" => call[e].plan \in Plans
      /\ call[e].phase \in {"idle", "steps_read", "compiled"} => call[e].done = <<>>
      /\ CallAgrees(e) /\ RunIsolated(e) /\ Pending(e) \subseteq audit
      /\ VersionsAgree
  BY DEF Inductive, TypeInv, TypeOK, CallsWellFormed, CallsAgree, RunsIsolated, PendingAudited
<1>1. ASSUME NEW p \in Plans, NEW i \in Incidents, ReadSteps(e, p, i) PROVE Inductive'
  <2> DEFINE c == [NoCall EXCEPT !.phase = "steps_read", !.plan = p, !.incident = i,
                                 !.gen = rows[p].gen, !.actions = rows[p].actions]
  <2>1. /\ c.phase = "steps_read" /\ c.plan = p /\ c.gen = rows[p].gen
        /\ c.actions = rows[p].actions /\ c.done = <<>>
    BY DEF NoCall
  <2> HIDE DEF c
  <2>2. /\ call'[e] = c
        /\ \A d \in Executors \ {e} : call'[d] = call[d]
        /\ UNCHANGED <<tables, locks, audit, revision>>
    BY <1>0, <1>1 DEF ReadSteps, c
  <2>3. CallAgrees(e)'
    BY <1>0, <2>1, <2>2 DEF CallAgrees, tables, StepRows
  <2>4. RunIsolated(e)' /\ (Pending(e) \subseteq audit)'
    BY <2>1, <2>2, EmptySeq DEF RunIsolated, InTransaction, Pending
  <2>5. KeepsOthersLocks(e)
    BY <2>2 DEF KeepsOthersLocks, locks
  <2>6. QED
    BY <2>2, <2>3, <2>4, <2>5, ExecutorFrame
<1>2. CASE ReadVersion(e)
  <2>1. /\ call'[e].phase = "compiled" /\ call'[e].plan = call[e].plan
        /\ call'[e].gen = call[e].gen /\ call'[e].actions = call[e].actions
        /\ call'[e].version = plan[call[e].plan].version /\ call'[e].done = <<>>
        /\ call[e].plan \in Plans
        /\ \A d \in Executors \ {e} : call'[d] = call[d]
    BY <1>0, <1>2 DEF ReadVersion, Call
  <2>2. CallAgrees(e)'
    <3>1. /\ call[e].gen \in Nat /\ rows[call[e].plan].gen \in Nat
          /\ plan[call[e].plan].version \in Nat
      BY <1>0, <2>1 DEF Call, StepRows
    <3>2. /\ call[e].gen <= rows[call[e].plan].gen
          /\ call[e].gen = rows[call[e].plan].gen =>
                call[e].actions = rows[call[e].plan].actions
          /\ rows[call[e].plan].gen <= plan[call[e].plan].version
      BY <1>0, <1>2, <2>1 DEF ReadVersion, CallAgrees, VersionsAgree
    <3>3. call[e].gen <= plan[call[e].plan].version
      BY <3>1, <3>2
    <3>4. UNCHANGED <<rows, plan>>
      BY <1>2 DEF ReadVersion, tables
    <3>5. QED
      BY <2>1, <3>1, <3>2, <3>3, <3>4 DEF CallAgrees
  <2>3. RunIsolated(e)' /\ (Pending(e) \subseteq audit)'
    <3>1. RunIsolated(e)'
      BY <2>1 DEF RunIsolated, InTransaction
    <3>2. (Pending(e) \subseteq audit)'
      BY <2>1, EmptySeq DEF Pending
    <3>3. QED
      BY <3>1, <3>2
  <2>4. KeepsOthersLocks(e)
    BY <1>2 DEF ReadVersion, KeepsOthersLocks, locks
  <2>5. QED
    BY <1>2, <2>1, <2>2, <2>3, <2>4, ExecutorFrame DEF ReadVersion
<1>3. CASE Begin(e)
  <2>1. /\ call'[e] = [call[e] EXCEPT !.phase = "running"]
        /\ call[e].plan \in Plans
        /\ \A d \in Executors \ {e} : call'[d] = call[d]
    BY <1>0, <1>3 DEF Begin
  <2>2. call'[e].done = <<>> /\ call'[e].phase = "running" /\ call'[e].plan = call[e].plan
    BY <1>0, <1>3, <2>1 DEF Begin, Call
  <2>3. CallAgrees(e)'
    BY <1>0, <1>3, <2>1 DEF Begin, CallAgrees, tables, Call
  <2>4. planLock'[call[e].plan] = e /\ KeepsOthersLocks(e)
    BY <1>0, <1>3, <2>1, ConstantsAssumption DEF Begin, TypeInv, TypeOK, KeepsOthersLocks
  <2>5. RunIsolated(e)' /\ (Pending(e) \subseteq audit)'
    BY <2>2, <2>4, EmptySeq DEF RunIsolated, HasClaimed, Pending
  <2>6. QED
    BY <1>3, <2>1, <2>3, <2>4, <2>5, ExecutorFrame DEF Begin
<1>4. CASE ClaimStep(e)
  <2>1. /\ call'[e] = [call[e] EXCEPT !.phase = "claimed"]
        /\ call[e].plan \in Plans
        /\ \A d \in Executors \ {e} : call'[d] = call[d]
    BY <1>0, <1>4 DEF ClaimStep
  <2>2. CallAgrees(e)'
    BY <1>0, <1>4, <2>1 DEF ClaimStep, CallAgrees, tables, Call
  <2>3. KeepsOthersLocks(e)
    BY <1>0, <1>4, <2>1, ConstantsAssumption DEF ClaimStep, TypeInv, TypeOK, KeepsOthersLocks
  <2>4. StepsExist(e)' => stepLock'[call[e].plan] = e
    BY <1>0, <1>4, <2>1 DEF ClaimStep, StepsExist, tables, Call, TypeInv, TypeOK
  <2>5. RunIsolated(e)'
    BY <1>0, <1>4, <2>1, <2>4
       DEF ClaimStep, RunIsolated, InTransaction, StepsExist, SameRun, tables, Call
  <2>6. (Pending(e) \subseteq audit)'
    BY <1>0, <1>4, <2>1 DEF ClaimStep, Pending, RowOf, Call
  <2>7. QED
    BY <1>4, <2>1, <2>2, <2>3, <2>5, <2>6, ExecutorFrame DEF ClaimStep
<1>5. CASE PerformStep(e)
  <2>1. PICK o \in Outcomes : call' = [call EXCEPT ![e].phase = "performed", ![e].outcome = o]
    BY <1>5 DEF PerformStep
  <2>2. /\ call'[e].phase = "performed" /\ call'[e].plan = call[e].plan
        /\ call'[e].incident = call[e].incident
        /\ call'[e].gen = call[e].gen /\ call'[e].actions = call[e].actions
        /\ call'[e].version = call[e].version /\ call'[e].done = call[e].done
        /\ call[e].phase = "claimed"
        /\ \A d \in Executors \ {e} : call'[d] = call[d]
        /\ UNCHANGED <<tables, locks, audit, revision>>
    <3>1. /\ call'[e] = [call[e] EXCEPT !.phase = "performed", !.outcome = o]
          /\ \A d \in Executors \ {e} : call'[d] = call[d]
      BY <1>0, <2>1
    <3>2. call[e].phase = "claimed" /\ UNCHANGED <<tables, locks, audit, revision>>
      BY <1>5 DEF PerformStep
    <3>3. QED
      BY <1>0, <3>1, <3>2 DEF Call
  <2>3. CallAgrees(e)'
    BY <1>0, <2>2 DEF CallAgrees, tables
  <2>4. KeepsOthersLocks(e)
    BY <2>2 DEF KeepsOthersLocks, locks
  <2>5. RunIsolated(e)'
    BY <1>0, <2>2 DEF RunIsolated, InTransaction, HasClaimed, StepsExist, SameRun, tables, locks
  <2>6. (Pending(e) \subseteq audit)'
    BY <1>0, <2>2 DEF Pending, RowOf
  <2>7. QED
    BY <2>2, <2>3, <2>4, <2>5, <2>6, ExecutorFrame
<1>6. CASE RecordStep(e)
  <2> DEFINE x == RowOf(e, Current(e), call[e].outcome)
  <2>1. /\ call'[e] = [call[e] EXCEPT !.phase = "running",
                                     !.done = Append(@, call[e].outcome)]
        /\ call[e].plan \in Plans
        /\ \A d \in Executors \ {e} : call'[d] = call[d]
    BY <1>0, <1>6 DEF RecordStep
  <2>2. StepsExist(e) /\ \A y \in executions : ~SameRun(e, y)
    BY <1>6, NoConflictNoRecord DEF RecordStep
  <2>3. CallAgrees(e)'
    BY <1>0, <1>6, <2>1 DEF RecordStep, CallAgrees, tables, Call
  <2>4. KeepsOthersLocks(e)
    BY <1>6 DEF RecordStep, KeepsOthersLocks, locks
  <2>5. RunIsolated(e)'
    BY <1>0, <1>6, <2>1, <2>2
       DEF RecordStep, RunIsolated, InTransaction, HasClaimed, StepsExist, SameRun, tables,
           locks, Call
  <2>6. (Pending(e) \subseteq audit)'
    BY <1>0, <1>6, RecordIsAudited
  <2>7. QED
    BY <1>6, <2>1, <2>3, <2>4, <2>5, <2>6, ExecutorFrame DEF RecordStep
<1>7. CASE RecordFails(e) \/ Crash(e)
  <2>1. Rollback(e) /\ UNCHANGED <<tables, audit, revision>>
    BY <1>7 DEF RecordFails, Crash
  <2>2. QED
    BY <1>0, <2>1, RollbackIsLocal, ExecutorFrame
<1>8. QED
  BY <1>1, <1>2, <1>3, <1>4, <1>5, <1>6, <1>7

\* A call that commits has recorded all the steps it read.  If it read any, or if
\* those it read are still there, it has run the present steps of its plan, with
\* nothing on record yet under its incident and version.
LEMMA FinishIsComplete ==
    ASSUME Inductive, NEW e \in Executors, Finish(e)
    PROVE  /\ call[e].plan \in Plans /\ call[e].incident \in Incidents
           /\ DOMAIN call[e].actions = 1..Len(call[e].done)
           /\ planLock[call[e].plan] = e
           /\ call[e].done # <<>> => StepsExist(e) /\ stepLock[call[e].plan] = e
           /\ call[e].done = <<>> => Pending(e) = {} /\ call[e].actions = <<>>
           /\ StepsExist(e) =>
                 /\ call[e].actions = rows[call[e].plan].actions
                 /\ call[e].gen <= call[e].version
                 /\ call[e].version <= plan[call[e].plan].version
                 /\ \A x \in executions : ~SameRun(e, x)
<1> DEFINE p == call[e].plan
<1>1. /\ call[e] \in Call
      /\ p \in Plans /\ call[e].incident \in Incidents
      /\ CallAgrees(e) /\ RunIsolated(e)
      /\ Len(call[e].done) <= Len(call[e].actions)
      /\ call[e].phase = "running" /\ Len(call[e].done) + 1 > Len(call[e].actions)
  BY DEF Inductive, TypeOK, CallsWellFormed, CallsAgree, RunsIsolated, Finish, Current
<1>2. /\ Len(call[e].done) \in Nat
      /\ Len(call[e].actions) \in Nat
      /\ call[e].actions \in Seq(Actions)
      /\ DOMAIN call[e].actions = 1..Len(call[e].actions)
  BY <1>1, LenProperties DEF Call
<1>3. Len(call[e].done) = Len(call[e].actions)
  BY <1>1, <1>2
<1>4. planLock[p] = e /\ (call[e].done # <<>> => StepsExist(e) /\ stepLock[p] = e)
  BY <1>1 DEF RunIsolated, InTransaction, HasClaimed
<1>5. ASSUME call[e].done = <<>> PROVE Pending(e) = {} /\ call[e].actions = <<>>
  <2>1. Len(call[e].done) = 0
    BY <1>5, EmptySeq
  <2>2. Pending(e) = {}
    BY <2>1 DEF Pending
  <2>3. call[e].actions = <<>>
    BY <1>2, <1>3, <2>1, EmptySeq
  <2>4. QED
    BY <2>2, <2>3
<1>6. ASSUME StepsExist(e)
      PROVE  /\ call[e].actions = rows[p].actions
             /\ call[e].gen <= call[e].version
             /\ call[e].version <= plan[p].version
             /\ \A x \in executions : ~SameRun(e, x)
  <2>1. /\ call[e].actions = rows[p].actions
        /\ call[e].gen <= call[e].version
        /\ call[e].version <= plan[p].version
    BY <1>1, <1>6 DEF CallAgrees, StepsExist
  <2>2. CASE call[e].done # <<>>
    BY <1>1, <2>1, <2>2 DEF RunIsolated, InTransaction
  <2>3. CASE call[e].done = <<>>
    <3>1. DOMAIN rows[p].actions = {}
      BY <1>5, <2>1, <2>3
    <3>2. \A x \in executions : x.plan # p
      BY <3>1 DEF Inductive, RecordsCurrent
    <3>3. QED
      BY <2>1, <3>2 DEF SameRun
  <2>4. QED
    BY <2>2, <2>3
<1>7. QED
  BY <1>1, <1>2, <1>3, <1>4, <1>5, <1>6

\* What a call is about to record is about the present steps of its plan.
LEMMA PendingCurrent ==
    ASSUME Inductive, NEW e \in Executors, Finish(e), NEW x \in Pending(e)
    PROVE  /\ StepsExist(e) /\ SameRun(e, x)
           /\ x.gen = rows[call[e].plan].gen
           /\ x.seq \in 1..Len(call[e].done)
           /\ x.seq \in DOMAIN rows[call[e].plan].actions
           /\ x.action = rows[call[e].plan].actions[x.seq]
           /\ x.outcome = call[e].done[x.seq]
<1>1. StepsExist(e)
  BY FinishIsComplete
<1>2. QED
  BY <1>1, FinishIsComplete DEF Pending, RowOf, StepsExist, SameRun

\* What the commit of Finish does to the tables.
LEMMA FinishTables ==
    ASSUME Inductive, NEW e \in Executors, Finish(e)
    PROVE  /\ \A q \in Plans : /\ rows'[q].gen = rows[q].gen
                               /\ rows'[q].actions = rows[q].actions
                               /\ plan'[q].version = plan[q].version
                               /\ q # call[e].plan => plan'[q] = plan[q]
           /\ plan'[call[e].plan].status = "EXECUTED" <=> AllVerified(e)
           /\ executions' = executions \cup Pending(e)
           /\ audit' = audit
           /\ revision' = revision
<1>1. /\ call[e].plan \in Plans
      /\ rows \in [Plans -> StepRows]
      /\ plan \in [Plans -> [status : PlanStatus, version : Nat]]
  BY FinishIsComplete DEF Inductive, TypeOK
<1>2. \A q \in Plans : rows'[q].gen = rows[q].gen /\ rows'[q].actions = rows[q].actions
  BY <1>1 DEF Finish, StepRows
<1>3. /\ \A q \in Plans : /\ plan'[q].version = plan[q].version
                          /\ q # call[e].plan => plan'[q] = plan[q]
      /\ plan'[call[e].plan].status = "EXECUTED" <=> AllVerified(e)
  BY <1>1 DEF Finish
<1>4. QED
  BY <1>2, <1>3 DEF Finish

LEMMA InductiveFinish ==
    ASSUME Inductive, TypeInv', NEW e \in Executors, Finish(e)
    PROVE  Inductive'
<1> DEFINE p == call[e].plan
<1>0. /\ TypeInv
      /\ \A x \in executions : x \in Execution /\ x.plan \in Plans
      /\ \A d \in Executors : call[d].phase # "idle" => call[d].plan \in Plans
      /\ \A g \in Revisers : revision[g].phase # "idle" => revision[g].plan \in Plans
      /\ p \in Plans
  BY FinishIsComplete
     DEF Inductive, TypeInv, TypeOK, CallsWellFormed, RevisionsWellFormed, Execution
<1>1. \A x \in Pending(e) : x.plan = p /\ x.gen = rows[p].gen
  BY PendingCurrent DEF SameRun
<1>2. \A x \in executions, y \in Pending(e) : ~(x.plan = y.plan /\ x.incident = y.incident
                                                 /\ x.version = y.version)
  BY FinishIsComplete, PendingCurrent DEF SameRun
<1>3. VersionsAgree'
  BY FinishTables DEF Inductive, VersionsAgree
<1>4. RecordsCurrent'
  <2> SUFFICES ASSUME NEW x \in executions \cup Pending(e)
               PROVE  /\ x.gen = rows[x.plan].gen
                      /\ x.gen <= x.version /\ x.version <= plan[x.plan].version
                      /\ x.seq \in DOMAIN rows[x.plan].actions
                      /\ x.action = rows[x.plan].actions[x.seq]
                      /\ x.plan \in Plans
    BY FinishTables DEF RecordsCurrent
  <2>1. CASE x \in executions
    BY <1>0, <2>1 DEF Inductive, RecordsCurrent
  <2>2. CASE x \in Pending(e)
    BY <1>0, <2>2, FinishIsComplete, PendingCurrent DEF SameRun, StepsExist
  <2>3. QED
    BY <2>1, <2>2
<1>5. RecordsComplete'
  <2> SUFFICES ASSUME NEW x \in executions \cup Pending(e),
                      NEW k \in DOMAIN rows'[x.plan].actions
               PROVE  \E y \in executions \cup Pending(e) :
                          /\ y.plan = x.plan /\ y.incident = x.incident
                          /\ y.version = x.version /\ y.seq = k
    BY FinishTables DEF RecordsComplete, RecordedWith, RecordsOf
  <2>1. x.plan \in Plans
    BY <1>0, <1>1
  <2>2. k \in DOMAIN rows[x.plan].actions
    BY <2>1, FinishTables
  <2>3. CASE x \in executions
    BY <2>2, <2>3 DEF Inductive, RecordsComplete, RecordedWith, RecordsOf
  <2>4. CASE x \in Pending(e)
    <3>1. k \in 1..Len(call[e].done) /\ SameRun(e, x)
      BY <1>1, <2>2, <2>4, FinishIsComplete, PendingCurrent
    <3>2. RowOf(e, k, call[e].done[k]) \in Pending(e)
      BY <3>1 DEF Pending
    <3>3. QED
      BY <3>1, <3>2 DEF RowOf, SameRun
  <2>5. QED
    BY <2>3, <2>4
<1>6. AtMostOnce'
  <2> SUFFICES ASSUME NEW x \in executions \cup Pending(e), NEW y \in executions \cup Pending(e),
                      x.plan = y.plan, x.gen = y.gen, x.seq = y.seq,
                      x.incident = y.incident, x.version = y.version
               PROVE  x = y
    BY <1>4, FinishTables, OncePerVersion DEF TypeInv
  <2>1. CASE x \in executions /\ y \in executions
    BY <2>1 DEF Inductive, AtMostOnce
  <2>2. CASE x \in Pending(e) /\ y \in Pending(e)
    BY <2>2 DEF Pending, RowOf
  <2>3. QED
    BY <1>2, <2>1, <2>2
<1>8. RecordsAudited'
  BY FinishTables DEF Inductive, RecordsAudited, PendingAudited
<1>9. Rollback(e)
  BY DEF Finish
<1>10. ASSUME NEW d \in Executors
       PROVE  CallAgrees(d)' /\ RunIsolated(d)' /\ (Pending(d) \subseteq audit)'
  <2>1. CASE d = e
    BY <1>0, <1>9, <2>1, RollbackIsLocal
  <2>2. CASE d # e
    <3>1. /\ call'[d] = call[d]
          /\ \A q \in Plans : /\ planLock[q] = d => planLock'[q] = d
                              /\ stepLock[q] = d => stepLock'[q] = d
      BY <1>0, <1>9, <2>2, RollbackIsLocal DEF KeepsOthersLocks
    <3>2. CallAgrees(d) /\ RunIsolated(d) /\ Pending(d) \subseteq audit
      BY DEF Inductive, CallsAgree, RunsIsolated, PendingAudited
    <3>3. CallAgrees(d)'
      BY <1>0, <3>1, <3>2, FinishTables DEF CallAgrees
    <3>4. InTransaction(d) => call[d].plan # p
      BY <2>2, <3>2, FinishIsComplete DEF RunIsolated
    <3>5. RunIsolated(d)'
      BY <1>0, <1>1, <3>1, <3>2, <3>4, FinishTables
         DEF RunIsolated, InTransaction, HasClaimed, StepsExist, SameRun
    <3>6. (Pending(d) \subseteq audit)'
      BY <3>1, <3>2, FinishTables DEF Pending, RowOf
    <3>7. QED
      BY <3>3, <3>5, <3>6
  <2>3. QED
    BY <2>1, <2>2
<1>11. ASSUME NEW g \in Revisers PROVE RevisionIsolated(g)'
  <2>1. /\ revision'[g] = revision[g]
        /\ \A q \in Plans : stepLock[q] = g => stepLock'[q] = g
    BY <1>0, <1>9, RollbackIsLocal, FinishTables, NobodyIsNoThread DEF KeepsOthersLocks
  <2>2. RevisionIsolated(g)
    BY DEF Inductive, RevisionsIsolated
  <2>3. \/ Pending(e) = {}
        \/ revision[g].phase = "deleted" /\ SnapshotHolds(g) => revision[g].plan # p
    BY <2>2, FinishIsComplete, NobodyIsNoThread DEF RevisionIsolated
  <2>4. QED
    BY <1>0, <1>1, <2>1, <2>2, <2>3, FinishTables
       DEF RevisionIsolated, SnapshotHolds, Referenced
<1>12. QED
  BY <1>3, <1>4, <1>5, <1>6, <1>8, <1>10, <1>11
     DEF Inductive, TypeInv, CallsAgree, RunsIsolated, RevisionsIsolated, PendingAudited

LEMMA InductiveDeletion ==
    ASSUME Inductive, TypeInv', NEW f \in Revisers,
           \/ \E i \in Incidents : Draft(f, i)
           \/ IssueDelete(f)
           \/ DeleteSteps(f)
    PROVE  Inductive'
<1>0. /\ revision \in [Revisers -> Revision]
      /\ stepLock \in [Plans -> Executors \cup Revisers \cup {Nobody}]
      /\ rows \in [Plans -> StepRows]
      /\ revision[f].phase # "idle" => revision[f].plan \in Plans
      /\ RevisionIsolated(f)
  BY DEF Inductive, TypeOK, RevisionsWellFormed, RevisionsIsolated
<1>1. ASSUME NEW i \in Incidents, Draft(f, i) PROVE Inductive'
  <2>1. PICK actions \in Contents :
            revision' = [revision EXCEPT ![f] = [phase |-> "drafted", plan |-> LatestPlan[i],
                                                 gen |-> 0, actions |-> actions]]
    BY <1>1 DEF Draft
  <2>2. LatestPlan[i] \in Plans
    BY <1>1, ConstantsAssumption DEF Draft
  <2>3. /\ \A g \in Revisers \ {f} : revision'[g] = revision[g]
        /\ revision'[f].phase = "drafted" /\ revision'[f].plan = LatestPlan[i]
        /\ revision'[f].gen = 0 /\ revision'[f].actions = actions
        /\ UNCHANGED <<tables, locks, call, audit>>
    BY <1>0, <1>1, <2>1 DEF Draft
  <2>4. RevisionIsolated(f)'
    BY <1>0, <2>2, <2>3 DEF RevisionIsolated, tables, StepRows
  <2>5. KeepsOthersLocks(f)
    BY <2>3 DEF KeepsOthersLocks, locks
  <2>6. QED
    BY <2>3, <2>4, <2>5, ReviserFrame
<1>2. CASE IssueDelete(f)
  <2>1. /\ \A g \in Revisers \ {f} : revision'[g] = revision[g]
        /\ revision'[f].phase = "deleting" /\ revision'[f].plan = revision[f].plan
        /\ revision'[f].gen = rows[revision[f].plan].gen
        /\ revision'[f].actions = revision[f].actions
        /\ revision[f].phase = "drafted"
    BY <1>0, <1>2 DEF IssueDelete, Revision
  <2>2. RevisionIsolated(f)'
    BY <1>0, <1>2, <2>1 DEF IssueDelete, RevisionIsolated, tables, StepRows
  <2>3. KeepsOthersLocks(f)
    BY <1>2 DEF IssueDelete, KeepsOthersLocks, locks
  <2>4. QED
    BY <1>2, <2>1, <2>2, <2>3, ReviserFrame DEF IssueDelete
<1>3. CASE DeleteSteps(f)
  <2>1. /\ \A g \in Revisers \ {f} : revision'[g] = revision[g]
        /\ revision'[f].plan = revision[f].plan
        /\ revision'[f].gen = revision[f].gen
        /\ revision'[f].actions = revision[f].actions
        /\ revision[f].phase = "deleting" /\ revision[f].plan \in Plans
        /\ UNCHANGED <<tables, planLock, call, audit>>
    BY <1>0, <1>3 DEF DeleteSteps, Revision
  <2>2. SnapshotHolds(f) => /\ stepLock[revision[f].plan] = Nobody
                            /\ ~Referenced(f)
                            /\ stepLock' = [stepLock EXCEPT ![revision[f].plan] = f]
    BY <1>3 DEF DeleteSteps
  <2>3. ~SnapshotHolds(f) => stepLock' = stepLock
    BY <1>3 DEF DeleteSteps
  <2>4. KeepsOthersLocks(f)
    BY <1>0, <2>1, <2>2, <2>3, ConstantsAssumption DEF KeepsOthersLocks
  <2>5. RevisionIsolated(f)'
    <3>1. SnapshotHolds(f)' <=> SnapshotHolds(f)
      BY <2>1 DEF SnapshotHolds, tables
    <3>2. Referenced(f)' <=> Referenced(f)
      BY <2>1 DEF Referenced, tables
    <3>3. QED
      BY <1>0, <2>1, <2>2, <3>1, <3>2 DEF RevisionIsolated, tables
  <2>6. QED
    BY <2>1, <2>4, <2>5, ReviserFrame
<1>4. QED
  BY <1>1, <1>2, <1>3

\* The rows of the plan are those of f's snapshot, or there are none.
Replaces(f) ==
    LET r == rows[revision[f].plan] IN r.gen = revision[f].gen \/ r.actions = <<>>

\* A revision commits while no transaction runs the plan.  It replaces rows of
\* which nothing is on record; or it has no steps and leaves the rows, which
\* another revision has brought, as they are.
LEMMA ReviseReplaces ==
    ASSUME Inductive, NEW f \in Revisers, Revise(f)
    PROVE  /\ revision[f].plan \in Plans
           /\ \A e \in Executors : InTransaction(e) => call[e].plan # revision[f].plan
           /\ Replaces(f) =>
                 /\ \A x \in executions : x.plan # revision[f].plan
                 /\ rows' = [rows EXCEPT ![revision[f].plan] =
                                NewRows(rows[revision[f].plan].gen + 1, revision[f].actions)]
           /\ ~Replaces(f) =>
                 /\ revision[f].actions = <<>>
                 /\ rows[revision[f].plan].actions # <<>>
                 /\ rows' = rows
<1> DEFINE p == revision[f].plan
<1>1. /\ p \in Plans
      /\ RevisionIsolated(f)
      /\ revision[f].phase = "deleted" /\ planLock[p] = Nobody /\ ~RowsCollide(f)
  BY DEF Inductive, RevisionsWellFormed, RevisionsIsolated, Revise
<1>2. \A e \in Executors : InTransaction(e) => call[e].plan # p
  BY <1>1, NobodyIsNoThread DEF Inductive, RunsIsolated, RunIsolated
<1>3. ASSUME Replaces(f)
      PROVE  /\ \A x \in executions : x.plan # p
             /\ rows' = [rows EXCEPT ![p] = NewRows(rows[p].gen + 1, revision[f].actions)]
  <2>1. CASE rows[p].actions = <<>>
    <3>1. DOMAIN rows[p].actions = {}
      BY <2>1
    <3>2. \A x \in executions : x.plan # p
      BY <3>1 DEF Inductive, RecordsCurrent
    <3>3. QED
      BY <2>1, <3>2 DEF Revise
  <2>2. CASE rows[p].actions # <<>>
    <3>1. SnapshotHolds(f)
      BY <1>3, <2>2 DEF Replaces, SnapshotHolds
    <3>2. ~Referenced(f)
      BY <1>1, <3>1 DEF RevisionIsolated
    <3>3. \A x \in executions : x.plan # p
      BY <3>1, <3>2 DEF Inductive, RecordsCurrent, SnapshotHolds, Referenced
    <3>4. QED
      BY <3>1, <3>3 DEF Revise, SnapshotHolds
  <2>3. QED
    BY <2>1, <2>2
<1>4. ASSUME ~Replaces(f)
      PROVE  revision[f].actions = <<>> /\ rows[p].actions # <<>> /\ rows' = rows
  BY <1>1, <1>4 DEF Replaces, RowsCollide, Revise
<1>5. QED
  BY <1>1, <1>2, <1>3, <1>4

LEMMA ReviseTables ==
    ASSUME Inductive, NEW f \in Revisers, Revise(f)
    PROVE  LET p == revision[f].plan IN
           /\ \A q \in Plans \ {p} : rows'[q] = rows[q] /\ plan'[q] = plan[q]
           /\ Replaces(f) => /\ rows'[p].gen = rows[p].gen + 1
                             /\ rows'[p].actions = revision[f].actions
           /\ plan'[p].version = plan[p].version + 1
           /\ plan'[p].status = "PENDING_APPROVAL"
           /\ rows[p].gen \in Nat /\ plan[p].version \in Nat
           /\ UNCHANGED <<executions, audit, planLock, call>>
           /\ revision' = [revision EXCEPT ![f] = NoRevision]
           /\ stepLock' = Release(stepLock, f)
<1> DEFINE p == revision[f].plan
<1>1. /\ p \in Plans
      /\ rows \in [Plans -> StepRows]
      /\ plan \in [Plans -> [status : PlanStatus, version : Nat]]
  BY ReviseReplaces DEF Inductive, TypeOK
<1>2. rows[p].gen \in Nat /\ plan[p].version \in Nat
  BY <1>1 DEF StepRows
<1>3. /\ NewRows(rows[p].gen + 1, revision[f].actions).gen = rows[p].gen + 1
      /\ NewRows(rows[p].gen + 1, revision[f].actions).actions = revision[f].actions
  BY DEF NewRows
<1>4. /\ \A q \in Plans \ {p} : rows'[q] = rows[q]
      /\ Replaces(f) => /\ rows'[p].gen = rows[p].gen + 1
                        /\ rows'[p].actions = revision[f].actions
  BY <1>1, <1>3, ReviseReplaces
<1>5. /\ \A q \in Plans \ {p} : plan'[q] = plan[q]
      /\ plan'[p].version = plan[p].version + 1
      /\ plan'[p].status = "PENDING_APPROVAL"
  BY <1>1 DEF Revise
<1>6. QED
  BY <1>2, <1>4, <1>5 DEF Revise

LEMMA InductiveRevise ==
    ASSUME Inductive, TypeInv', NEW f \in Revisers, Revise(f)
    PROVE  Inductive'
<1> DEFINE p == revision[f].plan
<1>0. /\ p \in Plans
      /\ revision \in [Revisers -> Revision]
      /\ stepLock \in [Plans -> Executors \cup Revisers \cup {Nobody}]
      /\ rows \in [Plans -> StepRows]
      /\ plan \in [Plans -> [status : PlanStatus, version : Nat]]
      /\ \A x \in executions : x.plan \in Plans /\ x.version \in Nat
      /\ \A d \in Executors : /\ call[d] \in Call
                              /\ call[d].phase # "idle" => call[d].plan \in Plans
      /\ \A g \in Revisers : revision[g].phase # "idle" => revision[g].plan \in Plans
  BY ReviseReplaces
     DEF Inductive, TypeOK, CallsWellFormed, RevisionsWellFormed, Execution
<1>1. VersionsAgree'
  <2> SUFFICES ASSUME NEW q \in Plans PROVE rows'[q].gen <= plan'[q].version
    BY DEF VersionsAgree
  <2>1. rows[q].gen <= plan[q].version /\ rows[q].gen \in Nat /\ plan[q].version \in Nat
    BY <1>0 DEF Inductive, VersionsAgree, StepRows
  <2>2. QED
    BY <1>0, <2>1, ReviseReplaces, ReviseTables
\* Rows with a record stay, and the version of their plan is not lowered.
<1>2. \A x \in executions : /\ rows'[x.plan] = rows[x.plan]
                           /\ x.version <= plan'[x.plan].version
  <2> SUFFICES ASSUME NEW x \in executions
               PROVE  /\ rows'[x.plan] = rows[x.plan]
                      /\ x.version <= plan'[x.plan].version
    OBVIOUS
  <2>1. x.version <= plan[x.plan].version /\ x.version \in Nat /\ x.plan \in Plans
    BY <1>0 DEF Inductive, RecordsCurrent
  <2>2. CASE x.plan # p
    BY <2>1, <2>2, ReviseTables
  <2>3. CASE x.plan = p
    BY <2>1, <2>3, ReviseReplaces, ReviseTables
  <2>4. QED
    BY <2>2, <2>3
<1>3. RecordsCurrent' /\ RecordsComplete'
  <2>1. executions' = executions
    BY ReviseTables
  <2>2. \A x \in executions : RecordedWith(x)' = RecordedWith(x)
    BY <2>1 DEF RecordedWith, RecordsOf
  <2>3. RecordsCurrent'
    BY <1>2, <2>1 DEF Inductive, RecordsCurrent
  <2>4. RecordsComplete'
    BY <1>2, <2>1, <2>2 DEF Inductive, RecordsComplete
  <2>5. QED
    BY <2>3, <2>4
<1>4. AtMostOnce' /\ RecordsAudited'
  <2>1. \A x, y \in executions' :
            /\ x.plan = y.plan /\ x.gen = y.gen /\ x.seq = y.seq
            /\ x.incident = y.incident /\ x.version = y.version
            => x = y
    BY ReviseTables DEF Inductive, AtMostOnce
  <2>2. AtMostOnce'
    BY <1>3, <2>1, OncePerVersion DEF TypeInv
  <2>3. QED
    BY <2>2, ReviseTables DEF Inductive, RecordsAudited
<1>5. \A q \in Plans : \A h \in (Executors \cup Revisers) \ {f} :
          stepLock[q] = h => stepLock'[q] = h
  BY <1>0, ReviseTables DEF Release
<1>6. ASSUME NEW d \in Executors
      PROVE  CallAgrees(d)' /\ RunIsolated(d)' /\ (Pending(d) \subseteq audit)'
  <2>1. CallAgrees(d) /\ RunIsolated(d) /\ Pending(d) \subseteq audit /\ call'[d] = call[d]
    BY ReviseTables DEF Inductive, CallsAgree, RunsIsolated, PendingAudited
  <2>2. CallAgrees(d)'
    <3>1. call[d].gen \in Nat /\ call[d].version \in Nat
      BY <1>0 DEF Call
    <3>2. CASE call[d].plan = p /\ Replaces(f)
      BY <1>0, <2>1, <3>1, <3>2, ReviseTables DEF CallAgrees
    <3>3. CASE call[d].plan = p /\ ~Replaces(f)
      BY <1>0, <2>1, <3>1, <3>3, ReviseReplaces, ReviseTables DEF CallAgrees
    <3>4. CASE call[d].plan # p
      BY <1>0, <2>1, <3>4, ReviseTables DEF CallAgrees
    <3>5. QED
      BY <3>2, <3>3, <3>4
  <2>3. RunIsolated(d)'
    <3> SUFFICES ASSUME InTransaction(d) PROVE RunIsolated(d)'
      BY <2>1 DEF RunIsolated, InTransaction
    <3>1. call[d].plan \in Plans /\ call[d].plan # p /\ d # f
      BY <1>0, ReviseReplaces, NobodyIsNoThread DEF InTransaction
    <3>2. rows'[call[d].plan] = rows[call[d].plan]
      BY <3>1, ReviseTables
    <3>3. QED
      BY <1>5, <2>1, <3>1, <3>2, ReviseTables
         DEF RunIsolated, InTransaction, HasClaimed, StepsExist, SameRun
  <2>4. (Pending(d) \subseteq audit)'
    BY <2>1, ReviseTables DEF Pending, RowOf
  <2>5. QED
    BY <2>2, <2>3, <2>4
<1>7. ASSUME NEW g \in Revisers PROVE RevisionIsolated(g)'
  <2>1. CASE g = f
    BY <1>0, <2>1, ReviseTables DEF RevisionIsolated, NoRevision
  <2>2. CASE g # f
    <3>1. revision'[g] = revision[g] /\ RevisionIsolated(g) /\ revision[g].gen \in Nat
      BY <1>0, <2>2, ReviseTables DEF Inductive, RevisionsIsolated, Revision
    <3>2. CASE revision[g].plan = p /\ Replaces(f)
      BY <3>1, <3>2, ReviseTables DEF RevisionIsolated, SnapshotHolds
    <3>3. CASE revision[g].plan # p \/ ~Replaces(f)
      <4>1. revision[g].phase # "idle" => rows'[revision[g].plan] = rows[revision[g].plan]
        BY <1>0, <3>3, ReviseReplaces, ReviseTables
      <4>2. QED
        BY <1>0, <1>5, <2>2, <3>1, <4>1, ReviseTables
           DEF RevisionIsolated, SnapshotHolds, Referenced
    <3>4. QED
      BY <3>2, <3>3
  <2>3. QED
    BY <2>1, <2>2
<1>8. QED
  BY <1>1, <1>3, <1>4, <1>6, <1>7
     DEF Inductive, TypeInv, CallsAgree, RunsIsolated, RevisionsIsolated, PendingAudited

LEMMA InductiveDeadlock ==
    ASSUME Inductive, TypeInv', NEW e \in Executors, NEW f \in Revisers, BreakDeadlock(e, f)
    PROVE  Inductive'
<1>1. CASE AbandonRevision(f)
  BY <1>1, AbandonKeepsInductive
<1>2. CASE Rollback(e) /\ UNCHANGED <<tables, audit, revision, calls>>
  <2>1. TypeInv
    BY DEF Inductive, TypeInv
  <2>2. QED
    BY <1>2, <2>1, RollbackIsLocal, ExecutorFrame
<1>3. QED
  BY <1>1, <1>2 DEF BreakDeadlock

LEMMA InductiveApproval ==
    ASSUME Inductive, TypeInv', NEW p \in Plans, MarkApproved(p)
    PROVE  Inductive'
<1>0. /\ plan \in [Plans -> [status : PlanStatus, version : Nat]]
      /\ \A d \in Executors : call[d].phase # "idle" => call[d].plan \in Plans
      /\ \A x \in executions : x.plan \in Plans
  BY DEF Inductive, TypeOK, CallsWellFormed, Execution
<1>1. /\ \A q \in Plans : /\ plan'[q].version = plan[q].version
                          /\ plan'[q].status \in {plan[q].status, "APPROVED"}
      /\ UNCHANGED <<rows, executions, audit, planLock, stepLock, call, revision>>
  BY <1>0 DEF MarkApproved, locks
<1>2. VersionsAgree' /\ RecordsComplete' /\ RecordsAudited'
  BY <1>1 DEF Inductive, VersionsAgree, RecordsComplete, RecordedWith, RecordsOf, RecordsAudited
<1>3. RecordsCurrent' /\ AtMostOnce'
  BY <1>0, <1>1 DEF Inductive, RecordsCurrent, AtMostOnce, Overtaken
<1>4. CallsAgree'
  BY <1>0, <1>1 DEF Inductive, CallsAgree, CallAgrees
<1>5. RunsIsolated' /\ PendingAudited'
  BY <1>1 DEF Inductive, RunsIsolated, RunIsolated, InTransaction, HasClaimed, StepsExist,
              SameRun, PendingAudited, Pending, RowOf
<1>6. RevisionsIsolated'
  BY <1>1 DEF Inductive, RevisionsIsolated, RevisionIsolated, SnapshotHolds, Referenced
<1>7. QED
  BY <1>2, <1>3, <1>4, <1>5, <1>6 DEF Inductive, TypeInv

LEMMA InductiveInit == Init => Inductive
<1> SUFFICES ASSUME Init PROVE Inductive
  OBVIOUS
<1>1. TypeOK /\ CallsWellFormed /\ RevisionsWellFormed
  BY TypeInvInit DEF TypeInv
<1>2. VersionsAgree
  BY DEF Init, VersionsAgree, NewRows
<1>3. CallsAgree /\ RunsIsolated /\ RevisionsIsolated
  BY DEF Init, NoCall, NoRevision, CallsAgree, CallAgrees, RunsIsolated, RunIsolated,
         InTransaction, RevisionsIsolated, RevisionIsolated
<1>4. RecordsCurrent /\ RecordsComplete /\ AtMostOnce /\ RecordsAudited
  BY DEF Init, RecordsCurrent, RecordsComplete, AtMostOnce, RecordsAudited
<1>5. PendingAudited
  BY EmptySeq DEF Init, NoCall, PendingAudited, Pending
<1>6. QED
  BY <1>1, <1>2, <1>3, <1>4, <1>5 DEF Inductive

LEMMA InductiveStep == Inductive /\ [Next]_vars => Inductive'
<1> SUFFICES ASSUME Inductive, [Next]_vars PROVE Inductive'
  OBVIOUS
<1>1. TypeInv'
  BY TypeInvStep DEF Inductive, TypeInv
<1>2. ASSUME NEW e \in Executors,
             (\E p \in Plans, i \in Incidents : ReadSteps(e, p, i)) \/ Progress(e) \/ Crash(e)
      PROVE  Inductive'
  BY <1>1, <1>2, InductiveExecution, InductiveFinish DEF Progress
<1>3. ASSUME NEW f \in Revisers,
             (\E i \in Incidents : Draft(f, i)) \/ ProgressRevision(f) \/ CrashRevision(f)
      PROVE  Inductive'
  <2>1. CASE DeleteFails(f) \/ ReviseFails(f) \/ CrashRevision(f)
    BY <2>1, AbandonKeepsInductive DEF DeleteFails, ReviseFails, CrashRevision
  <2>2. QED
    BY <1>1, <1>3, <2>1, InductiveDeletion, InductiveRevise DEF ProgressRevision
<1>4. CASE UNCHANGED vars
  BY <1>4 DEF vars, tables, locks, Inductive, TypeOK, CallsWellFormed, RevisionsWellFormed,
       VersionsAgree, CallsAgree, CallAgrees, RunsIsolated, RunIsolated, InTransaction,
       HasClaimed, StepsExist, SameRun, RevisionsIsolated, RevisionIsolated, SnapshotHolds,
       Referenced, RecordsCurrent, RecordsComplete, RecordedWith, RecordsOf, AtMostOnce,
       Overtaken, RecordsAudited, PendingAudited, Pending, RowOf
<1>5. QED
  BY <1>1, <1>2, <1>3, <1>4, InductiveDeadlock, InductiveApproval DEF Next

\* The invariant that isolates executions and revisions from one another.
THEOREM InductiveInvariant == Spec => []Inductive
<1>1. QED
  BY InductiveInit, InductiveStep, PTL DEF Spec

-----------------------------------------------------------------------------
(* Consequences                                                            *)

\* However often the plan is executed, no step has two recorded executions with one
\* incident, unless its version was raised in between.
THEOREM ExecutedAtMostOnce == Spec => []AtMostOnce
<1>1. Inductive => AtMostOnce
  BY DEF Inductive
<1>2. QED
  BY <1>1, InductiveInvariant, PTL

\* Whatever is on record of a plan is, for each incident and version, a record of every
\* one of its present steps.
THEOREM RecordedAllOrNothing == Spec => []AllOrNothing
<1>1. ASSUME Inductive, NEW x \in executions
      PROVE  {y.seq : y \in RecordedWith(x)} = DOMAIN rows[x.plan].actions
  <2>1. \A y \in RecordedWith(x) : y.seq \in DOMAIN rows[x.plan].actions
    BY <1>1 DEF Inductive, RecordsCurrent, RecordedWith, RecordsOf
  <2>2. \A k \in DOMAIN rows[x.plan].actions : \E y \in RecordedWith(x) : y.seq = k
    BY <1>1 DEF Inductive, RecordsComplete
  <2>3. QED
    BY <2>1, <2>2
<1>2. Inductive => AllOrNothing
  BY <1>1 DEF AllOrNothing, Inductive, RecordsCurrent
<1>3. QED
  BY <1>2, InductiveInvariant, PTL

\* A recorded failed verification is not followed by EXECUTED, but for the commit of a
\* call that has no steps, or keys of its own.
THEOREM FailureNeverOverwritten == Spec => FailureIsFinal
<1> DEFINE Excused(x) ==
               \/ x \in executions /\ plan[x.plan].status = "EXECUTED"
               \/ \E e \in Executors : /\ InTransaction(e) /\ call'[e].phase = "idle"
                                       /\ call[e].plan = x.plan
                                       /\ Unhindered(e, x)
<1>1. ASSUME Inductive, [Next]_vars, NEW x \in executions',
             Unverified(x.outcome), plan'[x.plan].status = "EXECUTED"
      PROVE  Excused(x)
  <2>0. /\ plan \in [Plans -> [status : PlanStatus, version : Nat]]
        /\ rows \in [Plans -> StepRows]
        /\ call \in [Executors -> Call]
        /\ \A y \in executions : y.plan \in Plans /\ y.version \in Nat
    BY <1>1 DEF Inductive, TypeOK, Execution
  <2>1. CASE UNCHANGED <<plan, rows, executions>>
    BY <1>1, <2>1
  <2>2. ASSUME NEW p \in Plans, MarkApproved(p) PROVE Excused(x)
    BY <1>1, <2>0, <2>2 DEF MarkApproved
  <2>3. ASSUME NEW f \in Revisers, Revise(f) PROVE Excused(x)
    <3>1. x \in executions /\ x.plan \in Plans /\ x.plan # revision[f].plan
      BY <1>1, <2>0, <2>3, ReviseTables
    <3>2. QED
      BY <1>1, <2>3, <3>1, ReviseTables
  <2>4. ASSUME NEW e \in Executors, Finish(e) PROVE Excused(x)
    <3>1. x \in executions \cup Pending(e) /\ call[e].plan \in Plans
      BY <1>1, <2>4, FinishTables, FinishIsComplete
    <3>2. CASE x \in Pending(e)
      <4>1. x.plan = call[e].plan /\ ~AllVerified(e)
        BY <1>1, <2>4, <3>2, PendingCurrent DEF SameRun, AllVerified
      <4>2. QED
        BY <1>1, <2>4, <4>1, FinishTables
    <3>3. CASE x \in executions /\ x.plan # call[e].plan
      BY <1>1, <2>0, <2>4, <3>3, FinishTables
    <3>4. CASE x \in executions /\ x.plan = call[e].plan
      <4>1. InTransaction(e) /\ call'[e].phase = "idle"
        BY <2>0, <2>4 DEF Finish, Rollback, NoCall, InTransaction
      <4>2. ASSUME call[e].actions # <<>>, call[e].incident = x.incident
            PROVE  call[e].version # x.version /\ Overtaken(x.plan)
        <5>1. StepsExist(e)
          BY <1>1, <2>4, <4>2, FinishIsComplete
        <5>2. ~SameRun(e, x) /\ call[e].gen <= call[e].version
              /\ call[e].version <= plan[x.plan].version
          BY <1>1, <2>4, <3>4, <5>1, FinishIsComplete
        <5>3. call[e].version # x.version
          BY <3>4, <4>2, <5>2 DEF SameRun
        <5>4. /\ rows[x.plan].gen = call[e].gen
              /\ rows[x.plan].gen <= x.version /\ x.version <= plan[x.plan].version
          BY <1>1, <3>4, <5>1 DEF Inductive, RecordsCurrent, StepsExist
        <5>5. /\ x.version \in Nat /\ call[e].version \in Nat /\ call[e].gen \in Nat
              /\ plan[x.plan].version \in Nat
          BY <2>0, <3>4 DEF Call
        <5>6. QED
          BY <5>2, <5>3, <5>4, <5>5 DEF Overtaken
      <4>3. QED
        BY <3>4, <4>1, <4>2 DEF Unhindered
    <3>5. QED
      BY <3>1, <3>2, <3>3, <3>4
  <2>5. QED
    BY <1>1, <2>1, <2>2, <2>3, <2>4, VisibleSteps
<1>2. Inductive /\ [Next]_vars =>
          [\A x \in executions' :
              Unverified(x.outcome) /\ plan'[x.plan].status = "EXECUTED" => Excused(x)]_vars
  BY <1>1
<1>3. QED
  BY <1>2, InductiveInvariant, PTL DEF Spec, FailureIsFinal

\* The status of every step row is one its recorded executions justify.
THEOREM RowsTellTheRecord == Spec => []RowsMatchRecords
<1> DEFINE Matches(p, k) ==
               LET outcomes == {x.outcome : x \in {y \in RecordsOf(p) : y.seq = k}}
                   status == rows[p].status[k] IN
               /\ status = "PENDING" <=> outcomes = {}
               /\ status = "SUCCEEDED" => Executed("PASSED") \in outcomes
               /\ status = "FAILED" => outcomes \ {Executed("PASSED")} # {}
<1>1. Init => RowsMatchRecords
  BY ConstantsAssumption, LenProperties DEF Init, RowsMatchRecords, RecordsOf, NewRows
<1>2. ASSUME Inductive, RowsMatchRecords, NEW e \in Executors, Finish(e)
      PROVE  RowsMatchRecords'
  <2>0. rows \in [Plans -> StepRows]
    BY <1>2 DEF Inductive, TypeOK
  <2> SUFFICES ASSUME NEW p \in Plans, NEW k \in DOMAIN rows[p].actions
               PROVE  Matches(p, k)'
    BY <1>2, FinishTables DEF RowsMatchRecords
  <2>1. CASE p # call[e].plan \/ ~StepsExist(e)
    <3>1. rows'[p] = rows[p]
      BY <1>2, <2>0, <2>1, FinishIsComplete DEF Finish
    <3>2. RecordsOf(p)' = RecordsOf(p)
      BY <1>2, <2>1, FinishTables, PendingCurrent DEF RecordsOf, SameRun
    <3>3. QED
      BY <1>2, <3>1, <3>2 DEF RowsMatchRecords
  <2>2. CASE p = call[e].plan /\ StepsExist(e)
    <3> DEFINE o == call[e].done[k]
               outcomes == {x.outcome : x \in {y \in RecordsOf(p)' : y.seq = k}}
    <3>1. k \in 1..Len(call[e].done)
      BY <1>2, <2>2, FinishIsComplete
    <3>2. rows'[p].status[k] = StepStatusOf(o)
      <4> DEFINE status == [j \in 1..Len(call[e].done) |-> StepStatusOf(call[e].done[j])]
      <4>1. rows' = [rows EXCEPT ![p].status = status]
        BY <1>2, <2>2 DEF Finish
      <4>2. status[k] = StepStatusOf(o)
        BY <3>1
      <4> HIDE DEF status
      <4>3. rows'[p].status = status
        BY <2>0, <4>1 DEF StepRows
      <4>4. QED
        BY <4>2, <4>3
    <3>3. o \in outcomes
      <4>1. /\ RowOf(e, k, o) \in Pending(e) /\ RowOf(e, k, o).seq = k
            /\ RowOf(e, k, o).plan = p /\ RowOf(e, k, o).outcome = o
        BY <2>2, <3>1 DEF Pending, RowOf
      <4>2. RowOf(e, k, o) \in RecordsOf(p)'
        BY <1>2, <4>1, FinishTables DEF RecordsOf
      <4>3. QED
        BY <4>1, <4>2
    <3> HIDE DEF outcomes, o
    <3>4. /\ StepStatusOf(o) \in {"SUCCEEDED", "FAILED"}
          /\ StepStatusOf(o) = "SUCCEEDED" => o = Executed("PASSED")
          /\ StepStatusOf(o) = "FAILED" => o # Executed("PASSED")
      BY DEF StepStatusOf
    <3>5. /\ rows'[p].status[k] = "PENDING" <=> outcomes = {}
          /\ rows'[p].status[k] = "SUCCEEDED" => Executed("PASSED") \in outcomes
          /\ rows'[p].status[k] = "FAILED" => outcomes \ {Executed("PASSED")} # {}
      BY <3>2, <3>3, <3>4
    <3>6. QED
      BY <3>5 DEF outcomes
  <2>3. QED
    BY <2>1, <2>2
<1>3. ASSUME Inductive, RowsMatchRecords, NEW f \in Revisers, Revise(f)
      PROVE  RowsMatchRecords'
  <2> SUFFICES ASSUME NEW p \in Plans, NEW k \in DOMAIN rows'[p].actions
               PROVE  Matches(p, k)'
    BY DEF RowsMatchRecords
  <2>1. RecordsOf(p)' = RecordsOf(p)
    BY <1>3, ReviseTables DEF RecordsOf
  <2>2. CASE p # revision[f].plan \/ ~Replaces(f)
    <3>1. rows'[p] = rows[p]
      BY <1>3, <2>2, ReviseReplaces, ReviseTables
    <3>2. k \in DOMAIN rows[p].actions
      BY <3>1
    <3>3. Matches(p, k)
      BY <1>3, <3>2 DEF RowsMatchRecords
    <3>4. QED
      BY <2>1, <3>1, <3>3
  <2>3. CASE p = revision[f].plan /\ Replaces(f)
    <3>1. revision[f].actions \in Seq(Actions)
      BY <1>3, <2>3, ConstantsAssumption DEF Inductive, RevisionsWellFormed, Revise
    <3>2. k \in 1..Len(revision[f].actions)
      BY <1>3, <2>3, <3>1, ReviseTables, LenProperties
    <3>3. rows'[p].status[k] = "PENDING"
      <4>1. rows'[p] = NewRows(rows[p].gen + 1, revision[f].actions)
        BY <1>3, <2>3, ReviseReplaces DEF Inductive, TypeOK
      <4>2. QED
        BY <3>2, <4>1 DEF NewRows
    <3>4. RecordsOf(p)' = {}
      BY <1>3, <2>1, <2>3, ReviseReplaces DEF RecordsOf
    <3>5. {x.outcome : x \in {y \in RecordsOf(p)' : y.seq = k}} = {}
      BY <3>4
    <3>6. QED
      BY <3>3, <3>5
  <2>4. QED
    BY <2>2, <2>3
<1>4. ASSUME RowsMatchRecords, UNCHANGED <<rows, executions>> PROVE RowsMatchRecords'
  <2>1. \A p \in Plans : RecordsOf(p)' = RecordsOf(p)
    BY <1>4 DEF RecordsOf
  <2>2. rows' = rows
    BY <1>4
  <2>3. QED
    BY <1>4, <2>1, <2>2 DEF RowsMatchRecords
<1>5. Inductive /\ RowsMatchRecords /\ [Next]_vars => RowsMatchRecords'
  BY <1>2, <1>3, <1>4, VisibleSteps DEF MarkApproved
<1>6. QED
  BY <1>1, <1>5, InductiveInvariant, PTL DEF Spec

\* Executions and revisions appear to happen one at a time, each as a whole.
THEOREM AppearsAtomic == Spec => ImplementsAtomicPlan
<1> DEFINE versions == [p \in Plans |-> plan[p].version]
<1>1. ASSUME Init PROVE Abstract!Init
  <2>1. \E actions \in [Plans -> Contents] : rows = [p \in Plans |-> Abstract!Fresh(1, actions[p])]
    BY <1>1 DEF Init, NewRows, Abstract!Fresh
  <2>2. \A p \in Plans : plan[p].version = 1
    BY <1>1 DEF Init
  <2>3. versions = [p \in Plans |-> 1]
    BY <2>2
  <2>4. QED
    BY <1>1, <2>1, <2>3 DEF Init, Abstract!Init
<1>2. ASSUME Inductive, NEW e \in Executors, Finish(e), StepsExist(e)
      PROVE  Abstract!Run(call[e].plan, call[e].incident, call[e].version)
  <2> DEFINE p == call[e].plan
             i == call[e].incident
             v == call[e].version
             done == call[e].done
  <2>1. /\ call[e] \in Call /\ rows \in [Plans -> StepRows]
        /\ Len(done) \in Nat /\ done \in [1..Len(done) -> Outcomes]
        /\ DOMAIN call[e].actions = 1..Len(call[e].actions)
        /\ Len(call[e].actions) \in Nat
    BY <1>2, LenProperties DEF Inductive, TypeOK, Call
  <2>2. Len(rows[p].actions) = Len(done)
    BY <1>2, <2>1, FinishIsComplete
  <2>3. rows' = [rows EXCEPT ![p].status =
                   [k \in 1..Len(done) |->
                       IF done[k] = Executed("PASSED") THEN "SUCCEEDED" ELSE "FAILED"]]
    BY <1>2 DEF Finish, StepStatusOf
  <2>4. Pending(e) = {[plan |-> p, incident |-> i, gen |-> rows[p].gen, seq |-> k, version |-> v,
                       action |-> rows[p].actions[k], outcome |-> done[k]] : k \in 1..Len(done)}
    BY <1>2, FinishIsComplete DEF Pending, RowOf, StepsExist
  <2>5. \A x \in executions : ~(x.plan = p /\ x.incident = i /\ x.version = v)
    BY <1>2, FinishIsComplete DEF SameRun
  <2>6. executions' = executions \cup Pending(e) /\ versions' = versions
    BY <1>2, FinishTables
  <2>7. QED
    <3> HIDE DEF versions, p, i, v, done
    <3>1. Len(done) = Len(rows[p].actions)
      BY <2>2
    <3>2. rows' = [rows EXCEPT ![p].status =
                      [k \in 1..Len(rows[p].actions) |->
                          IF done[k] = Executed("PASSED") THEN "SUCCEEDED" ELSE "FAILED"]]
      BY <2>3, <3>1
    <3>3. executions' = executions \cup
             {[plan |-> p, incident |-> i, gen |-> rows[p].gen, seq |-> k, version |-> v,
               action |-> rows[p].actions[k], outcome |-> done[k]] :
                 k \in 1..Len(rows[p].actions)}
      BY <2>4, <2>6, <3>1
    <3>4. done \in [1..Len(rows[p].actions) -> Outcomes]
      BY <2>1, <3>1
    <3>5. \E outcomes \in [1..Len(rows[p].actions) -> Outcomes] :
             /\ rows' = [rows EXCEPT ![p].status =
                   [k \in 1..Len(rows[p].actions) |->
                       IF outcomes[k] = Executed("PASSED") THEN "SUCCEEDED" ELSE "FAILED"]]
             /\ executions' = executions \cup
                   {[plan |-> p, incident |-> i, gen |-> rows[p].gen, seq |-> k, version |-> v,
                     action |-> rows[p].actions[k], outcome |-> outcomes[k]] :
                       k \in 1..Len(rows[p].actions)}
      BY <3>2, <3>3, <3>4
    <3>6. Abstract!Run(p, i, v)
      BY <2>5, <2>6, <3>5 DEF Abstract!Run, Abstract!Executed, Executed, versions
    <3>7. QED
      BY <3>6 DEF p, i, v
<1>3. ASSUME Inductive, NEW e \in Executors, Finish(e)
      PROVE  [Abstract!Next]_<<versions, rows, executions>>
  <2>1. CASE StepsExist(e)
    <3>1. /\ call[e].plan \in Plans /\ call[e].incident \in Incidents
          /\ call[e].version \in rows[call[e].plan].gen..plan[call[e].plan].version
      BY <1>3, <2>1, FinishIsComplete DEF Inductive, TypeOK, Call, StepsExist
    <3>2. Abstract!Run(call[e].plan, call[e].incident, call[e].version)
      BY <1>2, <1>3, <2>1
    <3>3. versions[call[e].plan] = plan[call[e].plan].version
      BY <3>1
    <3>4. Abstract!Next
      BY <3>1, <3>2, <3>3 DEF Abstract!Next, Abstract!Execute
    <3>5. QED
      BY <3>4
  <2>2. CASE ~StepsExist(e)
    <3>1. rows' = rows
      BY <1>3, <2>2 DEF Finish
    <3>2. Pending(e) = {}
      BY <1>3, <2>2, FinishIsComplete
    <3>3. executions' = executions
      BY <1>3, <3>2, FinishTables
    <3>4. versions' = versions
      BY <1>3, FinishTables
    <3>5. QED
      BY <3>1, <3>3, <3>4
  <2>3. QED
    BY <2>1, <2>2
<1>4. ASSUME Inductive, NEW f \in Revisers, Revise(f), NEW p \in Plans, p = revision[f].plan
      PROVE  Abstract!Replace(p) \/ Abstract!PassOver(p)
  <2>1. revision[f].actions \in Contents
    BY <1>4 DEF Inductive, RevisionsWellFormed, Revise
  <2>2. versions' = [versions EXCEPT ![p] = @ + 1] /\ executions' = executions
    BY <1>4, ReviseReplaces, ReviseTables
  <2>3. CASE Replaces(f)
    BY <1>4, <2>1, <2>2, <2>3, ReviseReplaces
       DEF Abstract!Replace, Abstract!Unexecuted, Abstract!Fresh, NewRows
  <2>4. CASE ~Replaces(f)
    BY <1>4, <2>1, <2>2, <2>4, ReviseReplaces DEF Abstract!PassOver
  <2>5. QED
    BY <2>3, <2>4
<1>5. Inductive /\ [Next]_vars => [Abstract!Next]_<<versions, rows, executions>>
  <2> SUFFICES ASSUME Inductive, [Next]_vars
               PROVE  [Abstract!Next]_<<versions, rows, executions>>
    OBVIOUS
  <2>1. ASSUME NEW f \in Revisers, Revise(f) PROVE Abstract!Next
    <3>1. PICK p \in Plans : p = revision[f].plan
      BY <2>1, ReviseReplaces
    <3>2. Abstract!Replace(p) \/ Abstract!PassOver(p)
      BY <1>4, <2>1, <3>1
    <3>3. QED
      BY <3>2 DEF Abstract!Next
  <2>2. ASSUME NEW p \in Plans, MarkApproved(p) PROVE UNCHANGED <<versions, rows, executions>>
    <3>1. plan \in [Plans -> [status : PlanStatus, version : Nat]]
      BY DEF Inductive, TypeOK
    <3>2. QED
      BY <2>2, <3>1 DEF MarkApproved
  <2>3. QED
    BY <1>3, <2>1, <2>2, VisibleSteps
<1>6. QED
  BY <1>1, <1>5, InductiveInvariant, PTL DEF Spec, ImplementsAtomicPlan, Abstract!Spec
=============================================================================
