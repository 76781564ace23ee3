---------------------------- MODULE PrGate_proofs ----------------------------
(***************************************************************************)
(* That a success of the E2E gate is earned, for any number of checks,     *)
(* child runs, jobs, pushes and failures.                                  *)
(***************************************************************************)
EXTENDS PrGate, SequenceTheorems, TLAPS

-----------------------------------------------------------------------------
(* The inductive invariant.  A check is closed as a success by a job that  *)
(* has judged a child run some calls earlier, and that may have learnt of  *)
(* the run from a late list: what the job holds must be about the run and  *)
(* the check it goes on to close.                                          *)

\* The phases in which a job works on its check.
Holding == {"mark", "evaluate", "conclude", "approve", "authorize", "restore",
            "recheck", "post", "reconcile", "adopt", "publish", "revoke", "cancel_child",
            "wait", "finish", "confirm", "close",
            "retry", "reserve", "acquire", "prepare", "revalidate",
            "fail", "unretry", "abandon"}

\* Those in which it has a child run for it, may have one, or has judged one.
Linked == {"publish", "wait", "finish", "confirm", "close"}

Searching == {"reconcile", "adopt"}

Judged == {"confirm", "close"}

\* What a job knows, where n checks and the runs rs exist.
Knows(r, n, rs) ==
    /\ r.pc \in Holding => r.check # 0
    /\ r.pc \in Searching /\ r.lost # 0 => r.lost \in 1..Len(rs) /\ rs[r.lost].check = r.check
    /\ r.pc = "adopt" => r.lost # 0
    /\ r.pc \in Linked => r.run \in 1..Len(rs) /\ rs[r.run].check = r.check
    /\ r.pc \in Judged /\ r.conclusion = "success" => rs[r.run].result = "success"

JobTyped(r, n) ==
    /\ r \in Job
    /\ r.check \in 0..n /\ r.source \in 0..n /\ r.seen \in 0..n
    /\ r.open \subseteq 1..n /\ r.targets \subseteq 1..n

GoodJob(r, n, rs) == JobTyped(r, n) /\ Knows(r, n, rs)

EndedRuns(rs) == \A n \in 1..Len(rs) : rs[n].result = "success" => rs[n].state = "done"

\* The check c, in place k, may be a success.
Earned(k, c, rs) ==
    ~Active(c) /\ c.conclusion = "success" =>
        \/ plan = "none"
        \/ c.run \in 1..Len(rs) /\ rs[c.run].check = k /\ rs[c.run].result = "success"

AllEarned == \A k \in 1..Len(checks) : Earned(k, checks[k], runs)

\* What may have passed.
Proven(rs) == plan = "none" \/ \E n \in 1..Len(rs) : rs[n].result = "success"

PassIsEarned == required \in {"read", "passed"} => Proven(runs)

IInv ==
    /\ TypeOK
    /\ \A j \in 1..MaxJobs : GoodJob(jobs[j], Len(checks), runs)
    /\ EndedRuns(runs)
    /\ AllEarned
    /\ PassIsEarned

-----------------------------------------------------------------------------
(* Runs only grow.                                                         *)

Grows(rs, ss) ==
    /\ Len(rs) <= Len(ss)
    /\ \A n \in 1..Len(rs) : /\ ss[n].check = rs[n].check
                             /\ rs[n].result = "success" => ss[n].result = "success"

LEMMA GrowsItself == ASSUME NEW rs \in Seq(Run) PROVE Grows(rs, rs)
BY LenProperties DEF Grows

\* What a job knows stays true when checks and runs are added.
LEMMA GoodGrows ==
    ASSUME NEW r, NEW n \in Nat, NEW m \in Nat, n <= m,
           NEW rs \in Seq(Run), NEW ss \in Seq(Run), Grows(rs, ss), GoodJob(r, n, rs)
    PROVE  GoodJob(r, m, ss)
<1>1. JobTyped(r, m)
  BY DEF GoodJob, JobTyped
<1>2. Len(rs) \in Nat /\ Len(ss) \in Nat
  BY LenProperties
<1>3. Knows(r, m, ss)
  <2>1. r.run \in Nat /\ r.lost \in Nat
    BY DEF GoodJob, JobTyped, Job
  <2>2. r.pc \in Judged => r.pc \in Linked
    BY DEF Judged, Linked
  <2>3. QED
    BY <1>2, <2>1, <2>2 DEF GoodJob, Knows, Grows
<1>4. QED
  BY <1>1, <1>3 DEF GoodJob

\* An asked run keeps its check, and a success that it has ended with.
LEMMA StoppedKeeps ==
    ASSUME NEW r \in Run, r.result = "success" => r.state = "done"
    PROVE  /\ Stopped(r) \in Run
           /\ Stopped(r).check = r.check
           /\ r.result = "success" => Stopped(r).result = "success"
           /\ Stopped(r).result = "success" => Stopped(r).state = "done"
<1>1. CASE r.state = "queued"
  <2>1. Stopped(r) = [r EXCEPT !.state = "done", !.result = "cancelled"]
    BY <1>1 DEF Stopped
  <2>2. QED
    BY <1>1, <2>1 DEF Run
<1>2. CASE r.state = "executing"
  <2>1. Stopped(r) = [r EXCEPT !.state = "stopping"]
    BY <1>2 DEF Stopped
  <2>2. QED
    BY <1>2, <2>1 DEF Run
<1>3. CASE r.state \notin {"queued", "executing"}
  <2>1. Stopped(r) = r
    BY <1>3 DEF Stopped
  <2>2. QED
    BY <2>1
<1>4. QED
  BY <1>1, <1>2, <1>3

\* What stopping some runs leaves.
LEMMA StopKeeps ==
    ASSUME runs \in Seq(Run), EndedRuns(runs), NEW S
    PROVE  /\ Stop(S) \in Seq(Run) /\ Len(Stop(S)) = Len(runs)
           /\ Grows(runs, Stop(S)) /\ EndedRuns(Stop(S))
<1> DEFINE n == Len(runs)
           ss == Stop(S)
<1>1. n \in Nat /\ DOMAIN runs = 1..n /\ \A k \in 1..n : runs[k] \in Run
  BY LenProperties, ElementOfSeq
<1>2. ss = [k \in 1..n |-> IF k \in S THEN Stopped(runs[k]) ELSE runs[k]]
  BY DEF Stop
<1>3. ASSUME NEW k \in 1..n
      PROVE  /\ ss[k] \in Run /\ ss[k].check = runs[k].check
             /\ runs[k].result = "success" => ss[k].result = "success"
             /\ ss[k].result = "success" => ss[k].state = "done"
  <2>1. runs[k] \in Run /\ (runs[k].result = "success" => runs[k].state = "done")
    BY <1>1, <1>3 DEF EndedRuns
  <2>2. CASE k \in S
    <3>1. ss[k] = Stopped(runs[k])
      BY <1>2, <2>2
    <3>2. QED
      BY <2>1, <3>1, StoppedKeeps
  <2>3. CASE k \notin S
    BY <1>2, <2>1, <2>3
  <2>4. QED
    BY <2>2, <2>3
<1>4. ss \in [1..n -> Run]
  <2> HIDE DEF ss
  <2>1. QED
    BY <1>2, <1>3
<1>5. ss \in Seq(Run) /\ Len(ss) = n
  <2> HIDE DEF ss
  <2>1. QED
    BY <1>1, <1>4, SeqDef, LenProperties
<1>6. QED
  BY <1>1, <1>3, <1>5 DEF Grows, EndedRuns

\* What a new run leaves.
LEMMA DispatchKeeps ==
    ASSUME runs \in Seq(Run), EndedRuns(runs), NEW k \in Nat, NEW v \in BOOLEAN
    PROVE  LET ss == Append(runs, NewRun(k, v)) IN
           /\ ss \in Seq(Run) /\ Len(ss) = Len(runs) + 1
           /\ Grows(runs, ss) /\ EndedRuns(ss) /\ ss[Len(runs) + 1].check = k
<1> DEFINE new == NewRun(k, v)
           ss == Append(runs, new)
<1>1. new \in Run /\ new.check = k /\ new.result = "none"
  BY DEF NewRun, Run
<1>2. Len(runs) \in Nat
  BY LenProperties
<1> HIDE DEF new
<1>3. /\ ss \in Seq(Run) /\ Len(ss) = Len(runs) + 1
      /\ \A i \in 1..Len(runs) : ss[i] = runs[i]
      /\ ss[Len(runs) + 1] = new
  BY <1>1, AppendProperties
<1>4. Grows(runs, ss)
  BY <1>2, <1>3 DEF Grows
<1>5. EndedRuns(ss)
  <2> SUFFICES ASSUME NEW i \in 1..Len(ss), ss[i].result = "success" PROVE ss[i].state = "done"
    BY DEF EndedRuns
  <2>1. i \in 1..Len(runs) \/ i = Len(runs) + 1
    BY <1>2, <1>3
  <2>2. QED
    BY <1>1, <1>3, <2>1 DEF EndedRuns
<1>6. QED
  BY <1>1, <1>3, <1>4, <1>5 DEF new

-----------------------------------------------------------------------------
(* The shape of a job's step.                                              *)

\* The job knows what it needs to, a check is changed to one that may stand,
\* and runs are stopped or one is added.
JobMoves(j) ==
    \E r \in Job : jobs' = [jobs EXCEPT ![j] = r] /\ GoodJob(r, Len(checks'), runs')

ChecksMove ==
    \/ checks' = checks
    \/ Len(checks) < MaxChecks /\ checks' = Append(checks, Reserved)
    \/ \E k \in 1..Len(checks), c \in Check :
          checks' = [checks EXCEPT ![k] = c] /\ Earned(k, c, runs)

RunsMove ==
    \/ runs' = runs
    \/ \E S : runs' = Stop(S)
    \/ \E k \in Nat, v \in BOOLEAN : Len(runs) < MaxRuns /\ runs' = Append(runs, NewRun(k, v))

Shape(j) ==
    /\ JobMoves(j) /\ ChecksMove /\ RunsMove
    /\ UNCHANGED <<live, plan, required, moves>>
    /\ faults' \in 0..MaxFaults

LEMMA ReservedTyped == Reserved \in Check /\ Active(Reserved)
BY DEF Reserved, Check, ActivePhases, Conclusions, Reasons, Active

LEMMA RunsMoveKeeps ==
    ASSUME TypeOK, EndedRuns(runs), RunsMove
    PROVE  /\ runs' \in Seq(Run) /\ Len(runs') <= MaxRuns
           /\ Grows(runs, runs') /\ EndedRuns(runs')
<1>1. runs \in Seq(Run) /\ Len(runs) <= MaxRuns /\ Len(runs) \in Nat /\ MaxRuns \in Nat
  BY LenProperties, PrGateAssumption DEF TypeOK
<1>2. CASE runs' = runs
  BY <1>1, <1>2, GrowsItself
<1>3. CASE \E S : runs' = Stop(S)
  BY <1>1, <1>3, StopKeeps
<1>4. CASE \E k \in Nat, v \in BOOLEAN :
             Len(runs) < MaxRuns /\ runs' = Append(runs, NewRun(k, v))
  <2>1. PICK k \in Nat, v \in BOOLEAN :
          Len(runs) < MaxRuns /\ runs' = Append(runs, NewRun(k, v))
    BY <1>4
  <2>2. /\ runs' \in Seq(Run) /\ Len(runs') = Len(runs) + 1
        /\ Grows(runs, runs') /\ EndedRuns(runs')
    BY <1>1, <2>1, DispatchKeeps
  <2>3. QED
    BY <1>1, <2>1, <2>2
<1>5. QED
  BY <1>2, <1>3, <1>4 DEF RunsMove

\* What a success was earned with stays.
LEMMA EarnedGrows ==
    ASSUME NEW k, NEW c \in Check, NEW rs \in Seq(Run), NEW ss \in Seq(Run), Grows(rs, ss),
           Earned(k, c, rs)
    PROVE  Earned(k, c, ss)
<1>1. Len(rs) \in Nat /\ Len(ss) \in Nat /\ c.run \in Nat
  BY LenProperties DEF Check
<1>2. QED
  BY <1>1 DEF Earned, Grows

LEMMA ChecksMoveKeeps ==
    ASSUME TypeOK, AllEarned, ChecksMove
    PROVE  /\ checks' \in Seq(Check) /\ Len(checks') <= MaxChecks
           /\ Len(checks') \in Nat /\ Len(checks) <= Len(checks')
           /\ \A k \in 1..Len(checks') : Earned(k, checks'[k], runs)
<1>1. /\ checks \in Seq(Check) /\ Len(checks) <= MaxChecks /\ Len(checks) \in Nat
      /\ MaxChecks \in Nat
  BY LenProperties, PrGateAssumption DEF TypeOK
<1>2. CASE checks' = checks
  BY <1>1, <1>2 DEF AllEarned
<1>3. CASE Len(checks) < MaxChecks /\ checks' = Append(checks, Reserved)
  <2>1. /\ checks' \in Seq(Check) /\ Len(checks') = Len(checks) + 1
        /\ \A k \in 1..Len(checks) : checks'[k] = checks[k]
        /\ checks'[Len(checks) + 1] = Reserved
    BY <1>1, <1>3, ReservedTyped, AppendProperties
  <2>2. ASSUME NEW k \in 1..Len(checks') PROVE Earned(k, checks'[k], runs)
    <3>1. k \in 1..Len(checks) \/ k = Len(checks) + 1
      BY <1>1, <2>1
    <3>2. QED
      BY <2>1, <3>1, ReservedTyped DEF AllEarned, Earned
  <2>3. QED
    BY <1>1, <1>3, <2>1, <2>2
<1>4. CASE \E k \in 1..Len(checks), c \in Check :
             checks' = [checks EXCEPT ![k] = c] /\ Earned(k, c, runs)
  <2>1. PICK k \in 1..Len(checks), c \in Check :
          checks' = [checks EXCEPT ![k] = c] /\ Earned(k, c, runs)
    BY <1>4
  <2>2. /\ checks' \in Seq(Check) /\ Len(checks') = Len(checks)
        /\ \A i \in 1..Len(checks) : checks'[i] = IF i = k THEN c ELSE checks[i]
    BY <1>1, <2>1, ExceptSeq
  <2>3. QED
    BY <1>1, <2>1, <2>2 DEF AllEarned
<1>5. QED
  BY <1>2, <1>3, <1>4 DEF ChecksMove

\* A step of this shape keeps the invariant.
LEMMA ShapeKeeps ==
    ASSUME IInv, NEW j \in 1..MaxJobs, Shape(j)
    PROVE  IInv'
<1>1. /\ checks \in Seq(Check) /\ Len(checks) \in Nat
      /\ runs \in Seq(Run) /\ Len(runs) \in Nat /\ jobs \in [1..MaxJobs -> Job]
  BY LenProperties DEF IInv, TypeOK
<1>2. /\ runs' \in Seq(Run) /\ Len(runs') <= MaxRuns
      /\ Grows(runs, runs') /\ EndedRuns(runs')
  BY RunsMoveKeeps DEF IInv, Shape
<1>3. /\ checks' \in Seq(Check) /\ Len(checks') <= MaxChecks
      /\ Len(checks') \in Nat /\ Len(checks) <= Len(checks')
      /\ \A k \in 1..Len(checks') : Earned(k, checks'[k], runs)
  BY ChecksMoveKeeps DEF IInv, Shape
<1>4. UNCHANGED <<live, plan, required, moves>> /\ faults' \in 0..MaxFaults
  BY DEF Shape
<1>5. PICK r \in Job : jobs' = [jobs EXCEPT ![j] = r] /\ GoodJob(r, Len(checks'), runs')
  BY DEF Shape, JobMoves
<1>6. jobs' \in [1..MaxJobs -> Job]
  BY <1>1, <1>5
<1>7. TypeOK'
  BY <1>2, <1>3, <1>4, <1>6 DEF IInv, TypeOK
<1>8. ASSUME NEW i \in 1..MaxJobs PROVE GoodJob(jobs'[i], Len(checks'), runs')
  <2>1. CASE i = j
    <3>1. jobs'[i] = r
      BY <1>1, <1>5, <2>1
    <3>2. QED
      BY <1>5, <3>1
  <2>2. CASE i # j
    <3>1. jobs'[i] = jobs[i]
      BY <1>1, <1>5, <2>2
    <3>2. GoodJob(jobs[i], Len(checks), runs)
      BY DEF IInv
    <3>3. GoodJob(jobs[i], Len(checks'), runs')
      BY <1>1, <1>2, <1>3, <3>2, GoodGrows
    <3>4. QED
      BY <3>1, <3>3
  <2>3. QED
    BY <2>1, <2>2
<1>9. ASSUME NEW k \in 1..Len(checks') PROVE Earned(k, checks[k], runs)'
  <2>1. checks'[k] \in Check /\ Earned(k, checks'[k], runs)
    BY <1>3, ElementOfSeq
  <2>2. Earned(k, checks'[k], runs')
    BY <1>1, <1>2, <2>1, EarnedGrows
  <2>3. QED
    BY <1>4, <2>2 DEF Earned, Active
<1>10. PassIsEarned'
  <2>1. required' \in {"read", "passed"} => Proven(runs)
    BY <1>4 DEF IInv, PassIsEarned
  <2>2. Proven(runs) => Proven(runs)'
    <3>1. \A n \in 1..Len(runs) : n \in 1..Len(runs')
      BY <1>1, <1>2, LenProperties DEF Grows
    <3>2. QED
      BY <1>2, <1>4, <3>1 DEF Proven, Grows
  <2>3. QED
    BY <2>1, <2>2 DEF PassIsEarned
<1>11. QED
  BY <1>2, <1>7, <1>8, <1>9, <1>10 DEF IInv, AllEarned

-----------------------------------------------------------------------------
(* The operations on checks and runs have this shape.                      *)

LEMMA FaultTyped == ASSUME TypeOK, Fault PROVE faults' \in 0..MaxFaults
BY PrGateAssumption DEF TypeOK, Fault

LEMMA ReadsShape ==
    ASSUME TypeOK, NEW j, NEW r, GoodJob(r, Len(checks), runs), Reads(j, r)
    PROVE  Shape(j)
<1>1. r \in Job
  BY DEF GoodJob, JobTyped
<1>2. /\ jobs' = [jobs EXCEPT ![j] = r] /\ checks' = checks /\ runs' = runs
      /\ UNCHANGED <<live, plan, required, moves>> /\ faults' = faults
  BY DEF Reads, Becomes
<1>3. JobMoves(j)
  BY <1>1, <1>2 DEF JobMoves
<1>4. faults' \in 0..MaxFaults
  BY <1>2 DEF TypeOK
<1>5. QED
  BY <1>2, <1>3, <1>4 DEF Shape, ChecksMove, RunsMove

LEMMA StopsShape ==
    ASSUME TypeOK, EndedRuns(runs), NEW j, NEW r, GoodJob(r, Len(checks), runs), Becomes(j, r),
           NEW S, runs' \in {runs, Stop(S)}, faults' \in 0..MaxFaults,
           UNCHANGED <<live, plan, checks, required, moves>>
    PROVE  Shape(j)
<1>1. r \in Job /\ jobs' = [jobs EXCEPT ![j] = r]
  BY DEF GoodJob, JobTyped, Becomes
<1>2. /\ runs \in Seq(Run) /\ Len(checks) \in Nat
  BY LenProperties DEF TypeOK
<1>3. runs' \in Seq(Run) /\ Grows(runs, runs')
  BY <1>2, GrowsItself, StopKeeps
<1>4. GoodJob(r, Len(checks), runs')
  BY <1>2, <1>3, GoodGrows
<1>5. JobMoves(j)
  BY <1>1, <1>4 DEF JobMoves
<1>6. QED
  BY <1>5 DEF Shape, ChecksMove, RunsMove

LEMMA PatchesShape ==
    ASSUME TypeOK, NEW j, NEW k \in 1..Len(checks), NEW c \in Check, Earned(k, c, runs),
           NEW good, GoodJob(good, Len(checks), runs),
           NEW bad, GoodJob(bad, Len(checks), runs),
           Patches(j, k, c, good, bad)
    PROVE  Shape(j)
<1>1. good \in Job /\ bad \in Job
  BY DEF GoodJob, JobTyped
<1>2. /\ checks \in Seq(Check)
      /\ Len([checks EXCEPT ![k] = c]) = Len(checks)
  BY ExceptSeq DEF TypeOK
<1>3. /\ runs' = runs /\ UNCHANGED <<live, plan, required, moves>>
      /\ checks' \in {checks, [checks EXCEPT ![k] = c]}
  BY DEF Patches
<1>4. Len(checks') = Len(checks) /\ ChecksMove
  BY <1>2, <1>3 DEF ChecksMove
<1>5. CASE Becomes(j, good) /\ UNCHANGED faults
  <2>1. JobMoves(j)
    BY <1>1, <1>3, <1>4, <1>5 DEF JobMoves, Becomes
  <2>2. faults' \in 0..MaxFaults
    BY <1>5 DEF TypeOK
  <2>3. QED
    BY <1>3, <1>4, <2>1, <2>2 DEF Shape, RunsMove
<1>6. CASE Becomes(j, bad) /\ Fault
  <2>1. JobMoves(j)
    BY <1>1, <1>3, <1>4, <1>6 DEF JobMoves, Becomes
  <2>2. QED
    BY <1>3, <1>4, <1>6, <2>1, FaultTyped DEF Shape, RunsMove
<1>7. QED
  BY <1>5, <1>6 DEF Patches

LEMMA CreatesShape ==
    ASSUME TypeOK, NEW j,
           NEW good, GoodJob(good, Len(checks) + 1, runs),
           NEW bad, GoodJob(bad, Len(checks), runs),
           Creates(j, good, bad)
    PROVE  Shape(j)
<1>1. good \in Job /\ bad \in Job
  BY DEF GoodJob, JobTyped
<1>2. /\ checks \in Seq(Check) /\ Len(checks) \in Nat /\ runs \in Seq(Run)
      /\ Len(Append(checks, Reserved)) = Len(checks) + 1
  BY ReservedTyped, AppendProperties, LenProperties DEF TypeOK
<1>3. /\ runs' = runs /\ UNCHANGED <<live, plan, required, moves>>
      /\ checks' \in {checks, Append(checks, Reserved)}
  BY DEF Creates
<1>4. Len(checks) < MaxChecks /\ ChecksMove
  BY <1>3 DEF ChecksMove, Creates
<1>5. CASE checks' = Append(checks, Reserved) /\ Becomes(j, good) /\ UNCHANGED faults
  <2>1. JobMoves(j)
    BY <1>1, <1>2, <1>3, <1>5 DEF JobMoves, Becomes
  <2>2. faults' \in 0..MaxFaults
    BY <1>5 DEF TypeOK
  <2>3. QED
    BY <1>3, <1>4, <2>1, <2>2 DEF Shape, RunsMove
<1>6. CASE Becomes(j, bad) /\ Fault
  <2>1. GoodJob(bad, Len(checks) + 1, runs)
    BY <1>2, GrowsItself, GoodGrows
  <2>2. GoodJob(bad, Len(checks'), runs')
    BY <1>2, <1>3, <2>1
  <2>3. JobMoves(j)
    BY <1>1, <1>6, <2>2 DEF JobMoves, Becomes
  <2>4. QED
    BY <1>3, <1>4, <1>6, <2>3, FaultTyped DEF Shape, RunsMove
<1>7. QED
  BY <1>5, <1>6 DEF Creates

-----------------------------------------------------------------------------
(* What a job may become.                                                  *)

LEMMA Known ==
    ASSUME IInv, NEW j \in 1..MaxJobs
    PROVE  /\ TypeOK /\ jobs[j] \in Job /\ GoodJob(jobs[j], Len(checks), runs)
           /\ Len(checks) \in Nat /\ Len(runs) \in Nat /\ EndedRuns(runs)
           /\ \A k \in 1..Len(checks) : checks[k] \in Check
           /\ \A k \in 1..Len(runs) : runs[k] \in Run
BY LenProperties, ElementOfSeq DEF IInv, TypeOK

\* A phase that says nothing about a child run.
Plain(pc) == pc \notin Linked /\ pc \notin Searching

\* A job that holds nothing.
LEMMA EmptyGood ==
    ASSUME NEW r \in Job, r.check = 0, r.source = 0, r.seen = 0, r.open = {}, r.targets = {},
           r.pc \notin Holding, NEW n \in Nat, NEW rs
    PROVE  GoodJob(r, n, rs)
<1>1. Plain(r.pc) /\ r.pc \notin Judged /\ r.pc # "adopt"
  BY DEF Plain, Holding, Linked, Searching, Judged
<1>2. JobTyped(r, n)
  BY DEF JobTyped
<1>3. QED
  BY <1>1, <1>2 DEF GoodJob, Knows, Plain

LEMMA IdleTyped == Idle \in Job
BY ReservedTyped DEF Idle, Job, Conclusions, Reasons, Kinds, Phases

\* An edit to a plain phase.
LEMMA PlainGood ==
    ASSUME NEW s \in Job, NEW n \in Nat, NEW rs, JobTyped(s, n), Plain(s.pc),
           s.pc \in Holding => s.check # 0
    PROVE  GoodJob(s, n, rs)
<1>1. s.pc \notin Judged /\ s.pc # "adopt"
  BY DEF Plain, Linked, Searching, Judged
<1>2. QED
  BY <1>1 DEF GoodJob, Knows, Plain

LEMMA GoesGood ==
    ASSUME NEW j, jobs[j] \in Job, NEW n \in Nat, NEW rs, GoodJob(jobs[j], n, rs),
           NEW pc \in Phases, Plain(pc), pc \in Holding => jobs[j].check # 0
    PROVE  GoodJob(Goes(j, pc), n, rs)
<1>1. CASE pc \in {"done", "vanished"}
  <2> DEFINE r == Goes(j, pc)
  <2>1. r = [Idle EXCEPT !.pc = pc]
    BY <1>1 DEF Goes
  <2>2. r \in Job /\ r.pc = pc
    BY <2>1, IdleTyped DEF Job
  <2>3. r.check = 0 /\ r.source = 0 /\ r.seen = 0 /\ r.open = {} /\ r.targets = {}
    BY <2>1 DEF Idle
  <2>4. pc \notin Holding
    BY <1>1 DEF Holding
  <2> HIDE DEF r
  <2>5. GoodJob(r, n, rs)
    BY <2>2, <2>3, <2>4, EmptyGood
  <2>6. QED
    BY <2>5 DEF r
<1>2. CASE pc \notin {"done", "vanished"}
  <2>1. Goes(j, pc) = [jobs[j] EXCEPT !.pc = pc]
    BY <1>2 DEF Goes
  <2>2. Goes(j, pc) \in Job /\ Goes(j, pc).pc = pc /\ Goes(j, pc).check = jobs[j].check
    BY <2>1 DEF Job
  <2>3. JobTyped(Goes(j, pc), n)
    BY <2>1, <2>2 DEF GoodJob, JobTyped, Job
  <2>4. QED
    BY <2>2, <2>3, PlainGood
<1>3. QED
  BY <1>1, <1>2

\* A job that gives a check up goes on in a plain phase.
LEMMA FinalGood ==
    ASSUME NEW s, NEW n \in Nat, NEW rs, GoodJob(s, n, rs), Plain(s.pc)
    PROVE  GoodJob(Final(s), n, rs)
<1>1. s \in Job /\ s.check \in 0..n /\ s.source \in 0..n /\ s.seen \in 0..n
  BY DEF GoodJob, JobTyped
<1>2. /\ Final(s) \in Job /\ Final(s).pc = s.pc /\ Final(s).check = s.check
      /\ Final(s).source = s.source /\ Final(s).seen = s.seen
      /\ Final(s).open \subseteq s.open /\ Final(s).targets = s.targets
  BY <1>1 DEF Final, Job, Conclusions, Reasons
<1>3. JobTyped(Final(s), n)
  BY <1>1, <1>2 DEF GoodJob, JobTyped
<1>4. QED
  BY <1>2, <1>3, PlainGood DEF GoodJob, Knows

\* What the controller writes into a check.
LEMMA StartedTyped ==
    ASSUME NEW c \in Check, NEW phase \in ActivePhases
    PROVE  Started(c, phase) \in Check /\ Active(Started(c, phase))
<1>1. phase # "closed"
  BY DEF ActivePhases
<1>2. QED
  BY <1>1 DEF Started, Check, Active, Conclusions, Reasons

LEMMA ClosedTyped ==
    ASSUME NEW c \in Check, NEW conclusion \in Conclusions, NEW retry \in Reasons,
           NEW run \in Nat, NEW lost \in Nat
    PROVE  /\ Closed(c, conclusion, retry, run, lost) \in Check
           /\ Closed(c, conclusion, retry, run, lost).conclusion = conclusion
           /\ run # 0 => Closed(c, conclusion, retry, run, lost).run = run
BY DEF Closed, Check

LEMMA ActiveEarned == ASSUME NEW k, NEW c, NEW rs, Active(c) PROVE Earned(k, c, rs)
BY DEF Earned

LEMMA OtherEarned ==
    ASSUME NEW k, NEW c, NEW rs, c.conclusion # "success" PROVE Earned(k, c, rs)
BY DEF Earned

\* A check that is started, or closed otherwise than as a success.
LEMMA StartsShape ==
    ASSUME IInv, NEW j \in 1..MaxJobs, NEW k \in 1..Len(checks), NEW phase \in ActivePhases,
           NEW good, GoodJob(good, Len(checks), runs),
           NEW bad, GoodJob(bad, Len(checks), runs),
           Patches(j, k, Started(checks[k], phase), good, bad)
    PROVE  Shape(j)
BY Known, StartedTyped, ActiveEarned, PatchesShape

LEMMA ClosesShape ==
    ASSUME IInv, NEW j \in 1..MaxJobs, NEW k \in 1..Len(checks),
           NEW conclusion \in Conclusions \ {"success"}, NEW retry \in Reasons,
           NEW run \in Nat, NEW lost \in Nat,
           NEW good, GoodJob(good, Len(checks), runs),
           NEW bad, GoodJob(bad, Len(checks), runs),
           Patches(j, k, Closed(checks[k], conclusion, retry, run, lost), good, bad)
    PROVE  Shape(j)
<1> DEFINE c == Closed(checks[k], conclusion, retry, run, lost)
<1>1. c \in Check /\ c.conclusion # "success"
  <2>1. checks[k] \in Check /\ conclusion \in Conclusions
    BY Known
  <2>2. c \in Check /\ c.conclusion = conclusion
    BY <2>1, ClosedTyped
  <2>3. QED
    BY <2>2
<1> HIDE DEF c
<1>2. Earned(k, c, runs) /\ Patches(j, k, c, good, bad)
  BY <1>1, OtherEarned DEF c
<1>3. QED
  BY <1>1, <1>2, Known, PatchesShape

-----------------------------------------------------------------------------
(* The steps of the jobs.                                                  *)

LEMMA GoesTo ==
    ASSUME IInv, NEW j \in 1..MaxJobs, NEW pc \in Phases, Plain(pc),
           jobs[j].pc \in Holding \/ pc \notin Holding
    PROVE  GoodJob(Goes(j, pc), Len(checks), runs)
<1>1. jobs[j].pc \in Holding => jobs[j].check # 0
  BY Known DEF GoodJob, Knows
<1>2. QED
  BY <1>1, Known, GoesGood

LEMMA BeginsShape ==
    ASSUME IInv, NEW j \in 1..MaxJobs, Begin(j)
    PROVE  Shape(j)
<1>1. CASE BeginSeed(j)
  <2> DEFINE r == Begun("seed", "live")
  <2>1. r \in Job
    BY IdleTyped DEF Begun, Job, Kinds, Phases
  <2>2. /\ r.check = 0 /\ r.source = 0 /\ r.seen = 0 /\ r.open = {} /\ r.targets = {}
        /\ r.pc \notin Holding
    BY DEF Begun, Idle, Holding
  <2> HIDE DEF r
  <2>3. GoodJob(r, Len(checks), runs)
    BY <2>1, <2>2, Known, EmptyGood
  <2>4. Reads(j, r)
    BY <1>1 DEF BeginSeed, r
  <2>5. QED
    BY <2>3, <2>4, Known, ReadsShape
<1>2. CASE BeginApprove(j)
  <2>1. CASE Reads(j, Goes(j, "done"))
    <3>1. GoodJob(Goes(j, "done"), Len(checks), runs)
      BY GoesTo DEF Plain, Phases, Holding, Linked, Searching
    <3>2. QED
      BY <2>1, <3>1, Known, ReadsShape
  <2>2. CASE /\ Len(checks) > 0
             /\ Reads(j, [Begun("approve", "approve") EXCEPT !.check = Len(checks),
                                                            !.open = {Len(checks)}])
    <3> DEFINE r == [Begun("approve", "approve") EXCEPT !.check = Len(checks),
                                                        !.open = {Len(checks)}]
    <3>1. r \in Job
      BY IdleTyped, Known DEF Begun, Job, Kinds, Phases
    <3>2. /\ r.check = Len(checks) /\ r.source = 0 /\ r.seen = 0 /\ r.targets = {}
          /\ r.open = {Len(checks)} /\ r.pc = "approve"
      BY DEF Begun, Idle
    <3> HIDE DEF r
    <3>3. JobTyped(r, Len(checks)) /\ Plain(r.pc) /\ r.check # 0
      BY <2>2, <3>1, <3>2, Known DEF JobTyped, Plain, Linked, Searching
    <3>4. GoodJob(r, Len(checks), runs)
      BY <3>1, <3>3, Known, PlainGood
    <3>5. Reads(j, r)
      BY <2>2 DEF r
    <3>6. QED
      BY <3>4, <3>5, Known, ReadsShape
  <2>3. QED
    BY <1>2, <2>1, <2>2 DEF BeginApprove
<1>3. CASE BeginCancel(j)
  <2>1. PICK targets \in SUBSET (1..Len(checks)) :
          Reads(j, [Begun("cancel", "cancel_runs") EXCEPT !.targets = targets])
    BY <1>3 DEF BeginCancel
  <2> DEFINE r == [Begun("cancel", "cancel_runs") EXCEPT !.targets = targets]
  <2>2. r \in Job
    <3>1. targets \in SUBSET Nat
      BY Known
    <3>2. QED
      BY <3>1, IdleTyped DEF Begun, Job, Kinds, Phases
  <2>3. /\ r.check = 0 /\ r.source = 0 /\ r.seen = 0 /\ r.targets = targets
        /\ r.open = {} /\ r.pc = "cancel_runs"
    BY DEF Begun, Idle
  <2> HIDE DEF r
  <2>4. JobTyped(r, Len(checks)) /\ Plain(r.pc) /\ r.pc \notin Holding
    BY <2>2, <2>3, Known DEF JobTyped, Plain, Holding, Linked, Searching
  <2>5. GoodJob(r, Len(checks), runs)
    BY <2>2, <2>4, Known, PlainGood
  <2>6. Reads(j, r)
    BY <2>1 DEF r
  <2>7. QED
    BY <2>5, <2>6, Known, ReadsShape
<1>4. CASE \E ci \in BOOLEAN : BeginCoordinate(j, ci)
  <2>1. PICK ci \in BOOLEAN : BeginCoordinate(j, ci)
    BY <1>4
  <2> DEFINE n == Len(checks)
             was == IF n = 0 THEN Reserved ELSE checks[n]
             r == [Begun("coordinate", "live") EXCEPT !.ci = ci, !.seen = n, !.was = was]
  <2>2. was \in Check /\ n \in Nat
    BY ReservedTyped, Known
  <2> HIDE DEF was
  <2>3. r \in Job
    BY <2>2, IdleTyped DEF Begun, Job, Kinds, Phases
  <2>4. /\ r.check = 0 /\ r.source = 0 /\ r.seen = n /\ r.targets = {}
        /\ r.open = {} /\ r.pc = "live"
    BY DEF Begun, Idle
  <2> HIDE DEF r
  <2>5. JobTyped(r, n) /\ Plain(r.pc) /\ r.pc \notin Holding
    BY <2>2, <2>3, <2>4 DEF JobTyped, Plain, Holding, Linked, Searching
  <2>6. GoodJob(r, n, runs)
    BY <2>2, <2>3, <2>5, PlainGood
  <2>7. GoodJob(Goes(j, "done"), n, runs)
    BY GoesTo DEF Plain, Phases, Holding, Linked, Searching
  <2>8. Reads(j, r) \/ Reads(j, Goes(j, "done"))
    BY <2>1 DEF BeginCoordinate, r, was
  <2>9. QED
    BY <2>6, <2>7, <2>8, Known, ReadsShape
<1>5. QED
  BY <1>1, <1>2, <1>3, <1>4 DEF Begin

\* The first steps of seed and coordinate.
LEMMA StartsOk ==
    ASSUME IInv, NEW j \in 1..MaxJobs,
           SeedLive(j) \/ CoordinateLive(j) \/ Ensure(j) \/ Create(j) \/ Mark(j)
    PROVE  Shape(j)
<1> DEFINE r == jobs[j]
           n == Len(checks)
<1>1. r \in Job /\ GoodJob(r, n, runs) /\ n \in Nat
  BY Known
<1>2. \A pc \in {"ensure", "done", "cleanup", "create"} : GoodJob(Goes(j, pc), n, runs)
  BY GoesTo DEF Plain, Phases, Holding, Linked, Searching
<1>3. CASE SeedLive(j)
  <2>1. Reads(j, Goes(j, "ensure")) \/ Reads(j, Goes(j, "done"))
    BY <1>3 DEF SeedLive
  <2>2. QED
    BY <1>2, <2>1, Known, ReadsShape
<1>4. CASE CoordinateLive(j)
  <2> DEFINE gone == [r EXCEPT !.open = {r.seen}, !.pc = "cleanup"]
             open == IF r.seen # 0 /\ Active(r.was) THEN {r.seen} ELSE {}
             went == [r EXCEPT !.open = open, !.seen = 0, !.was = Reserved, !.pc = "ensure"]
  <2>1. r.seen \in 0..n /\ JobTyped(r, n)
    BY <1>1 DEF GoodJob, JobTyped
  <2>2. CASE /\ r.seen # 0
             /\ Patches(j, r.seen, Closed(checks[r.seen], "cancelled", "none", 0, 0),
                        Goes(j, "done"), gone)
    <3>1. r.seen \in 1..n
      BY <1>1, <2>1, <2>2
    <3>2. gone \in Job /\ gone.pc = "cleanup"
      BY <1>1, <3>1 DEF Job, Phases
    <3>3. JobTyped(gone, n)
      BY <2>1, <3>1, <3>2 DEF JobTyped, Job
    <3>4. Plain(gone.pc) /\ gone.pc \notin Holding
      BY <3>2 DEF Plain, Holding, Linked, Searching
    <3> HIDE DEF gone
    <3>5. GoodJob(gone, n, runs)
      BY <1>1, <3>2, <3>3, <3>4, PlainGood
    <3>6. "cancelled" \in Conclusions \ {"success"} /\ "none" \in Reasons
      BY DEF Conclusions, Reasons
    <3>7. QED
      BY <1>2, <2>2, <3>1, <3>5, <3>6, ClosesShape
  <2>3. CASE Reads(j, went)
    <3>1. open \subseteq 1..n /\ open \in SUBSET Nat
      BY <1>1, <2>1
    <3> HIDE DEF open
    <3>2. went \in Job /\ went.pc = "ensure"
      BY <1>1, <3>1, ReservedTyped DEF Job, Phases
    <3>3. /\ went.check = r.check /\ went.source = r.source /\ went.seen = 0
          /\ went.open = open /\ went.targets = r.targets
      BY <1>1 DEF Job
    <3>4. JobTyped(went, n)
      BY <1>1, <2>1, <3>1, <3>2, <3>3 DEF JobTyped
    <3>5. Plain(went.pc) /\ went.pc \notin Holding
      BY <3>2 DEF Plain, Holding, Linked, Searching
    <3> HIDE DEF went
    <3>6. GoodJob(went, n, runs)
      BY <1>1, <3>2, <3>4, <3>5, PlainGood
    <3>7. QED
      BY <2>3, <3>6, Known, ReadsShape
  <2>4. CASE Reads(j, Goes(j, "done"))
    BY <1>2, <2>4, Known, ReadsShape
  <2>5. QED
    BY <1>4, <2>2, <2>3, <2>4 DEF CoordinateLive
<1>5. ASSUME NEW k \in 1..n + 1
      PROVE  GoodJob(Takes(j, k), n + 1, runs) /\ (k <= n => GoodJob(Takes(j, k), n, runs))
  <2> DEFINE s == [r EXCEPT !.check = k, !.open = {k}, !.pc = "mark"]
  <2>1. JobTyped(r, n)
    BY <1>1 DEF GoodJob
  <2>2. k \in Nat /\ {k} \in SUBSET Nat
    BY <1>1, <1>5
  <2>3. /\ s \in Job /\ s.pc = "mark" /\ s.check = k /\ s.open = {k}
        /\ s.source = r.source /\ s.seen = r.seen /\ s.targets = r.targets
    BY <1>1, <2>2 DEF Job, Phases
  <2>4. JobTyped(s, n + 1) /\ (k <= n => JobTyped(s, n))
    <3> HIDE DEF s
    <3>1. QED
      BY <1>1, <1>5, <2>1, <2>2, <2>3 DEF JobTyped
  <2>5. Plain(s.pc) /\ s.check # 0
    BY <1>1, <1>5, <2>3 DEF Plain, Linked, Searching
  <2>6. CASE Takes(j, k) = s
    <3> HIDE DEF s
    <3>1. QED
      BY <1>1, <2>3, <2>4, <2>5, <2>6, PlainGood
  <2>7. CASE Takes(j, k) = Goes(j, "done")
    <3>1. GoodJob(Goes(j, "done"), n, runs) /\ runs \in Seq(Run)
      BY <1>2, Known DEF TypeOK
    <3>2. GoodJob(Goes(j, "done"), n + 1, runs)
      BY <1>1, <3>1, GrowsItself, GoodGrows
    <3>3. QED
      BY <2>7, <3>1, <3>2
  <2>8. QED
    BY <2>6, <2>7 DEF Takes
<1>6. CASE Ensure(j)
  <2>1. \/ Reads(j, Goes(j, "cleanup")) \/ Reads(j, Goes(j, "create"))
        \/ n > 0 /\ Reads(j, Takes(j, n))
    BY <1>6 DEF Ensure
  <2>2. n > 0 => GoodJob(Takes(j, n), n, runs)
    BY <1>1, <1>5
  <2>3. QED
    BY <1>2, <2>1, <2>2, Known, ReadsShape
<1>7. CASE Create(j)
  <2>1. GoodJob(Takes(j, n + 1), n + 1, runs)
    BY <1>1, <1>5
  <2>2. QED
    BY <1>2, <1>7, <2>1, Known, CreatesShape DEF Create
<1>8. CASE Mark(j)
  <2>1. r.check \in 1..n
    BY <1>1, <1>8 DEF GoodJob, JobTyped, Knows, Mark, At, Holding
  <2>2. GoodJob(Goes(j, "evaluate"), n, runs)
    BY <1>8, GoesTo DEF Plain, Phases, Holding, Linked, Searching, Mark, At
  <2>3. "evaluating" \in ActivePhases
    BY DEF ActivePhases
  <2>4. QED
    BY <1>2, <1>8, <2>1, <2>2, <2>3, StartsShape DEF Mark
<1>9. QED
  BY <1>3, <1>4, <1>6, <1>7, <1>8

\* A job at work has its check, and can give its run up.
LEMMA AtWork ==
    ASSUME IInv, NEW j \in 1..MaxJobs, jobs[j].pc \in Holding
    PROVE  /\ jobs[j].check \in 1..Len(checks) /\ jobs[j].check \in Nat
           /\ checks[jobs[j].check] \in Check
           /\ \A pc \in Phases : Plain(pc) => GoodJob(Goes(j, pc), Len(checks), runs)
<1>1. jobs[j].check \in 1..Len(checks)
  BY Known DEF GoodJob, JobTyped, Knows
<1>2. QED
  BY <1>1, Known, GoesTo

\* What an edited job keeps.
Kept(s, r) ==
    /\ s \in Job /\ s.check = r.check /\ s.source = r.source /\ s.seen = r.seen
    /\ s.open = r.open /\ s.targets = r.targets

LEMMA EditGood ==
    ASSUME NEW r, NEW s, NEW n \in Nat, NEW rs, GoodJob(r, n, rs), r.pc \in Holding,
           Kept(s, r), Plain(s.pc)
    PROVE  GoodJob(s, n, rs)
<1>1. JobTyped(s, n) /\ s \in Job /\ s.check # 0
  BY DEF GoodJob, JobTyped, Knows, Kept
<1>2. QED
  BY <1>1, PlainGood

LEMMA LinkedGood ==
    ASSUME NEW r, NEW s, NEW n \in Nat, NEW rs, GoodJob(r, n, rs), r.pc \in Holding,
           Kept(s, r), s.pc \in Linked, s.run \in 1..Len(rs), rs[s.run].check = r.check,
           s.pc \in Judged /\ s.conclusion = "success" => rs[s.run].result = "success"
    PROVE  GoodJob(s, n, rs)
<1>1. JobTyped(s, n) /\ s.check # 0 /\ s.check = r.check
  BY DEF GoodJob, JobTyped, Knows, Kept
<1>2. s.pc \notin Searching /\ s.pc # "adopt"
  BY DEF Linked, Searching
<1>3. QED
  BY <1>1, <1>2 DEF GoodJob, Knows

\* From the evaluation to the dispatch.
LEMMA EvaluatesOk ==
    ASSUME IInv, NEW j \in 1..MaxJobs,
           Evaluate(j) \/ Conclude(j) \/ Approve(j) \/ Authorize(j) \/ Restore(j) \/ Recheck(j)
    PROVE  Shape(j)
<1> DEFINE r == jobs[j]
           k == r.check
           n == Len(checks)
<1>1. r.pc \in Holding
  BY DEF Evaluate, Conclude, Approve, Authorize, Restore, Recheck, At, Holding
<1>2. /\ k \in 1..n /\ checks[k] \in Check
      /\ r \in Job /\ GoodJob(r, n, runs) /\ n \in Nat /\ TypeOK
  BY <1>1, AtWork, Known
<1>3. \A pc \in {"done", "fail", "recheck", "conclude", "authorize", "restore", "cleanup",
                 "post"} : pc \in Phases /\ Plain(pc)
  BY DEF Phases, Plain, Linked, Searching
<1>4. \A pc \in {"done", "fail", "recheck", "conclude", "authorize", "restore", "cleanup",
                 "post"} : GoodJob(Goes(j, pc), n, runs)
  BY <1>1, <1>3, AtWork
<1>5. Goes(j, "done").pc = "done"
  BY IdleTyped DEF Goes, Job
<1>6. GoodJob(Final(Goes(j, "done")), n, runs)
  BY <1>2, <1>3, <1>4, <1>5, FinalGood
<1>7. {"awaiting", "authorized"} \subseteq ActivePhases /\ "failure" \in Conclusions \ {"success"}
      /\ {"none", "prerequisite-ci"} \subseteq Reasons /\ "success" \in Conclusions
  BY DEF ActivePhases, Conclusions, Reasons
<1>8. CASE Evaluate(j)
  <2>1. \/ Patches(j, k, Closed(checks[k], "failure", "prerequisite-ci", 0, 0),
                   Final(Goes(j, "done")), Goes(j, "fail"))
        \/ \E pc \in {"fail", "recheck", "conclude"} : Reads(j, Goes(j, pc))
    BY <1>8 DEF Evaluate
  <2>2. CASE Patches(j, k, Closed(checks[k], "failure", "prerequisite-ci", 0, 0),
                     Final(Goes(j, "done")), Goes(j, "fail"))
    BY <1>2, <1>4, <1>6, <1>7, <2>2, ClosesShape
  <2>3. CASE \E pc \in {"fail", "recheck", "conclude"} : Reads(j, Goes(j, pc))
    BY <1>2, <1>4, <2>3, ReadsShape
  <2>4. QED
    BY <2>1, <2>2, <2>3
<1>9. CASE Conclude(j)
  <2>1. CASE plan = "none"
    <3> DEFINE c == Closed(checks[k], "success", "none", 0, 0)
    <3>1. c \in Check
      BY <1>2, <1>7, ClosedTyped
    <3>2. Patches(j, k, c, Final(Goes(j, "done")), Goes(j, "fail"))
      BY <1>9, <2>1 DEF Conclude
    <3> HIDE DEF c
    <3>3. Earned(k, c, runs)
      BY <2>1 DEF Earned
    <3>4. QED
      BY <1>2, <1>4, <1>6, <3>1, <3>2, <3>3, PatchesShape
  <2>2. CASE plan # "none"
    <3>1. Patches(j, k, Started(checks[k], "awaiting"), Final(Goes(j, "done")), Goes(j, "fail"))
      BY <1>9, <2>2 DEF Conclude
    <3>2. QED
      BY <1>2, <1>4, <1>6, <1>7, <3>1, StartsShape
  <2>3. QED
    BY <2>1, <2>2
<1>10. CASE Approve(j)
  <2>1. \E pc \in {"authorize", "restore"} : Reads(j, Goes(j, pc))
    BY <1>10 DEF Approve
  <2>2. QED
    BY <1>2, <1>4, <2>1, ReadsShape
<1>11. CASE Authorize(j)
  <2>1. Patches(j, k, Started(checks[k], "authorized"), Goes(j, "recheck"), Goes(j, "restore"))
    BY <1>11 DEF Authorize
  <2>2. QED
    BY <1>2, <1>4, <1>7, <2>1, StartsShape
<1>12. CASE Restore(j)
  <2>1. Patches(j, k, Started(checks[k], "awaiting"), Final(Goes(j, "done")),
                Goes(j, "cleanup"))
    BY <1>12 DEF Restore
  <2>2. QED
    BY <1>2, <1>4, <1>6, <1>7, <2>1, StartsShape
<1>13. CASE Recheck(j)
  <2>1. \E pc \in {"restore", "fail", "post"} : Reads(j, Goes(j, pc))
    BY <1>13 DEF Recheck, OnError
  <2>2. QED
    BY <1>2, <1>4, <2>1, ReadsShape
<1>14. QED
  BY <1>8, <1>9, <1>10, <1>11, <1>12, <1>13

LEMMA SearchingGood ==
    ASSUME NEW r, NEW s, NEW n \in Nat, NEW rs, GoodJob(r, n, rs), r.pc \in Holding,
           Kept(s, r), s.pc \in Searching, s.pc = "adopt" => s.lost # 0,
           s.lost # 0 => s.lost \in 1..Len(rs) /\ rs[s.lost].check = r.check
    PROVE  GoodJob(s, n, rs)
<1>1. JobTyped(s, n) /\ s.check # 0 /\ s.check = r.check
  BY DEF GoodJob, JobTyped, Knows, Kept
<1>2. s.pc \notin Linked /\ s.pc \notin Judged
  BY DEF Linked, Searching, Judged
<1>3. QED
  BY <1>1, <1>2 DEF GoodJob, Knows

\* The dispatch of a run, whether it is answered or not.
LEMMA PostOk ==
    ASSUME IInv, NEW j \in 1..MaxJobs, Post(j)
    PROVE  Shape(j)
<1> DEFINE r == jobs[j]
           n == Len(checks)
           m == Len(runs) + 1
           new(v) == Append(runs, NewRun(r.check, v))
           published == [r EXCEPT !.run = m, !.pc = "publish"]
           unknown == [r EXCEPT !.lost = 0, !.pc = "reconcile"]
           lost == [r EXCEPT !.lost = m, !.pc = "reconcile"]
<1>1. r.pc \in Holding
  BY DEF Post, At, Holding
<1>2. /\ r.check \in 1..n /\ r.check \in Nat /\ r \in Job /\ GoodJob(r, n, runs) /\ n \in Nat
      /\ TypeOK /\ runs \in Seq(Run) /\ Len(runs) \in Nat /\ EndedRuns(runs) /\ m \in Nat
  BY <1>1, AtWork, Known DEF TypeOK
<1>3. UNCHANGED <<live, plan, required, moves>> /\ checks' = checks /\ Len(runs) < MaxRuns
  BY DEF Post
<1>4. ASSUME NEW v \in BOOLEAN
      PROVE  /\ new(v) \in Seq(Run) /\ Len(new(v)) = m /\ new(v)[m].check = r.check
             /\ GoodJob(r, n, new(v))
  <2>1. /\ new(v) \in Seq(Run) /\ Len(new(v)) = m /\ new(v)[m].check = r.check
        /\ Grows(runs, new(v))
    BY <1>2, DispatchKeeps
  <2> HIDE DEF new
  <2>2. QED
    BY <1>2, <2>1, GoodGrows
<1>5. /\ Kept(published, r) /\ published.pc = "publish" /\ published.run = m
      /\ Kept(lost, r) /\ lost.pc = "reconcile" /\ lost.lost = m
      /\ Kept(unknown, r) /\ unknown.pc = "reconcile" /\ unknown.lost = 0
  BY <1>2 DEF Kept, Job, Phases
<1>6. published \in Job /\ lost \in Job /\ unknown \in Job
  BY <1>5 DEF Kept
<1>7. ASSUME NEW v \in BOOLEAN
      PROVE  GoodJob(published, n, new(v)) /\ GoodJob(lost, n, new(v))
  <2> HIDE DEF new, published, lost
  <2>1. m \in 1..Len(new(v))
    BY <1>2, <1>4
  <2>2. "publish" \in Linked /\ "publish" \notin Judged /\ "reconcile" \in Searching
    BY DEF Linked, Judged, Searching
  <2>3. GoodJob(published, n, new(v))
    BY <1>1, <1>2, <1>4, <1>5, <2>1, <2>2, LinkedGood
  <2>4. GoodJob(lost, n, new(v))
    BY <1>1, <1>2, <1>4, <1>5, <2>1, <2>2, SearchingGood
  <2>5. QED
    BY <2>3, <2>4
<1>8. GoodJob(unknown, n, runs)
  <2> HIDE DEF unknown
  <2>1. unknown.pc \in Searching /\ unknown.pc # "adopt"
    BY <1>5 DEF Searching
  <2>2. QED
    BY <1>1, <1>2, <1>5, <2>1, SearchingGood
<1>9. GoodJob(Goes(j, OnError(r)), n, runs) /\ Goes(j, OnError(r)) \in Job
  <2>1. OnError(r) \in Phases /\ Plain(OnError(r))
    BY DEF OnError, Phases, Plain, Linked, Searching
  <2>2. GoodJob(Goes(j, OnError(r)), n, runs)
    BY <1>1, <2>1, AtWork
  <2>3. QED
    BY <2>2 DEF GoodJob, JobTyped
<1>10. \/ faults' = faults /\ runs' = new(TRUE) /\ Becomes(j, published)
       \/ Fault /\ runs' = runs /\ Becomes(j, Goes(j, OnError(r)))
       \/ Fault /\ runs' = runs /\ Becomes(j, unknown)
       \/ \E v \in BOOLEAN : Fault /\ runs' = new(v) /\ Becomes(j, lost)
  BY DEF Post
<1>11. faults' \in 0..MaxFaults
  <2>1. faults' = faults \/ Fault
    BY <1>10
  <2>2. QED
    BY <1>2, <2>1, FaultTyped DEF TypeOK
<1>12. RunsMove
  <2>1. runs' = runs \/ \E v \in BOOLEAN : runs' = Append(runs, NewRun(r.check, v))
    BY <1>10
  <2>2. QED
    BY <1>2, <1>3, <2>1 DEF RunsMove
<1>13. JobMoves(j)
  <2> HIDE DEF published, unknown, lost, new
  <2>1. CASE runs' = new(TRUE) /\ Becomes(j, published)
    <3>1. GoodJob(published, Len(checks'), runs')
      BY <1>3, <1>7, <2>1
    <3>2. QED
      BY <1>6, <2>1, <3>1 DEF JobMoves, Becomes
  <2>2. CASE runs' = runs /\ Becomes(j, Goes(j, OnError(r)))
    <3>1. GoodJob(Goes(j, OnError(r)), Len(checks'), runs')
      BY <1>3, <1>9, <2>2
    <3>2. QED
      BY <1>9, <2>2, <3>1 DEF JobMoves, Becomes
  <2>3. CASE runs' = runs /\ Becomes(j, unknown)
    <3>1. GoodJob(unknown, Len(checks'), runs')
      BY <1>3, <1>8, <2>3
    <3>2. QED
      BY <1>6, <2>3, <3>1 DEF JobMoves, Becomes
  <2>4. CASE \E v \in BOOLEAN : runs' = new(v) /\ Becomes(j, lost)
    <3>1. GoodJob(lost, Len(checks'), runs')
      BY <1>3, <1>7, <2>4
    <3>2. QED
      BY <1>6, <2>4, <3>1 DEF JobMoves, Becomes
  <2>5. QED
    BY <1>10, <2>1, <2>2, <2>3, <2>4
<1>14. QED
  BY <1>3, <1>11, <1>12, <1>13 DEF Shape, ChecksMove

\* The steps that look for a run, authorise it, or take that back.
LEMMA RunStepsOk ==
    ASSUME IInv, NEW j \in 1..MaxJobs,
           Reconcile(j) \/ Adopt(j) \/ Publish(j) \/ Revoke(j) \/ CancelChild(j) \/ Wait(j)
    PROVE  Shape(j)
<1> DEFINE r == jobs[j]
           k == r.check
           n == Len(checks)
<1>1. r.pc \in Holding
  BY DEF Reconcile, Adopt, Publish, Revoke, CancelChild, Wait, At, Holding
<1>2. /\ k \in 1..n /\ checks[k] \in Check /\ r.run \in Nat /\ faults \in 0..MaxFaults
      /\ r \in Job /\ GoodJob(r, n, runs) /\ n \in Nat /\ TypeOK /\ EndedRuns(runs)
  BY <1>1, AtWork, Known DEF Job, TypeOK
<1>3. \A pc \in {"revoke", "cancel_child", "fail"} : GoodJob(Goes(j, pc), n, runs)
  <2>1. \A pc \in {"revoke", "cancel_child", "fail"} : pc \in Phases /\ Plain(pc)
    BY DEF Phases, Plain, Linked, Searching
  <2>2. QED
    BY <1>1, <2>1, AtWork
<1>4. CASE Reconcile(j)
  <2> DEFINE failed == [r EXCEPT !.retry = "dispatch-not-observed", !.pc = "fail"]
             found == [r EXCEPT !.pc = "adopt"]
  <2>1. Kept(failed, r) /\ failed.pc = "fail"
    BY <1>2 DEF Kept, Job, Phases, Reasons
  <2>2. Kept(found, r) /\ found.pc = "adopt" /\ found.lost = r.lost
    BY <1>2 DEF Kept, Job, Phases
  <2>3. Goes(j, "adopt") = found
    BY DEF Goes
  <2> HIDE DEF failed, found
  <2>4. GoodJob(failed, n, runs)
    <3>1. Plain(failed.pc)
      BY <2>1 DEF Plain, Linked, Searching
    <3>2. QED
      BY <1>1, <1>2, <2>1, <3>1, EditGood
  <2>5. r.lost # 0 => GoodJob(found, n, runs)
    <3>1. "adopt" \in Searching
      BY DEF Searching
    <3>2. r.lost # 0 => r.lost \in 1..Len(runs) /\ runs[r.lost].check = r.check
      BY <1>2, <1>4 DEF GoodJob, Knows, Reconcile, At, Searching
    <3>3. QED
      BY <1>1, <1>2, <2>2, <3>1, <3>2, SearchingGood
  <2>6. (r.lost # 0 /\ Reads(j, Goes(j, "adopt"))) \/ Reads(j, failed)
    BY <1>4 DEF Reconcile, failed
  <2>7. QED
    BY <1>2, <2>3, <2>4, <2>5, <2>6, ReadsShape
<1>5. CASE Adopt(j)
  <2>1. PICK pc \in {"publish", "cancel_child"} :
          Reads(j, [r EXCEPT !.run = r.lost, !.lost = 0, !.pc = pc])
    BY <1>5 DEF Adopt
  <2> DEFINE s == [r EXCEPT !.run = r.lost, !.lost = 0, !.pc = pc]
  <2>2. Kept(s, r) /\ s.pc = pc /\ s.run = r.lost
    BY <1>2 DEF Kept, Job, Phases
  <2>3. r.lost \in 1..Len(runs) /\ runs[r.lost].check = r.check
    BY <1>2, <1>5 DEF GoodJob, Knows, Adopt, At, Searching
  <2> HIDE DEF s
  <2>4. CASE pc = "publish"
    <3>1. pc \in Linked /\ pc \notin Judged
      BY <2>4 DEF Linked, Judged
    <3>2. GoodJob(s, n, runs)
      BY <1>1, <1>2, <2>2, <2>3, <3>1, LinkedGood
    <3>3. QED
      BY <1>2, <2>1, <3>2, ReadsShape DEF s
  <2>5. CASE pc = "cancel_child"
    <3>1. Plain(s.pc)
      BY <2>2, <2>5 DEF Plain, Linked, Searching
    <3>2. GoodJob(s, n, runs)
      BY <1>1, <1>2, <2>2, <3>1, EditGood
    <3>3. QED
      BY <1>2, <2>1, <3>2, ReadsShape DEF s
  <2>6. QED
    BY <2>4, <2>5
<1>6. ASSUME r.pc \in {"publish", "wait"}, NEW pc \in {"wait", "finish"}
      PROVE  GoodJob(Goes(j, pc), n, runs)
  <2> DEFINE s == [r EXCEPT !.pc = pc]
  <2>1. Kept(s, r) /\ s.pc = pc /\ s.run = r.run
    BY <1>2 DEF Kept, Job, Phases
  <2>2. Goes(j, pc) = s
    BY DEF Goes
  <2>3. r.run \in 1..Len(runs) /\ runs[r.run].check = r.check
    BY <1>2, <1>6 DEF GoodJob, Knows, Linked
  <2>4. pc \in Linked /\ pc \notin Judged
    BY DEF Linked, Judged
  <2> HIDE DEF s
  <2>5. QED
    BY <1>1, <1>2, <2>1, <2>2, <2>3, <2>4, LinkedGood
<1>7. CASE Publish(j)
  <2> DEFINE c == [Started(checks[k], "running") EXCEPT !.run = r.run]
  <2>1. Started(checks[k], "running") \in Check /\ Started(checks[k], "running").phase = "running"
    BY <1>2, StartedTyped DEF Started, ActivePhases, Check
  <2>2. c \in Check /\ Active(c)
    BY <1>2, <2>1 DEF Check, Active
  <2>3. Patches(j, k, c, Goes(j, "wait"), Goes(j, "revoke"))
    BY <1>7 DEF Publish
  <2> HIDE DEF c
  <2>4. Earned(k, c, runs)
    BY <2>2, ActiveEarned
  <2>5. GoodJob(Goes(j, "wait"), n, runs)
    BY <1>6, <1>7 DEF Publish, At
  <2>6. QED
    BY <1>2, <1>3, <2>2, <2>3, <2>4, <2>5, PatchesShape
<1>8. CASE Revoke(j)
  <2>1. Patches(j, k, Closed(checks[k], "failure", "none", r.run, 0),
                Goes(j, "cancel_child"), Goes(j, "cancel_child"))
    BY <1>8 DEF Revoke
  <2>2. "failure" \in Conclusions \ {"success"} /\ "none" \in Reasons
    BY DEF Conclusions, Reasons
  <2>3. QED
    BY <1>2, <1>3, <2>1, <2>2, ClosesShape
<1>9. CASE CancelChild(j)
  <2>1. /\ Becomes(j, Goes(j, "fail")) /\ runs' = Stop({r.run}) /\ faults' = faults
        /\ UNCHANGED <<live, plan, checks, required, moves>>
    BY <1>9 DEF CancelChild
  <2>2. runs' \in {runs, Stop({r.run})} /\ faults' \in 0..MaxFaults
    BY <1>2, <2>1
  <2>3. QED
    BY <1>2, <1>3, <2>1, <2>2, StopsShape
<1>10. CASE Wait(j)
  <2>1. GoodJob(Goes(j, "finish"), n, runs) /\ Reads(j, Goes(j, "finish"))
    BY <1>6, <1>10 DEF Wait, At
  <2>2. QED
    BY <1>2, <2>1, ReadsShape
<1>11. QED
  BY <1>4, <1>5, <1>7, <1>8, <1>9, <1>10

\* The verdict is about the job's run, which has succeeded if it says success.
LEMMA VerdictGood ==
    ASSUME NEW r, NEW n \in Nat, GoodJob(r, n, runs), r.pc = "finish",
           NEW evidence \in {"good", "bad", "missing"}
    PROVE  GoodJob(Verdict(r, evidence), n, runs)
<1> DEFINE result == runs[r.run].result
           s == Verdict(r, evidence)
           first == RunnerLosses(r.check) = {}
           won == [r EXCEPT !.conclusion = "success", !.pc = "confirm"]
           again == [r EXCEPT !.retry = IF first THEN "evidence-download" ELSE "none",
                              !.pc = "fail"]
           unlucky == [r EXCEPT !.conclusion = "failure", !.retry = "child-cancelled",
                                !.pc = "confirm"]
           failed == [r EXCEPT !.conclusion = "failure", !.pc = "confirm"]
<1>1. /\ r \in Job /\ r.pc \in Holding
      /\ r.run \in 1..Len(runs) /\ runs[r.run].check = r.check
  BY DEF GoodJob, JobTyped, Knows, Holding, Linked
<1>2. \/ s = won /\ result = "success"
      \/ s = again \/ s = unlucky \/ s = failed
  BY DEF Verdict
<1>3. /\ Kept(won, r) /\ won.pc = "confirm" /\ won.run = r.run
      /\ Kept(unlucky, r) /\ unlucky.pc = "confirm" /\ unlucky.run = r.run
      /\ unlucky.conclusion = "failure"
      /\ Kept(failed, r) /\ failed.pc = "confirm" /\ failed.run = r.run
      /\ failed.conclusion = "failure"
  BY <1>1 DEF Kept, Job, Phases, Conclusions, Reasons
<1>4. Kept(again, r) /\ again.pc = "fail"
  <2> HIDE DEF first
  <2>1. QED
    BY <1>1 DEF Kept, Job, Phases, Reasons
<1>5. "confirm" \in Linked /\ Plain("fail")
  BY DEF Linked, Plain, Searching
<1> HIDE DEF won, again, unlucky, failed, s
<1>6. CASE s = won /\ result = "success"
  BY <1>1, <1>3, <1>5, <1>6, LinkedGood DEF s
<1>7. CASE s = again
  BY <1>1, <1>4, <1>5, <1>7, EditGood DEF s
<1>8. CASE s = unlucky
  BY <1>1, <1>3, <1>5, <1>8, LinkedGood DEF s
<1>9. CASE s = failed
  BY <1>1, <1>3, <1>5, <1>9, LinkedGood DEF s
<1>10. QED
  BY <1>2, <1>6, <1>7, <1>8, <1>9

\* The steps that judge the run and close the check.
LEMMA FinishesOk ==
    ASSUME IInv, NEW j \in 1..MaxJobs,
           Finish(j) \/ Confirm(j) \/ CloseCheck(j) \/ FailCheck(j)
    PROVE  Shape(j)
<1> DEFINE r == jobs[j]
           k == r.check
           n == Len(checks)
<1>1. r.pc \in Holding
  BY DEF Finish, Confirm, CloseCheck, FailCheck, At, Holding
<1>2. /\ k \in 1..n /\ checks[k] \in Check /\ r.run \in Nat /\ faults \in 0..MaxFaults
      /\ r.lost \in Nat /\ r.conclusion \in Conclusions /\ r.retry \in Reasons
      /\ r \in Job /\ GoodJob(r, n, runs) /\ n \in Nat /\ TypeOK /\ EndedRuns(runs)
      /\ \A i \in 1..n : checks[i] \in Check
  BY <1>1, AtWork, Known DEF Job, TypeOK
<1>3. \A pc \in {"fail", "retry", "cleanup"} :
         pc \in Phases /\ Plain(pc) /\ Goes(j, pc).pc = pc /\ GoodJob(Goes(j, pc), n, runs)
  <2>1. \A pc \in {"fail", "retry", "cleanup"} : pc \in Phases /\ Plain(pc)
    BY DEF Phases, Plain, Linked, Searching
  <2>2. ASSUME NEW pc \in {"fail", "retry", "cleanup"} PROVE Goes(j, pc).pc = pc
    <3>1. Goes(j, pc) = [r EXCEPT !.pc = pc]
      BY DEF Goes
    <3>2. QED
      BY <1>2, <3>1 DEF Job
  <2>3. QED
    BY <1>1, <2>1, <2>2, AtWork
<1>4. AfterFinish(r) \in {"retry", "cleanup"}
  BY DEF AfterFinish
<1>5. GoodJob(Final(Goes(j, AfterFinish(r))), n, runs)
  BY <1>2, <1>3, <1>4, FinalGood
<1>6. r.pc \in Linked => r.run \in 1..Len(runs) /\ runs[r.run].check = k
  BY <1>2 DEF GoodJob, Knows
<1>7. CASE Finish(j)
  <2> DEFINE cancelled == [r EXCEPT !.conclusion = "cancelled", !.pc = "close"]
  <2>1. PICK s : /\ \/ s = Goes(j, "fail") \/ s = cancelled
                    \/ \E evidence \in {"good", "bad", "missing"} : s = Verdict(r, evidence)
                 /\ Becomes(j, s)
    BY <1>7 DEF Finish
  <2>2. GoodJob(cancelled, n, runs)
    <3>1. /\ Kept(cancelled, r) /\ cancelled.pc = "close" /\ cancelled.run = r.run
          /\ cancelled.conclusion = "cancelled"
      BY <1>2 DEF Kept, Job, Phases, Conclusions
    <3>2. "close" \in Linked /\ r.pc \in Linked
      BY <1>7 DEF Linked, Finish, At
    <3> HIDE DEF cancelled
    <3>3. QED
      BY <1>1, <1>2, <1>6, <3>1, <3>2, LinkedGood
  <2>3. r.pc = "finish" /\ runs' = Stop({r.run}) /\ faults' = faults
        /\ UNCHANGED <<live, plan, checks, required, moves>>
    BY <1>7 DEF Finish, At
  <2> HIDE DEF cancelled
  <2>4. GoodJob(s, n, runs)
    BY <1>2, <1>3, <2>1, <2>2, <2>3, VerdictGood
  <2>5. runs' \in {runs, Stop({r.run})} /\ faults' \in 0..MaxFaults
    BY <1>2, <2>3
  <2>6. QED
    BY <1>2, <2>1, <2>3, <2>4, <2>5, StopsShape
<1>8. CASE Confirm(j)
  <2> DEFINE sure == [r EXCEPT !.auth = r.retry = "child-cancelled", !.pc = "close"]
             cancelled == [r EXCEPT !.conclusion = "cancelled", !.retry = "none",
                                    !.pc = "close"]
  <2>1. Reads(j, sure) \/ Reads(j, cancelled)
    BY <1>8 DEF Confirm
  <2>2. /\ Kept(cancelled, r) /\ cancelled.pc = "close" /\ cancelled.run = r.run
        /\ cancelled.conclusion = "cancelled"
    BY <1>2 DEF Kept, Job, Phases, Conclusions, Reasons
  <2>3. /\ Kept(sure, r) /\ sure.pc = "close" /\ sure.run = r.run
        /\ sure.conclusion = r.conclusion
    BY <1>2 DEF Kept, Job, Phases
  <2>4. "close" \in Linked /\ r.pc \in Linked /\ r.pc \in Judged
    BY <1>8 DEF Linked, Judged, Confirm, At
  <2>5. r.conclusion = "success" => runs[r.run].result = "success"
    BY <1>2, <2>4 DEF GoodJob, Knows
  <2> HIDE DEF sure, cancelled
  <2>6. GoodJob(sure, n, runs)
    BY <1>1, <1>2, <1>6, <2>3, <2>4, <2>5, LinkedGood
  <2>7. GoodJob(cancelled, n, runs)
    BY <1>1, <1>2, <1>6, <2>2, <2>4, LinkedGood
  <2>8. QED
    BY <1>2, <2>1, <2>6, <2>7, ReadsShape
<1>9. CASE CloseCheck(j)
  <2> DEFINE c == Closed(checks[k], r.conclusion, r.retry, r.run, 0)
             bad == [r EXCEPT !.retry = "none", !.pc = "fail"]
  <2>1. r.pc \in Linked /\ r.pc \in Judged
    BY <1>9 DEF Linked, Judged, CloseCheck, At
  <2>2. r.run \in 1..Len(runs) /\ runs[r.run].check = k /\ r.run # 0
    BY <1>6, <2>1
  <2>3. c \in Check /\ c.conclusion = r.conclusion /\ c.run = r.run
    <3>1. /\ checks[k] \in Check /\ r.conclusion \in Conclusions /\ r.retry \in Reasons
          /\ r.run \in Nat /\ 0 \in Nat
      BY <1>2
    <3>2. c \in Check /\ c.conclusion = r.conclusion /\ (r.run # 0 => c.run = r.run)
      BY <3>1, ClosedTyped
    <3>3. QED
      BY <2>2, <3>2
  <2>4. r.conclusion = "success" => runs[r.run].result = "success"
    BY <1>2, <2>1 DEF GoodJob, Knows
  <2>5. Patches(j, k, c, Final(Goes(j, AfterFinish(r))), bad)
    BY <1>9 DEF CloseCheck
  <2>6. Kept(bad, r) /\ bad.pc = "fail"
    BY <1>2 DEF Kept, Job, Phases, Reasons
  <2> HIDE DEF c, bad
  <2>7. Earned(k, c, runs)
    BY <2>2, <2>3, <2>4 DEF Earned
  <2>8. GoodJob(bad, n, runs)
    BY <1>1, <1>2, <1>3, <2>6, EditGood
  <2>9. QED
    BY <1>2, <1>5, <2>3, <2>5, <2>7, <2>8, PatchesShape
<1>10. CASE FailCheck(j)
  <2> DEFINE run == FailedRun(r)
             lost == IF r.retry = "dispatch-not-observed" THEN r.lost ELSE 0
  <2>1. run \in Nat /\ lost \in Nat
    <3>1. r.source \in 0..n
      BY <1>2 DEF GoodJob, JobTyped
    <3>2. r.source # 0 => checks[r.source].run \in Nat
      BY <1>2, <3>1 DEF Check
    <3>3. QED
      BY <1>2, <3>2 DEF Retrying, FailedRun
  <2>2. Patches(j, k, Closed(checks[k], "failure", r.retry, run, lost),
                Final(Goes(j, AfterFinish(r))), Goes(j, AfterFinish(r)))
    BY <1>10 DEF FailCheck
  <2>3. "failure" \in Conclusions \ {"success"}
    BY DEF Conclusions
  <2> HIDE DEF run, lost
  <2>4. QED
    BY <1>2, <1>3, <1>4, <1>5, <2>1, <2>2, <2>3, ClosesShape
<1>11. QED
  BY <1>7, <1>8, <1>9, <1>10

\* The retry of a lost runner.
LEMMA RetriesOk ==
    ASSUME IInv, NEW j \in 1..MaxJobs,
           \/ Retry(j) \/ Reserve(j) \/ Acquire(j) \/ Prepare(j) \/ Revalidate(j)
           \/ Unretry(j)
    PROVE  Shape(j)
<1> DEFINE r == jobs[j]
           k == r.check
           n == Len(checks)
           Next1 == {"reserve", "unretry", "prepare", "fail", "revalidate", "recheck",
                     "cleanup"}
<1>1. r.pc \in Holding
  BY DEF Retry, Reserve, Acquire, Prepare, Revalidate, Unretry, At, Holding
<1>2. /\ k \in 1..n /\ k \in Nat /\ r.run \in Nat
      /\ r \in Job /\ GoodJob(r, n, runs) /\ n \in Nat /\ TypeOK
  BY <1>1, AtWork, Known DEF Job
<1>3. \A pc \in Next1 : GoodJob(Goes(j, pc), n, runs)
  <2>1. \A pc \in Next1 : pc \in Phases /\ Plain(pc)
    BY DEF Phases, Plain, Linked, Searching
  <2>2. QED
    BY <1>1, <2>1, AtWork
<1>4. CASE Retry(j)
  <2>1. \E pc \in {"reserve", "unretry"} : Reads(j, Goes(j, pc))
    BY <1>4 DEF Retry
  <2>2. QED
    BY <1>2, <1>3, <2>1, ReadsShape
<1>5. CASE Reserve(j)
  <2> DEFINE s == [r EXCEPT !.source = r.check, !.check = n + 1, !.open = @ \cup {n + 1},
                            !.run = 0, !.conclusion = "none", !.retry = "none",
                            !.pc = "acquire"]
  <2>1. Creates(j, s, Goes(j, "unretry"))
    BY <1>5 DEF Reserve
  <2>2. JobTyped(r, n)
    BY <1>2 DEF GoodJob
  <2>3. r.open \cup {n + 1} \in SUBSET (1..n + 1) /\ r.open \cup {n + 1} \in SUBSET Nat
    BY <1>2, <2>2 DEF JobTyped
  <2>4. /\ s \in Job /\ s.pc = "acquire" /\ s.check = n + 1 /\ s.source = k
        /\ s.open = r.open \cup {n + 1} /\ s.seen = r.seen /\ s.targets = r.targets
    BY <1>2, <2>3 DEF Job, Phases, Conclusions, Reasons
  <2> HIDE DEF s
  <2>5. JobTyped(s, n + 1)
    BY <1>2, <2>2, <2>3, <2>4 DEF JobTyped
  <2>6. Plain(s.pc) /\ s.check # 0
    BY <1>2, <2>4 DEF Plain, Linked, Searching
  <2>7. GoodJob(s, n + 1, runs)
    BY <1>2, <2>4, <2>5, <2>6, PlainGood
  <2>8. QED
    BY <1>2, <1>3, <2>1, <2>7, CreatesShape
<1>6. CASE Acquire(j)
  <2>1. \E pc \in {"prepare", "fail"} : Reads(j, Goes(j, pc))
    BY <1>6 DEF Acquire
  <2>2. QED
    BY <1>2, <1>3, <2>1, ReadsShape
<1>7. CASE Prepare(j)
  <2>1. Patches(j, k, Started(checks[k], "preparing"), Goes(j, "revalidate"), Goes(j, "fail"))
    BY <1>7 DEF Prepare
  <2>2. "preparing" \in ActivePhases
    BY DEF ActivePhases
  <2>3. QED
    BY <1>2, <1>3, <2>1, <2>2, StartsShape
<1>8. CASE Revalidate(j)
  <2>1. \E pc \in {"recheck", "fail"} : Reads(j, Goes(j, pc))
    BY <1>8 DEF Revalidate
  <2>2. QED
    BY <1>2, <1>3, <2>1, ReadsShape
<1>9. CASE Unretry(j)
  <2>1. CASE /\ n = k \/ n = k + 1
             /\ Patches(j, n, Closed(checks[n], "failure", "none", r.run, 0),
                        Goes(j, "cleanup"), Goes(j, "cleanup"))
    <3>1. n \in 1..n
      BY <1>2
    <3>2. "failure" \in Conclusions \ {"success"} /\ "none" \in Reasons
      BY DEF Conclusions, Reasons
    <3>3. QED
      BY <1>2, <1>3, <2>1, <3>1, <3>2, ClosesShape
  <2>2. CASE Reads(j, Goes(j, "cleanup"))
    BY <1>2, <1>3, <2>2, ReadsShape
  <2>3. QED
    BY <1>9, <2>1, <2>2 DEF Unretry
<1>10. QED
  BY <1>4, <1>5, <1>6, <1>7, <1>8, <1>9

\* The last steps of a job, and the jobs that cancel.
LEMMA CleansOk ==
    ASSUME IInv, NEW j \in 1..MaxJobs,
           Cleanup(j) \/ Abandon(j) \/ CancelRuns(j) \/ CancelChecks(j)
    PROVE  Shape(j)
<1> DEFINE r == jobs[j]
           n == Len(checks)
<1>1. /\ r \in Job /\ GoodJob(r, n, runs) /\ JobTyped(r, n) /\ n \in Nat /\ TypeOK
      /\ EndedRuns(runs) /\ faults \in 0..MaxFaults
  BY Known DEF GoodJob, TypeOK
<1>2. GoodJob(Goes(j, "done"), n, runs) /\ GoodJob(Goes(j, "cancel_checks"), n, runs)
  BY GoesTo DEF Plain, Phases, Holding, Linked, Searching
<1>3. /\ {"cancelled", "failure"} \subseteq Conclusions \ {"success"}
      /\ "none" \in Reasons
  BY DEF Conclusions, Reasons
<1>4. CASE Cleanup(j)
  <2>1. CASE Reads(j, Goes(j, "done"))
    BY <1>1, <1>2, <2>1, ReadsShape
  <2>2. CASE \E k \in r.open : Reads(j, [r EXCEPT !.open = @ \ {k}])
    <3>1. PICK k \in r.open : Reads(j, [r EXCEPT !.open = @ \ {k}])
      BY <2>2
    <3> DEFINE s == [r EXCEPT !.open = @ \ {k}]
    <3>2. r.open \ {k} \subseteq 1..n /\ r.open \ {k} \in SUBSET Nat
      BY <1>1 DEF JobTyped
    <3>3. /\ s \in Job /\ s.pc = r.pc /\ s.check = r.check /\ s.source = r.source
          /\ s.seen = r.seen /\ s.open = r.open \ {k} /\ s.targets = r.targets
      BY <1>1, <3>2 DEF Job
    <3>4. r.pc = "cleanup"
      BY <1>4 DEF Cleanup, At
    <3> HIDE DEF s
    <3>5. JobTyped(s, n) /\ Plain(s.pc) /\ s.pc \notin Holding
      BY <1>1, <3>2, <3>3, <3>4 DEF JobTyped, Plain, Holding, Linked, Searching
    <3>6. GoodJob(s, n, runs)
      BY <1>1, <3>3, <3>5, PlainGood
    <3>7. QED
      BY <1>1, <3>1, <3>6, ReadsShape DEF s
  <2>3. CASE /\ \E k \in r.open : Becomes(j, [r EXCEPT !.check = k, !.pc = "abandon"])
             /\ runs' = Stop({r.run}) /\ faults' = faults
             /\ UNCHANGED <<live, plan, checks, required, moves>>
    <3>1. PICK k \in r.open : Becomes(j, [r EXCEPT !.check = k, !.pc = "abandon"])
      BY <2>3
    <3> DEFINE s == [r EXCEPT !.check = k, !.pc = "abandon"]
    <3>2. k \in 1..n /\ k \in Nat
      BY <1>1 DEF JobTyped
    <3>3. /\ s \in Job /\ s.pc = "abandon" /\ s.check = k /\ s.source = r.source
          /\ s.seen = r.seen /\ s.open = r.open /\ s.targets = r.targets
      BY <1>1, <3>2 DEF Job, Phases
    <3> HIDE DEF s
    <3>4. JobTyped(s, n) /\ Plain(s.pc) /\ s.check # 0
      BY <1>1, <3>2, <3>3 DEF JobTyped, Plain, Linked, Searching
    <3>5. GoodJob(s, n, runs) /\ Becomes(j, s)
      BY <1>1, <3>1, <3>3, <3>4, PlainGood DEF s
    <3>6. runs' \in {runs, Stop({r.run})} /\ faults' \in 0..MaxFaults
      BY <1>1, <2>3
    <3>7. QED
      BY <1>1, <2>3, <3>5, <3>6, StopsShape
  <2>4. QED
    <3>1. r.pc = "cleanup"
      BY <1>4 DEF Cleanup, At
    <3>2. \/ Reads(j, Goes(j, "done"))
          \/ \E k \in r.open : Reads(j, [r EXCEPT !.open = @ \ {k}])
          \/ /\ \E k \in r.open : Becomes(j, [r EXCEPT !.check = k, !.pc = "abandon"])
             /\ runs' = Stop({r.run}) /\ faults' = faults
             /\ UNCHANGED <<live, plan, checks, required, moves>>
      BY <1>4 DEF Cleanup
    <3>3. QED
      BY <2>1, <2>2, <2>3, <3>2
<1>5. CASE Abandon(j)
  <2>1. Patches(j, r.check, Closed(checks[r.check], "failure", "none", 0, 0),
                Final(Goes(j, "cleanup")), Final(Goes(j, "cleanup")))
    BY <1>5 DEF Abandon
  <2>2. r.pc \in Holding
    BY <1>5 DEF Abandon, At, Holding
  <2>3. r.check \in 1..n
    BY <2>2, AtWork
  <2>4. "cleanup" \in Phases /\ Plain("cleanup")
    BY DEF Phases, Plain, Linked, Searching
  <2>5. Goes(j, "cleanup").pc = "cleanup"
    <3>1. Goes(j, "cleanup") = [r EXCEPT !.pc = "cleanup"]
      BY DEF Goes
    <3>2. QED
      BY <1>1, <3>1 DEF Job
  <2>6. GoodJob(Final(Goes(j, "cleanup")), n, runs)
    BY <1>1, <2>2, <2>4, <2>5, AtWork, FinalGood
  <2>7. QED
    BY <1>3, <2>1, <2>3, <2>6, ClosesShape
<1>6. CASE CancelRuns(j)
  <2> DEFINE S == {k \in 1..Len(runs) : runs[k].visible}
  <2>1. /\ Becomes(j, Goes(j, "cancel_checks")) /\ runs' = Stop(S) /\ faults' = faults
        /\ UNCHANGED <<live, plan, checks, required, moves>>
    BY <1>6 DEF CancelRuns
  <2> HIDE DEF S
  <2>2. runs' \in {runs, Stop(S)} /\ faults' \in 0..MaxFaults
    BY <1>1, <2>1
  <2>3. QED
    BY <1>1, <1>2, <2>1, <2>2, StopsShape
<1>7. CASE CancelChecks(j)
  <2>1. CASE Reads(j, Goes(j, "done"))
    BY <1>1, <1>2, <2>1, ReadsShape
  <2>2. CASE \E k \in r.targets :
               Patches(j, k, Closed(checks[k], "cancelled", "none", 0, 0),
                       [r EXCEPT !.targets = @ \ {k}], Goes(j, "done"))
    <3>1. PICK k \in r.targets :
               Patches(j, k, Closed(checks[k], "cancelled", "none", 0, 0),
                       [r EXCEPT !.targets = @ \ {k}], Goes(j, "done"))
      BY <2>2
    <3> DEFINE s == [r EXCEPT !.targets = @ \ {k}]
    <3>2. r.targets \ {k} \subseteq 1..n /\ r.targets \ {k} \in SUBSET Nat /\ k \in 1..n
      BY <1>1 DEF JobTyped
    <3>3. /\ s \in Job /\ s.pc = r.pc /\ s.check = r.check /\ s.source = r.source
          /\ s.seen = r.seen /\ s.open = r.open /\ s.targets = r.targets \ {k}
      BY <1>1, <3>2 DEF Job
    <3>4. r.pc = "cancel_checks"
      BY <1>7 DEF CancelChecks, At
    <3> HIDE DEF s
    <3>5. JobTyped(s, n) /\ Plain(s.pc) /\ s.pc \notin Holding
      BY <1>1, <3>2, <3>3, <3>4 DEF JobTyped, Plain, Holding, Linked, Searching
    <3>6. GoodJob(s, n, runs)
      BY <1>1, <3>3, <3>5, PlainGood
    <3>7. Patches(j, k, Closed(checks[k], "cancelled", "none", 0, 0), s, Goes(j, "done"))
      BY <3>1 DEF s
    <3>8. QED
      BY <1>2, <1>3, <3>2, <3>6, <3>7, ClosesShape
  <2>3. QED
    BY <1>7, <2>1, <2>2 DEF CancelChecks
<1>8. QED
  BY <1>4, <1>5, <1>6, <1>7

\* Failing reads, dying steps and lost runners.
LEMMA FailuresOk ==
    ASSUME IInv, NEW j \in 1..MaxJobs, ReadFails(j) \/ StepDies(j) \/ Vanish(j)
    PROVE  Shape(j)
<1> DEFINE r == jobs[j]
           n == Len(checks)
<1>1. /\ r \in Job /\ GoodJob(r, n, runs) /\ n \in Nat /\ TypeOK /\ EndedRuns(runs)
  BY Known
<1>2. \A pc \in {"done", "vanished", "cleanup"} : GoodJob(Goes(j, pc), n, runs)
  BY GoesTo DEF Plain, Phases, Holding, Linked, Searching
<1>3. ASSUME r.pc \in Holding, NEW pc \in {"fail", "restore", "retry", "unretry", "cleanup"}
      PROVE  GoodJob(Goes(j, pc), n, runs)
  <2>1. pc \in Phases /\ Plain(pc)
    BY DEF Phases, Plain, Linked, Searching
  <2>2. QED
    BY <1>3, <2>1, AtWork
<1>4. OnError(r) \in {"restore", "fail"} /\ AfterFinish(r) \in {"retry", "cleanup"}
  BY DEF OnError, AfterFinish
<1>5. faults' \in 0..MaxFaults
  BY <1>1, FaultTyped DEF ReadFails, StepDies, Vanish
<1>6. UNCHANGED <<live, plan, checks, required, moves>>
  BY DEF ReadFails, StepDies, Vanish
<1>7. ASSUME NEW s, GoodJob(s, n, runs), Becomes(j, s), NEW S, runs' \in {runs, Stop(S)}
      PROVE  Shape(j)
  BY <1>1, <1>5, <1>6, <1>7, StopsShape
<1>8. CASE ReadFails(j)
  <2> DEFINE S == {i \in {r.lost} \ {0} : runs[i].visible}
             failed == [r EXCEPT !.retry = "none", !.pc = "fail"]
             unwanted == [r EXCEPT !.run = r.lost, !.lost = 0, !.pc = "cancel_child"]
  <2>1. runs' \in {runs, Stop(S)}
    BY <1>8 DEF ReadFails
  <2>2. PICK s : /\ Becomes(j, s)
                 /\ \/ s \in {Goes(j, "cleanup"), Goes(j, "done")}
                    \/ r.pc \in Holding /\ s \in {failed, unwanted}
                    \/ /\ r.pc \in Holding
                       /\ \E pc \in {"fail", "restore", "unretry"} : s = Goes(j, pc)
    <3>1. CASE /\ r.pc \in {"live", "ensure", "cancel_runs"}
               /\ \E pc \in {"cleanup", "done"} : Becomes(j, Goes(j, pc))
      BY <3>1
    <3>2. CASE /\ r.pc \in {"evaluate", "finish", "confirm", "acquire", "revalidate"}
               /\ Becomes(j, failed)
      BY <3>2 DEF Holding
    <3>3. CASE r.pc = "adopt" /\ Becomes(j, unwanted)
      BY <3>3 DEF Holding
    <3>4. CASE /\ r.pc \in {"approve", "recheck", "reconcile", "cancel_child", "retry"}
               /\ \E pc \in {"fail", "restore", "unretry"} : Becomes(j, Goes(j, pc))
      BY <3>4 DEF Holding
    <3>5. QED
      <4>1. \/ /\ r.pc \in {"live", "ensure", "cancel_runs"}
               /\ \E pc \in {"cleanup", "done"} : Becomes(j, Goes(j, pc))
            \/ /\ r.pc \in {"evaluate", "finish", "confirm", "acquire", "revalidate"}
               /\ Becomes(j, failed)
            \/ r.pc = "adopt" /\ Becomes(j, unwanted)
            \/ /\ r.pc \in {"approve", "recheck", "reconcile", "cancel_child", "retry"}
               /\ \E pc \in {"fail", "restore", "unretry"} : Becomes(j, Goes(j, pc))
        BY <1>4, <1>8 DEF ReadFails
      <4>2. QED
        BY <3>1, <3>2, <3>3, <3>4, <4>1
  <2>3. /\ Kept(failed, r) /\ failed.pc = "fail"
        /\ Kept(unwanted, r) /\ unwanted.pc = "cancel_child"
    BY <1>1 DEF Kept, Job, Phases, Reasons
  <2>4. Plain("fail") /\ Plain("cancel_child")
    BY DEF Plain, Linked, Searching
  <2> HIDE DEF failed, unwanted, S
  <2>5. r.pc \in Holding => GoodJob(failed, n, runs) /\ GoodJob(unwanted, n, runs)
    BY <1>1, <2>3, <2>4, EditGood
  <2>6. GoodJob(s, n, runs)
    BY <1>2, <1>3, <2>2, <2>5
  <2>7. QED
    BY <1>7, <2>1, <2>2, <2>6
<1>9. CASE StepDies(j)
  <2>1. PICK s : /\ Becomes(j, s)
                 /\ \/ s \in {Goes(j, "done"), Goes(j, "cleanup"), Final(Goes(j, "cleanup"))}
                    \/ /\ r.pc \in {"retry", "reserve", "close", "fail"}
                       /\ \E pc \in {"unretry", "retry"} : s = Goes(j, pc)
    BY <1>4, <1>9 DEF StepDies
  <2>2. GoodJob(Final(Goes(j, "cleanup")), n, runs)
    <3>1. Goes(j, "cleanup") = [r EXCEPT !.pc = "cleanup"]
      BY DEF Goes
    <3>2. Goes(j, "cleanup").pc = "cleanup"
      BY <1>1, <3>1 DEF Job
    <3>3. Plain("cleanup")
      BY DEF Plain, Linked, Searching
    <3>4. QED
      BY <1>1, <1>2, <3>2, <3>3, FinalGood
  <2>3. r.pc \in {"retry", "reserve", "close", "fail"} => r.pc \in Holding
    BY DEF Holding
  <2>4. GoodJob(s, n, runs)
    BY <1>2, <1>3, <2>1, <2>2, <2>3
  <2>5. runs' \in {runs, Stop({})}
    BY <1>9 DEF StepDies
  <2>6. QED
    BY <1>7, <2>1, <2>4, <2>5
<1>10. CASE Vanish(j)
  <2>1. Becomes(j, Goes(j, "vanished")) /\ runs' \in {runs, Stop({})}
    BY <1>10 DEF Vanish
  <2>2. QED
    BY <1>2, <1>7, <2>1
<1>11. QED
  BY <1>8, <1>9, <1>10

-----------------------------------------------------------------------------
(* GitHub, the child runs and the required job.                            *)

\* A run that goes on keeps its check, and a success it has ended with.
LEMMA RunKeeps ==
    ASSUME IInv, NEW n \in 1..Len(runs), NEW r \in Run, r.check = runs[n].check,
           runs[n].result = "success" => r.result = "success",
           r.result = "success" => r.state = "done", RunBecomes(n, r)
    PROVE  IInv'
<1>1. /\ checks \in Seq(Check) /\ Len(checks) \in Nat /\ Len(runs) \in Nat
      /\ runs \in Seq(Run) /\ EndedRuns(runs)
  BY LenProperties DEF IInv, TypeOK
<1>2. /\ runs' = [runs EXCEPT ![n] = r]
      /\ UNCHANGED <<live, plan, checks, jobs, required, moves, faults>>
  BY DEF RunBecomes
<1>3. /\ runs' \in Seq(Run) /\ Len(runs') = Len(runs)
      /\ \A i \in 1..Len(runs) : runs'[i] = IF i = n THEN r ELSE runs[i]
  BY <1>1, <1>2, ExceptSeq
<1>4. Grows(runs, runs')
  BY <1>1, <1>3 DEF Grows
<1>5. EndedRuns(runs')
  BY <1>1, <1>3 DEF EndedRuns
<1>6. TypeOK'
  BY <1>2, <1>3 DEF IInv, TypeOK
<1>7. ASSUME NEW i \in 1..MaxJobs PROVE GoodJob(jobs[i], Len(checks), runs')
  <2>1. GoodJob(jobs[i], Len(checks), runs)
    BY DEF IInv
  <2>2. QED
    BY <1>1, <1>3, <1>4, <2>1, GoodGrows
<1>8. ASSUME NEW k \in 1..Len(checks) PROVE Earned(k, checks[k], runs')
  <2>1. checks[k] \in Check /\ Earned(k, checks[k], runs)
    BY <1>1, ElementOfSeq DEF IInv, AllEarned
  <2>2. QED
    BY <1>1, <1>3, <1>4, <2>1, EarnedGrows
<1>9. AllEarned'
  BY <1>2, <1>8 DEF AllEarned, Earned, Active
<1>10. PassIsEarned'
  BY <1>1, <1>2, <1>3, <1>4 DEF IInv, PassIsEarned, Proven, Grows
<1>11. QED
  BY <1>2, <1>5, <1>6, <1>7, <1>9, <1>10 DEF IInv

LEMMA EnvironmentKeeps ==
    ASSUME IInv, Environment
    PROVE  IInv'
<1>1. ASSUME UNCHANGED <<plan, checks, runs, jobs, faults>>, live' \in BOOLEAN,
             required' \in {"waiting", "read", "passed", "failed"}, moves' \in 0..MaxMoves,
             required' \in {"read", "passed"} => Proven(runs)
      PROVE  IInv'
  <2>1. TypeOK'
    BY <1>1 DEF IInv, TypeOK
  <2>2. QED
    BY <1>1, <2>1 DEF IInv, AllEarned, Earned, Active, PassIsEarned, Proven
<1>2. /\ live \in BOOLEAN /\ moves \in 0..MaxMoves /\ MaxMoves \in Nat
      /\ required \in {"waiting", "read", "passed", "failed"}
  BY PrGateAssumption DEF IInv, TypeOK
<1>3. CASE Move
  BY <1>1, <1>2, <1>3 DEF Move, IInv, PassIsEarned
<1>4. CASE ReadVerdict \/ AcceptVerdict
  <2>1. /\ UNCHANGED <<live, plan, checks, runs, jobs, moves, faults>>
        /\ required' \in {"read", "passed", "failed"}
    BY <1>4 DEF ReadVerdict, AcceptVerdict, RequiredBecomes
  <2>2. CASE AcceptVerdict
    <3>1. required = "read"
      BY <2>2 DEF AcceptVerdict
    <3>2. Proven(runs)
      BY <3>1 DEF IInv, PassIsEarned
    <3>3. QED
      BY <1>1, <1>2, <2>1, <3>2
  <2>3. CASE ReadVerdict /\ required' # "failed"
    <3> DEFINE n == Len(checks)
    <3>1. n \in Nat /\ n > 0 /\ ~Active(checks[n]) /\ checks[n].conclusion = "success"
      BY <2>3, LenProperties DEF ReadVerdict, RequiredBecomes, IInv, TypeOK
    <3>2. Earned(n, checks[n], runs)
      BY <3>1 DEF IInv, AllEarned
    <3>3. Proven(runs)
      BY <3>1, <3>2 DEF Earned, Proven
    <3>4. QED
      BY <1>1, <1>2, <2>1, <3>3
  <2>4. CASE required' = "failed"
    BY <1>1, <1>2, <2>1, <2>4
  <2>5. QED
    BY <1>4, <2>2, <2>3, <2>4
<1>5. ASSUME NEW n \in 1..Len(runs),
             \/ Appear(n) \/ Authenticate(n) \/ Refuse(n)
             \/ \E result \in {"success", "failure", "lost", "cancelled"} : RunEnds(n, result)
      PROVE  IInv'
  <2>1. runs[n] \in Run /\ (runs[n].result = "success" => runs[n].state = "done")
    BY <1>5, ElementOfSeq DEF IInv, TypeOK, EndedRuns
  <2>2. CASE Appear(n)
    <3> DEFINE r == [runs[n] EXCEPT !.visible = TRUE]
    <3>1. /\ r \in Run /\ r.check = runs[n].check /\ r.result = runs[n].result
          /\ r.state = runs[n].state
      BY <2>1 DEF Run
    <3>2. RunBecomes(n, r)
      BY <2>2 DEF Appear
    <3> HIDE DEF r
    <3>3. QED
      BY <2>1, <3>1, <3>2, RunKeeps
  <2>3. CASE Authenticate(n)
    <3> DEFINE r == [runs[n] EXCEPT !.state = "executing"]
    <3>1. r \in Run /\ r.check = runs[n].check /\ r.result = runs[n].result
      BY <2>1 DEF Run
    <3>2. RunBecomes(n, r) /\ runs[n].state = "queued"
      BY <2>3 DEF Authenticate
    <3> HIDE DEF r
    <3>3. QED
      BY <2>1, <3>1, <3>2, RunKeeps
  <2>4. CASE Refuse(n)
    <3> DEFINE r == [runs[n] EXCEPT !.state = "done", !.result = "failure"]
    <3>1. r \in Run /\ r.check = runs[n].check /\ r.result = "failure" /\ r.state = "done"
      BY <2>1 DEF Run
    <3>2. RunBecomes(n, r) /\ runs[n].state = "queued"
      BY <2>4 DEF Refuse
    <3> HIDE DEF r
    <3>3. QED
      BY <2>1, <3>1, <3>2, RunKeeps
  <2>5. CASE \E result \in {"success", "failure", "lost", "cancelled"} : RunEnds(n, result)
    <3>1. PICK result \in {"success", "failure", "lost", "cancelled"} : RunEnds(n, result)
      BY <2>5
    <3> DEFINE r == [runs[n] EXCEPT !.state = "done", !.result = result]
    <3>2. r \in Run /\ r.check = runs[n].check /\ r.result = result /\ r.state = "done"
      BY <2>1 DEF Run
    <3>3. RunBecomes(n, r) /\ runs[n].state \in {"executing", "stopping"}
      BY <3>1 DEF RunEnds
    <3> HIDE DEF r
    <3>4. QED
      BY <2>1, <3>2, <3>3, RunKeeps
  <2>6. QED
    BY <1>5, <2>2, <2>3, <2>4, <2>5
<1>6. QED
  BY <1>3, <1>4, <1>5 DEF Environment

-----------------------------------------------------------------------------
(* The theorems.                                                           *)

LEMMA InitHolds == ASSUME Init PROVE IInv
<1>1. /\ checks = <<>> /\ runs = <<>> /\ moves = 0 /\ faults = 0 /\ live = TRUE
      /\ required = "waiting" /\ plan \in Plans
      /\ jobs = [j \in 1..MaxJobs |-> Idle]
  BY DEF Init, Plans
<1>2. /\ checks \in Seq(Check) /\ Len(checks) = 0 /\ runs \in Seq(Run) /\ Len(runs) = 0
  BY <1>1, EmptySeq
<1>3. MaxChecks \in Nat /\ MaxRuns \in Nat /\ MaxMoves \in Nat /\ MaxFaults \in Nat
  BY PrGateAssumption
<1>4. jobs \in [1..MaxJobs -> Job]
  BY <1>1, IdleTyped
<1>5. TypeOK
  BY <1>1, <1>2, <1>3, <1>4 DEF TypeOK
<1>6. ASSUME NEW j \in 1..MaxJobs PROVE GoodJob(jobs[j], Len(checks), runs)
  <2>1. /\ Idle.check = 0 /\ Idle.source = 0 /\ Idle.seen = 0
        /\ Idle.open = {} /\ Idle.targets = {} /\ Idle.pc \notin Holding
    BY DEF Idle, Holding
  <2>2. jobs[j] = Idle /\ Len(checks) \in Nat
    BY <1>1, <1>2
  <2>3. QED
    BY <2>1, <2>2, IdleTyped, EmptyGood
<1>7. EndedRuns(runs) /\ AllEarned /\ PassIsEarned
  BY <1>1, <1>2 DEF EndedRuns, AllEarned, PassIsEarned
<1>8. QED
  BY <1>5, <1>6, <1>7 DEF IInv

LEMMA NextKeeps == ASSUME IInv, [Next]_vars PROVE IInv'
<1>1. CASE UNCHANGED vars
  BY <1>1 DEF vars, IInv, TypeOK, AllEarned, Earned, Active, PassIsEarned, Proven
<1>2. ASSUME NEW j \in 1..MaxJobs, Begin(j) \/ Step(j) \/ ReadFails(j) \/ StepDies(j) \/ Vanish(j)
      PROVE  IInv'
  <2>1. CASE Begin(j)
    BY <2>1, BeginsShape, ShapeKeeps
  <2>2. CASE Step(j)
    <3>1. Shape(j)
      BY <2>2, StartsOk, EvaluatesOk, PostOk, RunStepsOk, FinishesOk, RetriesOk, CleansOk
         DEF Step
    <3>2. QED
      BY <3>1, ShapeKeeps
  <2>3. CASE ReadFails(j) \/ StepDies(j) \/ Vanish(j)
    BY <2>3, FailuresOk, ShapeKeeps
  <2>4. QED
    BY <1>2, <2>1, <2>2, <2>3
<1>3. CASE Environment
  BY <1>3, EnvironmentKeeps
<1>4. QED
  BY <1>1, <1>2, <1>3 DEF Next

\* What a job holds is about the run and the check it goes on to close, and every success is
\* earned, in every reachable state.
THEOREM GateInvariant == Spec => []IInv
<1>1. Init => IInv
  BY InitHolds
<1>2. IInv /\ [Next]_vars => IInv'
  BY NextKeeps
<1>3. QED
  BY <1>1, <1>2, PTL DEF Spec

\* The shapes of GitHub's and the jobs' state, and the bounds, in every reachable state.
THEOREM GateTypeCorrect == Spec => []TypeOK
<1>1. IInv => TypeOK
  BY DEF IInv
<1>2. QED
  BY <1>1, GateInvariant, PTL

\* A check never says success but for the run it links to, dispatched for this very check and
\* succeeded, through lost answers, adoptions, retries and revocations.
THEOREM SuccessAlwaysEarned == Spec => []SuccessIsEarned
<1>1. IInv => SuccessIsEarned
  BY DEF IInv, AllEarned, Earned, SuccessIsEarned
<1>2. QED
  BY <1>1, GateInvariant, PTL

\* The required job reads a success, and branch protection lets the diff pass, only when a
\* child run has succeeded or the diff's risk plan selects none.
THEOREM RequiredPassIsEarned == Spec => []PassIsEarned
<1>1. IInv => PassIsEarned
  BY DEF IInv
<1>2. QED
  BY <1>1, GateInvariant, PTL

=============================================================================
