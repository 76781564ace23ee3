---------------------- MODULE PrGateRefinement_proofs ----------------------
(***************************************************************************)
(* That the E2E gate keeps one current check, that a failure for good is   *)
(* final and that the gate implements ExactDiffGate when all its jobs are  *)
(* in one concurrency group, for any number of checks, child runs, jobs,   *)
(* pushes and failures.                                                    *)
(***************************************************************************)
EXTENDS PrGate_proofs, FiniteSetTheorems

-----------------------------------------------------------------------------
(* The inductive invariant.  The gate is a chain of calls by jobs that     *)
(* exclude each other, interrupted by cancellations and by the child runs: *)
(* what has to be known is, for each phase of the one job at work, which   *)
(* check is the current one, whether a run may execute on its account and  *)
(* whether a verdict can still be written.                                 *)

Cancelled(c) == ~Active(c) /\ c.conclusion = "cancelled" /\ c.retry = "none"

\* A check that no job goes on with.
Old(c) == Retryable(c) \/ (~Active(c) /\ c.conclusion = "cancelled")

AllOld(cs) == \A k \in 1..Len(cs) : Old(cs[k])

Lost(c) == c.retry = "child-cancelled"

FirstLoss(cs) == \A k \in 1..Len(cs) - 1 : ~Lost(cs[k])

Executes(r) == r.state \in {"executing", "stopping"}

\* The run m executes the pull request's code, or its check lets it start.
Live(m, cs, rs) ==
    \/ Executes(rs[m])
    \/ rs[m].state = "queued" /\ cs[rs[m].check].phase = "running" /\ cs[rs[m].check].run = m

NoneLive(cs, rs) == \A m \in 1..Len(rs) : ~Live(m, cs, rs)

OnlyLive(run, cs, rs) == \A m \in 1..Len(rs) : Live(m, cs, rs) => m = run

\* A check that may have such a run.
Carries(c) == c.phase = "running" \/ (~Active(c) /\ ~Retryable(c))

\* A job that the concurrency group holds the others back for.
Busy(r) == r.pc \notin {"idle", "done", "vanished", "cancel_runs", "cancel_checks"}

\* Before the child run is authorised, and from then on.
Preparing == {"mark", "evaluate", "conclude", "approve", "authorize", "restore", "recheck",
              "post", "reconcile", "adopt", "publish", "acquire", "prepare", "revalidate"}

Attending == {"wait", "finish", "confirm", "close", "revoke", "cancel_child", "fail"}

\* The check has not failed, so that the job may go on to write any verdict.
Undecided == Preparing \cup {"wait", "finish", "confirm", "close"}

\* The job may carry the reason for a retry.
Judging == {"confirm", "close", "fail"}

OpenOk(r, cs) == \A k \in r.open : k \in 1..Len(cs) /\ (k = Len(cs) \/ Old(cs[k]))

Current(r, cs) == r.check = Len(cs) /\ Len(cs) # 0

\* The replacement may have been created unknown to the job.
Replaced(r, cs) ==
    r.check \in 1..Len(cs) /\ Len(cs) = r.check + 1 /\ Old(cs[r.check])

Holds(r, cs) ==
    /\ r.pc \in Holding \ {"unretry"} => Current(r, cs)
    /\ r.pc = "unretry" => Current(r, cs) \/ Replaced(r, cs)
    /\ OpenOk(r, cs)

\* What the start step of coordinate relies on when it looks at the check it found, and what
\* it does not look at again when it goes on.
Found(r, cs, rs) ==
    LET n == Len(cs) IN
    /\ r.seen = n
    /\ n # 0 => cs[n] = r.was \/ Cancelled(cs[n])
    /\ n = 0 \/ r.was.phase = "reserved" \/ Retryable(r.was) => NoneLive(cs, rs)

MayStart(r, cs, rs) ==
    LET n == Len(cs) IN
    /\ n = 0 \/ cs[n].phase = "reserved" \/ (r.ci /\ Retryable(cs[n])) \/ Cancelled(cs[n])
    /\ NoneLive(cs, rs)

Starts(r, cs, rs) ==
    /\ r.pc = "live" /\ r.kind # "seed" => Found(r, cs, rs)
    /\ r.pc = "ensure" /\ r.kind # "seed" => MayStart(r, cs, rs)
    /\ r.pc \in {"create", "reserve"} => AllOld(cs) /\ NoneLive(cs, rs)

Works(r, cs, rs) ==
    /\ r.pc \in Undecided => cs[Len(cs)].conclusion # "failure"
    /\ r.pc \in Preparing => NoneLive(cs, rs)
    /\ r.pc = "post" => cs[Len(cs)].phase # "running"
    /\ r.pc \in Attending => OnlyLive(r.run, cs, rs)

Reasonable(r, cs, rs) ==
    /\ r.retry # "none" => NoneLive(cs, rs)
    /\ r.retry = "child-cancelled" => FirstLoss(cs)

Judges(r, cs, rs) ==
    /\ r.pc \in (Preparing \cup Attending \cup {"live", "ensure", "create"}) \ Judging =>
          r.retry = "none"
    /\ r.pc \in Judging => Reasonable(r, cs, rs)

KindOk(r) ==
    /\ Busy(r) => r.kind # "cancel"
    /\ r.pc \in {"cancel_runs", "cancel_checks"} => r.kind = "cancel"

Fits(r, cs, rs) == Holds(r, cs) /\ Starts(r, cs, rs) /\ Works(r, cs, rs) /\ Judges(r, cs, rs)

ChecksOk(cs) ==
    /\ \A k \in 1..Len(cs) - 1 : Old(cs[k])
    /\ \A k, m \in 1..Len(cs) : Lost(cs[k]) /\ Lost(cs[m]) => k = m
    /\ \A k \in 1..Len(cs) : Active(cs[k]) => cs[k].conclusion = "none"

RunsOk(cs, rs) ==
    \A m \in 1..Len(rs) :
        /\ rs[m].check \in 1..Len(cs)
        /\ rs[m].result = "lost" => rs[m].state = "done"
        /\ Live(m, cs, rs) =>
              rs[m].check = Len(cs) /\ cs[Len(cs)].run = m /\ Carries(cs[Len(cs)])

Suits(r, cs, rs) == KindOk(r) /\ (Busy(r) => Fits(r, cs, rs))

Order ==
    /\ \A j \in 1..MaxJobs : Suits(jobs[j], checks, runs)
    /\ \A i, j \in 1..MaxJobs : Busy(jobs[i]) /\ Busy(jobs[j]) => i = j
    /\ ChecksOk(checks)
    /\ RunsOk(checks, runs)

-----------------------------------------------------------------------------
(* What other actors do to a job's check and run takes nothing from it.    *)

\* Checks stay or are cancelled, runs go on, and none comes to life.
Calm(cs, rs, ds, ss) ==
    /\ Len(ds) = Len(cs) /\ Len(ss) = Len(rs)
    /\ \A k \in 1..Len(cs) : ds[k] = cs[k] \/ (Cancelled(ds[k]) /\ ds[k].run = cs[k].run)
    /\ \A m \in 1..Len(rs) :
          /\ ss[m].check = rs[m].check
          /\ ss[m].result = "lost" => ss[m].state = "done"
          /\ Live(m, ds, ss) => Live(m, cs, rs)

LEMMA CancelledIsOld ==
    ASSUME NEW c, Cancelled(c)
    PROVE  /\ Old(c) /\ ~Lost(c) /\ ~Active(c) /\ ~Retryable(c) /\ Carries(c)
           /\ c.conclusion = "cancelled" /\ c.phase = "closed"
BY DEF Cancelled, Old, Lost, Active, Retryable, Carries

LEMMA CalmChecks ==
    ASSUME NEW cs, NEW rs, NEW ds, NEW ss, Len(cs) \in Nat, Calm(cs, rs, ds, ss), ChecksOk(cs)
    PROVE  ChecksOk(ds)
<1>1. \A k \in 1..Len(cs) : ds[k] = cs[k] \/ Cancelled(ds[k])
  BY DEF Calm
<1>2. Len(ds) = Len(cs) /\ \A k \in 1..Len(cs) - 1 : k \in 1..Len(cs)
  BY DEF Calm
<1>3. \A k \in 1..Len(ds) - 1 : Old(ds[k])
  BY <1>1, <1>2, CancelledIsOld DEF ChecksOk
<1>4. \A k, m \in 1..Len(ds) : Lost(ds[k]) /\ Lost(ds[m]) => k = m
  BY <1>1, <1>2, CancelledIsOld DEF ChecksOk
<1>5. \A k \in 1..Len(ds) : Active(ds[k]) => ds[k].conclusion = "none"
  BY <1>1, <1>2, CancelledIsOld DEF ChecksOk
<1>6. QED
  BY <1>3, <1>4, <1>5 DEF ChecksOk

LEMMA CalmRuns ==
    ASSUME NEW cs, NEW rs, NEW ds, NEW ss, Len(cs) \in Nat, Calm(cs, rs, ds, ss),
           RunsOk(cs, rs)
    PROVE  RunsOk(ds, ss)
<1>1. SUFFICES ASSUME NEW m \in 1..Len(ss)
               PROVE  /\ ss[m].check \in 1..Len(ds)
                      /\ ss[m].result = "lost" => ss[m].state = "done"
                      /\ Live(m, ds, ss) => /\ ss[m].check = Len(ds) /\ ds[Len(ds)].run = m
                                            /\ Carries(ds[Len(ds)])
  BY DEF RunsOk
<1>2. /\ Len(ds) = Len(cs) /\ m \in 1..Len(rs) /\ ss[m].check = rs[m].check
      /\ ss[m].result = "lost" => ss[m].state = "done"
      /\ Live(m, ds, ss) => Live(m, cs, rs)
  BY DEF Calm
<1>3. /\ rs[m].check \in 1..Len(cs)
      /\ Live(m, cs, rs) => /\ rs[m].check = Len(cs) /\ cs[Len(cs)].run = m
                            /\ Carries(cs[Len(cs)])
  BY <1>2 DEF RunsOk
<1>4. ASSUME Live(m, ds, ss) PROVE ds[Len(ds)].run = m /\ Carries(ds[Len(ds)])
  <2>1. Len(cs) \in 1..Len(cs) /\ cs[Len(cs)].run = m /\ Carries(cs[Len(cs)])
    BY <1>2, <1>3, <1>4
  <2>2. \/ ds[Len(cs)] = cs[Len(cs)]
        \/ Cancelled(ds[Len(cs)]) /\ ds[Len(cs)].run = cs[Len(cs)].run
    BY <2>1 DEF Calm
  <2>3. QED
    BY <1>2, <2>1, <2>2, CancelledIsOld
<1>5. QED
  BY <1>2, <1>3, <1>4

LEMMA CalmSuits ==
    ASSUME NEW r, NEW cs, NEW rs, NEW ds, NEW ss, Len(cs) \in Nat, Calm(cs, rs, ds, ss),
           Suits(r, cs, rs)
    PROVE  Suits(r, ds, ss)
<1> DEFINE n == Len(cs)
<1>1. /\ Len(ds) = n /\ Len(ss) = Len(rs)
      /\ \A k \in 1..n : ds[k] = cs[k] \/ Cancelled(ds[k])
      /\ \A m \in 1..Len(rs) : Live(m, ds, ss) => Live(m, cs, rs)
  BY DEF Calm
<1>2. NoneLive(cs, rs) => NoneLive(ds, ss)
  BY <1>1 DEF NoneLive
<1>3. \A run : OnlyLive(run, cs, rs) => OnlyLive(run, ds, ss)
  BY <1>1 DEF OnlyLive
<1>4. \A k \in 1..n : Old(cs[k]) => Old(ds[k])
  BY <1>1, CancelledIsOld
<1>5. \A k \in 1..n : ~Lost(cs[k]) => ~Lost(ds[k])
  BY <1>1, CancelledIsOld
<1>6. FirstLoss(cs) => FirstLoss(ds)
  <2>1. \A k \in 1..n - 1 : k \in 1..n
    OBVIOUS
  <2>2. QED
    BY <1>1, <1>5, <2>1 DEF FirstLoss
<1>7. AllOld(cs) => AllOld(ds)
  BY <1>1, <1>4 DEF AllOld
<1>8. ASSUME Fits(r, cs, rs) PROVE Fits(r, ds, ss)
  <2>1. Holds(r, ds)
    <3>1. OpenOk(r, ds)
      BY <1>1, <1>4, <1>8 DEF Fits, Holds, OpenOk
    <3>2. Current(r, cs) => Current(r, ds)
      BY <1>1 DEF Current
    <3>3. Replaced(r, cs) => Replaced(r, ds)
      BY <1>1, <1>4 DEF Replaced
    <3>4. QED
      BY <1>8, <3>1, <3>2, <3>3 DEF Fits, Holds
  <2>2. Found(r, cs, rs) => Found(r, ds, ss)
    <3>1. n # 0 => n \in 1..n
      OBVIOUS
    <3>2. QED
      BY <1>1, <1>2, <3>1 DEF Found
  <2>3. MayStart(r, cs, rs) => MayStart(r, ds, ss)
    <3>1. n # 0 => n \in 1..n
      OBVIOUS
    <3>2. QED
      BY <1>1, <1>2, <3>1 DEF MayStart
  <2>4. Starts(r, ds, ss)
    BY <1>2, <1>7, <1>8, <2>2, <2>3 DEF Fits, Starts
  <2>5. Works(r, ds, ss)
    <3>1. r.pc \in Undecided => n \in 1..n
      <4>1. r.pc \in Undecided => r.pc \in Holding \ {"unretry"}
        BY DEF Undecided, Preparing, Holding
      <4>2. QED
        BY <1>8, <4>1 DEF Fits, Holds, Current
    <3>2. r.pc \in Undecided => ds[n].conclusion # "failure"
      BY <1>1, <1>8, <3>1, CancelledIsOld DEF Fits, Works
    <3>3. r.pc = "post" => ds[n].phase # "running"
      <4>1. "post" \in Undecided
        BY DEF Undecided, Preparing
      <4>2. QED
        BY <1>1, <1>8, <3>1, <4>1, CancelledIsOld DEF Fits, Works
    <3>4. QED
      BY <1>1, <1>2, <1>3, <1>8, <3>2, <3>3 DEF Fits, Works
  <2>6. Judges(r, ds, ss)
    BY <1>2, <1>6, <1>8 DEF Fits, Judges, Reasonable
  <2>7. QED
    BY <2>1, <2>4, <2>5, <2>6 DEF Fits
<1>9. QED
  BY <1>8 DEF Suits

-----------------------------------------------------------------------------
(* What each class of phases asks for, and gives.                          *)

LEMMA SuitsGone ==
    ASSUME NEW s, NEW cs, NEW rs, s.pc \in {"done", "vanished"}
    PROVE  Suits(s, cs, rs)
BY DEF Suits, KindOk, Busy

LEMMA SuitsCleanup ==
    ASSUME NEW s, NEW cs, NEW rs, s.pc = "cleanup", s.kind # "cancel", OpenOk(s, cs)
    PROVE  Suits(s, cs, rs)
<1>1. /\ s.pc \notin Holding /\ s.pc \notin Undecided /\ s.pc \notin Preparing
      /\ s.pc \notin Attending /\ s.pc \notin Judging
  BY DEF Holding, Undecided, Preparing, Attending, Judging
<1>2. Fits(s, cs, rs)
  BY <1>1 DEF Fits, Holds, Starts, Works, Judges
<1>3. QED
  BY <1>2 DEF Suits, KindOk

LEMMA SuitsHolding ==
    ASSUME NEW s, NEW cs, NEW rs, s.pc \in {"retry", "abandon", "unretry"},
           s.kind # "cancel", OpenOk(s, cs),
           Current(s, cs) \/ (s.pc = "unretry" /\ Replaced(s, cs))
    PROVE  Suits(s, cs, rs)
<1>1. /\ s.pc \notin Undecided /\ s.pc \notin Preparing
      /\ s.pc \notin Attending /\ s.pc \notin Judging
  BY DEF Undecided, Preparing, Attending, Judging
<1>2. Fits(s, cs, rs)
  BY <1>1 DEF Fits, Holds, Starts, Works, Judges
<1>3. QED
  BY <1>2 DEF Suits, KindOk

LEMMA SuitsCreating ==
    ASSUME NEW s, NEW cs, NEW rs, s.pc \in {"create", "reserve"}, s.kind # "cancel",
           OpenOk(s, cs), AllOld(cs), NoneLive(cs, rs),
           s.pc = "create" => s.retry = "none", s.pc = "reserve" => Current(s, cs)
    PROVE  Suits(s, cs, rs)
<1>1. /\ s.pc \notin Undecided /\ s.pc \notin Preparing
      /\ s.pc \notin Attending /\ s.pc \notin Judging /\ "create" \notin Holding
  BY DEF Undecided, Preparing, Attending, Judging, Holding
<1>2. Fits(s, cs, rs)
  BY <1>1 DEF Fits, Holds, Starts, Works, Judges
<1>3. QED
  BY <1>2 DEF Suits, KindOk

\* What a job that prepares a run has.
Ready(r, cs, rs) ==
    /\ r.kind # "cancel" /\ Current(r, cs) /\ OpenOk(r, cs) /\ r.retry = "none"
    /\ cs[Len(cs)].conclusion # "failure" /\ NoneLive(cs, rs)

LEMMA SuitsPreparing ==
    ASSUME NEW s, NEW cs, NEW rs, s.pc \in Preparing, Ready(s, cs, rs),
           s.pc = "post" => cs[Len(cs)].phase # "running"
    PROVE  Suits(s, cs, rs)
<1>1. /\ s.pc \notin Attending /\ s.pc \notin Judging
      /\ s.pc \notin {"live", "ensure", "create", "reserve", "unretry"}
      /\ s.pc \in Holding /\ s.pc \in Undecided
      /\ s.pc \notin {"cancel_runs", "cancel_checks"}
  BY DEF Preparing, Attending, Judging, Holding, Undecided
<1>2. Fits(s, cs, rs)
  BY <1>1 DEF Fits, Holds, Starts, Works, Judges, Ready
<1>3. QED
  BY <1>1, <1>2 DEF Suits, KindOk, Ready

LEMMA ReadyWhen ==
    ASSUME NEW r, NEW cs, NEW rs, r.pc \in Preparing, Suits(r, cs, rs)
    PROVE  Ready(r, cs, rs)
<1>1. /\ Busy(r) /\ r.pc \notin Judging /\ r.pc \in Holding /\ r.pc # "unretry"
      /\ r.pc \in Undecided
  BY DEF Preparing, Judging, Holding, Undecided, Busy
<1>2. Fits(r, cs, rs) /\ r.kind # "cancel"
  BY <1>1 DEF Suits, KindOk
<1>3. QED
  BY <1>1, <1>2 DEF Fits, Holds, Works, Judges, Ready

\* What a job that attends to its run has.
AtRun(r, cs, rs) ==
    /\ r.kind # "cancel" /\ Current(r, cs) /\ OpenOk(r, cs)
    /\ OnlyLive(r.run, cs, rs)

LEMMA SuitsAttending ==
    ASSUME NEW s, NEW cs, NEW rs, s.pc \in Attending, AtRun(s, cs, rs),
           s.pc \in Undecided => cs[Len(cs)].conclusion # "failure",
           s.retry = "none" \/ (s.pc \in Judging /\ Reasonable(s, cs, rs))
    PROVE  Suits(s, cs, rs)
<1>1. /\ s.pc \notin Preparing
      /\ s.pc \notin {"live", "ensure", "create", "reserve", "unretry", "post"}
      /\ s.pc \in Holding /\ s.pc \notin {"cancel_runs", "cancel_checks"}
  BY DEF Preparing, Attending, Holding
<1>2. s.retry = "none" => Reasonable(s, cs, rs)
  BY DEF Reasonable
<1>3. Fits(s, cs, rs)
  BY <1>1, <1>2 DEF Fits, Holds, Starts, Works, Judges, AtRun
<1>4. QED
  BY <1>1, <1>3 DEF Suits, KindOk, AtRun

LEMMA AtRunWhen ==
    ASSUME NEW r, NEW cs, NEW rs, r.pc \in Attending, Suits(r, cs, rs)
    PROVE  /\ AtRun(r, cs, rs)
           /\ r.pc \in Undecided => cs[Len(cs)].conclusion # "failure"
           /\ r.pc \notin Judging => r.retry = "none"
           /\ r.pc \in Judging => Reasonable(r, cs, rs)
<1>1. Busy(r) /\ r.pc \in Holding /\ r.pc # "unretry"
  BY DEF Attending, Holding, Busy
<1>2. Fits(r, cs, rs) /\ r.kind # "cancel"
  BY <1>1 DEF Suits, KindOk
<1>3. QED
  BY <1>1, <1>2 DEF Fits, Holds, Works, Judges, AtRun

-----------------------------------------------------------------------------
(* What the operations on checks and runs leave.                           *)

FailedForGood(c) == ~Active(c) /\ c.conclusion = "failure" /\ ~Retryable(c)

Careful(cs, ds) ==
    \A k \in 1..Len(cs) : FailedForGood(cs[k]) => ~Active(ds[k]) /\ ds[k].conclusion # "success"

\* With no check, or one that authorises nothing, no run is live.
LEMMA Quiet ==
    ASSUME NEW cs, NEW rs, RunsOk(cs, rs), Len(cs) = 0 \/ ~Carries(cs[Len(cs)])
    PROVE  NoneLive(cs, rs)
<1>1. SUFFICES ASSUME NEW m \in 1..Len(rs), Live(m, cs, rs) PROVE FALSE
  BY DEF NoneLive
<1>2. rs[m].check \in 1..Len(cs) /\ rs[m].check = Len(cs) /\ Carries(cs[Len(cs)])
  BY <1>1 DEF RunsOk
<1>3. QED
  BY <1>2

LEMMA NoneIsOnly ==
    ASSUME NEW cs, NEW rs, NoneLive(cs, rs), NEW run PROVE OnlyLive(run, cs, rs)
BY DEF NoneLive, OnlyLive

\* The checks ds are cs with the last one replaced by c.
Patched(cs, ds, c) ==
    /\ Len(cs) \in Nat /\ Len(cs) # 0 /\ Len(ds) = Len(cs)
    /\ \A k \in 1..Len(cs) : ds[k] = IF k = Len(cs) THEN c ELSE cs[k]

LEMMA PatchKeeps ==
    ASSUME NEW cs, NEW ds, NEW c, Patched(cs, ds, c), ChecksOk(cs),
           Lost(c) => FirstLoss(cs), Active(c) => c.conclusion = "none",
           FailedForGood(cs[Len(cs)]) => ~Active(c) /\ c.conclusion # "success"
    PROVE  /\ ChecksOk(ds) /\ Careful(cs, ds) /\ ds[Len(ds)] = c
           /\ FirstLoss(cs) => FirstLoss(ds)
           /\ \A r : OpenOk(r, cs) => OpenOk(r, ds)
           /\ \A r : Current(r, cs) => Current(r, ds)
           /\ \A r : Replaced(r, cs) => Replaced(r, ds)
<1> DEFINE n == Len(cs)
<1>1. /\ n \in Nat /\ n # 0 /\ Len(ds) = n /\ n \in 1..n /\ ds[n] = c
      /\ \A k \in 1..n - 1 : k \in 1..n /\ k # n /\ ds[k] = cs[k]
      /\ \A k \in 1..n : k # n => k \in 1..n - 1 /\ ds[k] = cs[k]
  BY DEF Patched
<1> HIDE DEF n
<1>2. \A k \in 1..n - 1 : Old(ds[k])
  BY <1>1 DEF ChecksOk, n
<1>3. \A k, m \in 1..n : Lost(ds[k]) /\ Lost(ds[m]) => k = m
  <2>1. SUFFICES ASSUME NEW k \in 1..n, NEW m \in 1..n, Lost(ds[k]), Lost(ds[m]) PROVE k = m
    OBVIOUS
  <2>2. CASE k # n /\ m # n
    BY <1>1, <2>1, <2>2 DEF ChecksOk, n
  <2>3. CASE k = n \/ m = n
    <3>1. Lost(c) => \A i \in 1..n - 1 : ~Lost(cs[i])
      BY DEF FirstLoss, n
    <3>2. QED
      BY <1>1, <2>1, <2>3, <3>1
  <2>4. QED
    BY <2>2, <2>3
<1>4. \A k \in 1..n : Active(ds[k]) => ds[k].conclusion = "none"
  BY <1>1 DEF ChecksOk, n
<1>5. ChecksOk(ds)
  BY <1>1, <1>2, <1>3, <1>4 DEF ChecksOk
<1>6. Careful(cs, ds)
  <2>1. SUFFICES ASSUME NEW k \in 1..n, FailedForGood(cs[k])
                 PROVE  ~Active(ds[k]) /\ ds[k].conclusion # "success"
    BY DEF Careful, n
  <2>2. CASE k = n
    BY <1>1, <2>1, <2>2 DEF n
  <2>3. CASE k # n
    BY <1>1, <2>1, <2>3 DEF FailedForGood
  <2>4. QED
    BY <2>2, <2>3
<1>7. FirstLoss(cs) => FirstLoss(ds)
  BY <1>1 DEF FirstLoss, n
<1>8. ASSUME NEW r, OpenOk(r, cs) PROVE OpenOk(r, ds)
  BY <1>1, <1>8 DEF OpenOk, n
<1>9. ASSUME NEW r, Replaced(r, cs) PROVE Replaced(r, ds)
  <2>1. r.check \in 1..n /\ n = r.check + 1 /\ Old(cs[r.check])
    BY <1>9 DEF Replaced, n
  <2>2. r.check \in 1..n /\ r.check # n
    BY <1>1, <2>1
  <2>3. ds[r.check] = cs[r.check]
    BY <1>1, <2>2
  <2>4. QED
    BY <1>1, <2>1, <2>3 DEF Replaced
<1>10. \A r : Current(r, cs) => Current(r, ds)
  BY <1>1 DEF Current, n
<1>11. QED
  BY <1>1, <1>5, <1>6, <1>7, <1>8, <1>9, <1>10

\* A check that authorises nothing brings no run to life.
LEMMA PatchRuns ==
    ASSUME NEW cs, NEW ds, NEW c, NEW rs, Patched(cs, ds, c), RunsOk(cs, rs),
           c.phase # "running",
           \/ NoneLive(cs, rs)
           \/ Carries(c) /\ (c.run = cs[Len(cs)].run \/ OnlyLive(c.run, cs, rs))
    PROVE  /\ RunsOk(ds, rs)
           /\ NoneLive(cs, rs) => NoneLive(ds, rs)
           /\ \A run : OnlyLive(run, cs, rs) => OnlyLive(run, ds, rs)
<1> DEFINE n == Len(cs)
<1>1. n \in Nat /\ n # 0 /\ Len(ds) = n /\ n \in 1..n /\ ds[n] = c
  BY DEF Patched
<1>2. ASSUME NEW m \in 1..Len(rs)
      PROVE  rs[m].check \in 1..n /\ (Live(m, ds, rs) => Live(m, cs, rs))
  <2>1. rs[m].check \in 1..n
    BY <1>2 DEF RunsOk
  <2>2. ds[rs[m].check] = c \/ ds[rs[m].check] = cs[rs[m].check]
    BY <2>1 DEF Patched
  <2>3. QED
    BY <2>1, <2>2 DEF Live
<1>3. NoneLive(cs, rs) => NoneLive(ds, rs)
  BY <1>2 DEF NoneLive
<1>4. \A run : OnlyLive(run, cs, rs) => OnlyLive(run, ds, rs)
  BY <1>2 DEF OnlyLive
<1>5. ASSUME NEW m \in 1..Len(rs), Live(m, ds, rs)
      PROVE  rs[m].check = n /\ c.run = m /\ Carries(c)
  <2>1. /\ Live(m, cs, rs) /\ ~NoneLive(cs, rs)
        /\ rs[m].check = n /\ cs[n].run = m
    BY <1>2, <1>5 DEF RunsOk, NoneLive
  <2>2. QED
    BY <1>5, <2>1 DEF OnlyLive
<1>6. RunsOk(ds, rs)
  BY <1>1, <1>2, <1>5 DEF RunsOk
<1>7. QED
  BY <1>3, <1>4, <1>6

\* The publication of a run that waits for it.
LEMMA PatchPublishes ==
    ASSUME NEW cs, NEW ds, NEW c, NEW rs, Patched(cs, ds, c), RunsOk(cs, rs),
           c.phase = "running", NoneLive(cs, rs),
           c.run \in 1..Len(rs), rs[c.run].check = Len(cs)
    PROVE  RunsOk(ds, rs) /\ OnlyLive(c.run, ds, rs)
<1> DEFINE n == Len(cs)
<1>1. n \in Nat /\ n # 0 /\ Len(ds) = n /\ n \in 1..n /\ ds[n] = c
  BY DEF Patched
<1>2. ASSUME NEW m \in 1..Len(rs)
      PROVE  rs[m].check \in 1..n /\ (Live(m, ds, rs) => m = c.run)
  <2>1. rs[m].check \in 1..n /\ ~Live(m, cs, rs)
    BY <1>2 DEF RunsOk, NoneLive
  <2>2. ds[rs[m].check] = c \/ ds[rs[m].check] = cs[rs[m].check]
    BY <2>1 DEF Patched
  <2>3. QED
    BY <2>1, <2>2 DEF Live
<1>3. Carries(c)
  BY DEF Carries
<1>4. RunsOk(ds, rs)
  BY <1>1, <1>2, <1>3 DEF RunsOk
<1>5. QED
  BY <1>2, <1>4 DEF OnlyLive

\* A new check after checks that nobody goes on with.
LEMMA AppendKeeps ==
    ASSUME NEW cs \in Seq(Check), NEW rs, ChecksOk(cs), RunsOk(cs, rs), AllOld(cs),
           NoneLive(cs, rs)
    PROVE  LET ds == Append(cs, Reserved) IN
           /\ ChecksOk(ds) /\ Careful(cs, ds) /\ RunsOk(ds, rs) /\ NoneLive(ds, rs)
           /\ Len(ds) = Len(cs) + 1 /\ ds[Len(ds)] = Reserved
           /\ \A k \in 1..Len(cs) : ds[k] = cs[k]
<1> DEFINE n == Len(cs)
           ds == Append(cs, Reserved)
<1>1. n \in Nat
  BY LenProperties
<1>2. /\ Len(ds) = n + 1 /\ ds[n + 1] = Reserved
      /\ \A k \in 1..n : ds[k] = cs[k]
  BY ReservedTyped, AppendProperties
<1> HIDE DEF ds
<1>3. Reserved.retry = "none" /\ Reserved.conclusion = "none"
  BY DEF Reserved
<1>4. ~Lost(Reserved)
  BY <1>3 DEF Lost
<1>5. \A k \in 1..n + 1 : k \in 1..n \/ k = n + 1
  BY <1>1
<1>6. (n + 1) - 1 = n
  BY <1>1
<1>7. \A k \in 1..Len(ds) - 1 : Old(ds[k])
  BY <1>2, <1>6 DEF AllOld
<1>8. \A k, m \in 1..Len(ds) : Lost(ds[k]) /\ Lost(ds[m]) => k = m
  BY <1>2, <1>4, <1>5 DEF ChecksOk
<1>9. \A k \in 1..Len(ds) : Active(ds[k]) => ds[k].conclusion = "none"
  BY <1>2, <1>3, <1>5 DEF ChecksOk
<1>10. ChecksOk(ds)
  BY <1>7, <1>8, <1>9 DEF ChecksOk
<1>11. Careful(cs, ds)
  BY <1>2 DEF Careful, FailedForGood
<1>12. ASSUME NEW m \in 1..Len(rs) PROVE rs[m].check \in 1..n + 1 /\ ~Live(m, ds, rs)
  <2>1. rs[m].check \in 1..n /\ ~Live(m, cs, rs)
    BY <1>12 DEF RunsOk, NoneLive
  <2>2. ds[rs[m].check] = cs[rs[m].check]
    BY <1>2, <2>1
  <2>3. rs[m].check \in 1..n + 1
    BY <1>1, <2>1
  <2>4. QED
    BY <2>1, <2>2, <2>3 DEF Live
<1>13. NoneLive(ds, rs)
  BY <1>12 DEF NoneLive
<1>14. RunsOk(ds, rs)
  BY <1>2, <1>12 DEF RunsOk
<1>15. QED
  BY <1>2, <1>10, <1>11, <1>13, <1>14 DEF ds

\* Stopping runs is calm.
LEMMA StopIsCalm ==
    ASSUME TypeOK, EndedRuns(runs), RunsOk(checks, runs), NEW S, NEW ss \in {runs, Stop(S)}
    PROVE  Calm(checks, runs, checks, ss)
<1>1. /\ runs \in Seq(Run) /\ Len(runs) \in Nat
      /\ \A m \in 1..Len(runs) : runs[m] \in Run
  BY LenProperties, ElementOfSeq DEF TypeOK
<1>2. CASE ss = runs
  BY <1>2 DEF Calm, RunsOk
<1>3. CASE ss = Stop(S)
  <2>1. ss = [m \in 1..Len(runs) |-> IF m \in S THEN Stopped(runs[m]) ELSE runs[m]]
    BY <1>3 DEF Stop
  <2>2. Len(ss) = Len(runs)
    BY <1>1, <1>3, StopKeeps
  <2>3. ASSUME NEW m \in 1..Len(runs)
        PROVE  /\ ss[m].check = runs[m].check
               /\ ss[m].result = "lost" => ss[m].state = "done"
               /\ Live(m, checks, ss) => Live(m, checks, runs)
    <3>1. runs[m] \in Run /\ (runs[m].result = "lost" => runs[m].state = "done")
      BY <1>1, <2>3 DEF RunsOk
    <3>2. CASE ss[m] = runs[m]
      BY <3>1, <3>2 DEF Live
    <3>3. CASE m \in S /\ runs[m].state = "queued"
      <4>1. ss[m] = [runs[m] EXCEPT !.state = "done", !.result = "cancelled"]
        BY <2>1, <3>3 DEF Stopped
      <4>2. ss[m].state = "done" /\ ss[m].check = runs[m].check
        BY <3>1, <4>1 DEF Run
      <4>3. QED
        BY <4>2 DEF Live, Executes
    <3>4. CASE m \in S /\ runs[m].state = "executing"
      <4>1. ss[m] = [runs[m] EXCEPT !.state = "stopping"]
        BY <2>1, <3>4 DEF Stopped
      <4>2. /\ ss[m].state = "stopping" /\ ss[m].check = runs[m].check
            /\ ss[m].result = runs[m].result
        BY <3>1, <4>1 DEF Run
      <4>3. QED
        BY <3>1, <3>4, <4>2 DEF Live, Executes
    <3>5. CASE m \notin S \/ runs[m].state \notin {"queued", "executing"}
      <4>1. ss[m] = runs[m]
        BY <2>1, <3>5 DEF Stopped
      <4>2. QED
        BY <3>2, <4>1
    <3>6. QED
      BY <3>3, <3>4, <3>5
  <2>4. QED
    BY <2>2, <2>3 DEF Calm
<1>4. QED
  BY <1>2, <1>3

\* A new run, while its check does not run, waits.
LEMMA DispatchIsQuiet ==
    ASSUME TypeOK, RunsOk(checks, runs), NoneLive(checks, runs), Len(checks) # 0,
           checks[Len(checks)].phase # "running", NEW v \in BOOLEAN
    PROVE  LET ss == Append(runs, NewRun(Len(checks), v)) IN
           RunsOk(checks, ss) /\ NoneLive(checks, ss)
<1> DEFINE n == Len(checks)
           new == NewRun(n, v)
           ss == Append(runs, new)
<1>1. n \in 1..n /\ Len(runs) \in Nat /\ runs \in Seq(Run) /\ n \in Nat
  BY LenProperties DEF TypeOK
<1>2. new \in Run /\ new.check = n /\ new.result = "none" /\ new.state = "queued"
  BY <1>1 DEF NewRun, Run
<1> HIDE DEF new
<1>3. /\ Len(ss) = Len(runs) + 1 /\ ss[Len(runs) + 1] = new
      /\ \A m \in 1..Len(runs) : ss[m] = runs[m]
  BY <1>1, <1>2, AppendProperties
<1> HIDE DEF ss
<1>4. ASSUME NEW m \in 1..Len(ss)
      PROVE  /\ ss[m].check \in 1..n /\ (ss[m].result = "lost" => ss[m].state = "done")
             /\ ~Live(m, checks, ss)
  <2>1. CASE m \in 1..Len(runs)
    <3>1. /\ runs[m].check \in 1..n /\ (runs[m].result = "lost" => runs[m].state = "done")
          /\ ~Live(m, checks, runs)
      BY <2>1 DEF RunsOk, NoneLive
    <3>2. QED
      BY <1>3, <2>1, <3>1 DEF Live
  <2>2. CASE m = Len(runs) + 1
    BY <1>1, <1>2, <1>3, <2>2 DEF Live, Executes
  <2>3. QED
    BY <1>1, <1>3, <1>4, <2>1, <2>2
<1>5. QED
  BY <1>4 DEF RunsOk, NoneLive, ss, new

-----------------------------------------------------------------------------
(* The shape of a step of a job that keeps the order.                      *)

Orderly(j) ==
    \E s : /\ jobs' = [jobs EXCEPT ![j] = s] /\ Suits(s, checks', runs')
           /\ ChecksOk(checks') /\ RunsOk(checks', runs') /\ Careful(checks, checks')

LEMMA CarefulItself == ASSUME NEW cs PROVE Careful(cs, cs)
BY DEF Careful, FailedForGood

LEMMA StaysOrderly ==
    ASSUME IInv, Order, NEW j \in 1..MaxJobs, NEW s, Suits(s, checks, runs), Becomes(j, s),
           checks' = checks, NEW S, runs' \in {runs, Stop(S)}
    PROVE  Orderly(j)
<1>1. Len(checks) \in Nat /\ TypeOK /\ EndedRuns(runs)
  BY Known
<1>2. ChecksOk(checks) /\ RunsOk(checks, runs)
  BY DEF Order
<1>3. Calm(checks, runs, checks, runs')
  BY <1>1, <1>2, StopIsCalm
<1>4. Suits(s, checks, runs') /\ RunsOk(checks, runs')
  BY <1>1, <1>2, <1>3, CalmSuits, CalmRuns
<1>5. Careful(checks, checks)
  BY CarefulItself
<1>6. QED
  BY <1>2, <1>4, <1>5 DEF Orderly, Becomes

LEMMA ReadsOrderly ==
    ASSUME IInv, Order, NEW j \in 1..MaxJobs, NEW s, Suits(s, checks, runs), Reads(j, s)
    PROVE  Orderly(j)
<1>1. Becomes(j, s) /\ checks' = checks /\ runs' \in {runs, Stop({})}
  BY DEF Reads
<1>2. QED
  BY <1>1, StaysOrderly

\* What a change of the current check to c leaves.
Left(ds, c) ==
    /\ ds[Len(ds)] = c
    /\ FirstLoss(checks) => FirstLoss(ds)
    /\ \A r : OpenOk(r, checks) => OpenOk(r, ds)
    /\ \A r : Current(r, checks) => Current(r, ds)
    /\ \A r : Replaced(r, checks) => Replaced(r, ds)
    /\ NoneLive(checks, runs) => NoneLive(ds, runs)
    /\ \A run : OnlyLive(run, checks, runs) => OnlyLive(run, ds, runs)

LEMMA PatchesOrderly ==
    ASSUME IInv, Order, NEW j \in 1..MaxJobs, Len(checks) # 0, NEW c \in Check,
           Lost(c) => FirstLoss(checks), Active(c) => c.conclusion = "none",
           FailedForGood(checks[Len(checks)]) => ~Active(c) /\ c.conclusion # "success",
           c.phase # "running",
           \/ NoneLive(checks, runs)
           \/ /\ Carries(c)
              /\ c.run = checks[Len(checks)].run \/ OnlyLive(c.run, checks, runs),
           NEW good, NEW bad, Suits(bad, checks, runs),
           \A ds : Left(ds, c) => Suits(good, ds, runs) /\ Suits(bad, ds, runs),
           Patches(j, Len(checks), c, good, bad)
    PROVE  Orderly(j)
<1> DEFINE ds == [checks EXCEPT ![Len(checks)] = c]
<1>1. Len(checks) \in Nat /\ checks \in Seq(Check) /\ Len(checks) \in 1..Len(checks)
  BY Known DEF TypeOK
<1>2. ChecksOk(checks) /\ RunsOk(checks, runs) /\ Careful(checks, checks)
  BY CarefulItself DEF Order
<1>3. Patched(checks, ds, c)
  <2>1. /\ Len(ds) = Len(checks)
        /\ \A k \in 1..Len(checks) : ds[k] = IF k = Len(checks) THEN c ELSE checks[k]
    BY <1>1, ExceptSeq
  <2> HIDE DEF ds
  <2>2. QED
    BY <1>1, <2>1 DEF Patched
<1>4. runs' = runs /\ (\/ checks' = ds /\ Becomes(j, good)
                       \/ checks' \in {checks, ds} /\ Becomes(j, bad))
  BY DEF Patches
<1> HIDE DEF ds
<1>5. /\ ChecksOk(ds) /\ Careful(checks, ds) /\ RunsOk(ds, runs) /\ Left(ds, c)
  <2>1. /\ ChecksOk(ds) /\ Careful(checks, ds) /\ ds[Len(ds)] = c
        /\ FirstLoss(checks) => FirstLoss(ds)
        /\ \A r : OpenOk(r, checks) => OpenOk(r, ds)
        /\ \A r : Current(r, checks) => Current(r, ds)
        /\ \A r : Replaced(r, checks) => Replaced(r, ds)
    BY <1>2, <1>3, PatchKeeps
  <2>2. /\ RunsOk(ds, runs)
        /\ NoneLive(checks, runs) => NoneLive(ds, runs)
        /\ \A run : OnlyLive(run, checks, runs) => OnlyLive(run, ds, runs)
    BY <1>2, <1>3, PatchRuns
  <2>3. QED
    BY <2>1, <2>2 DEF Left
<1>6. Suits(good, ds, runs) /\ Suits(bad, ds, runs)
  BY <1>5
<1>7. CASE checks' = ds /\ Becomes(j, good)
  BY <1>4, <1>5, <1>6, <1>7 DEF Orderly, Becomes
<1>8. CASE checks' \in {checks, ds} /\ Becomes(j, bad)
  <2>1. /\ ChecksOk(checks') /\ Careful(checks, checks') /\ RunsOk(checks', runs)
        /\ Suits(bad, checks', runs)
    BY <1>2, <1>5, <1>6, <1>8
  <2>2. QED
    BY <1>4, <1>8, <2>1 DEF Orderly, Becomes
<1>9. QED
  BY <1>4, <1>7, <1>8

\* The job starts a check for which no run is live ...
LEMMA StartsOrderly ==
    ASSUME IInv, Order, NEW j \in 1..MaxJobs, Len(checks) # 0,
           NEW phase \in ActivePhases \ {"running"}, NoneLive(checks, runs),
           checks[Len(checks)].conclusion # "failure",
           NEW good, NEW bad, Suits(bad, checks, runs),
           \A ds : Left(ds, Started(checks[Len(checks)], phase)) =>
                     Suits(good, ds, runs) /\ Suits(bad, ds, runs),
           Patches(j, Len(checks), Started(checks[Len(checks)], phase), good, bad)
    PROVE  Orderly(j)
<1> DEFINE old == checks[Len(checks)]
           c == Started(old, phase)
<1>1. old \in Check
  <2>1. Len(checks) \in 1..Len(checks)
    BY Known
  <2>2. QED
    BY <2>1, Known
<1>2. /\ c \in Check /\ c.phase = phase /\ c.conclusion = "none" /\ c.retry = "none"
  <2>1. c \in Check
    BY <1>1, StartedTyped
  <2>2. QED
    BY <1>1, <2>1 DEF Started, Check
<1>3. ~Lost(c) /\ c.phase # "running" /\ ~FailedForGood(old)
  BY <1>2 DEF Lost, FailedForGood
<1> HIDE DEF c
<1>4. Patches(j, Len(checks), c, good, bad)
  BY DEF c
<1>5. \A ds : Left(ds, c) => Suits(good, ds, runs) /\ Suits(bad, ds, runs)
  BY DEF c
<1>6. QED
  BY <1>2, <1>3, <1>4, <1>5, PatchesOrderly

\* ... and closes one without a reason for a retry while a run is.
LEMMA ClosesOrderly ==
    ASSUME IInv, Order, NEW j \in 1..MaxJobs, Len(checks) # 0,
           NEW conclusion \in Conclusions, NEW retry \in Reasons, NEW run \in Nat,
           NEW lost \in Nat,
           retry = "child-cancelled" => FirstLoss(checks),
           conclusion = "success" => checks[Len(checks)].conclusion # "failure",
           NoneLive(checks, runs) \/ (retry = "none" /\ (run = 0 \/ OnlyLive(run, checks, runs))),
           NEW good, NEW bad, Suits(bad, checks, runs),
           \A ds : Left(ds, Closed(checks[Len(checks)], conclusion, retry, run, lost)) =>
                     Suits(good, ds, runs) /\ Suits(bad, ds, runs),
           Patches(j, Len(checks), Closed(checks[Len(checks)], conclusion, retry, run, lost),
                   good, bad)
    PROVE  Orderly(j)
<1> DEFINE old == checks[Len(checks)]
           c == Closed(old, conclusion, retry, run, lost)
<1>1. old \in Check
  <2>1. Len(checks) \in 1..Len(checks)
    BY Known
  <2>2. QED
    BY <2>1, Known
<1>2. /\ c \in Check /\ c.phase = "closed" /\ c.conclusion = conclusion /\ c.retry = retry
      /\ c.run = IF run = 0 THEN old.run ELSE run
  <2>1. c \in Check
    BY <1>1, ClosedTyped
  <2>2. QED
    BY <1>1, <2>1 DEF Closed, Check
<1> HIDE DEF c
<1>3. ~Active(c) /\ c.phase # "running"
  BY <1>2 DEF Active
<1>4. Lost(c) => FirstLoss(checks)
  BY <1>2 DEF Lost
<1>5. FailedForGood(old) => c.conclusion # "success"
  BY <1>2 DEF FailedForGood
<1>6. retry = "none" => Carries(c)
  BY <1>2, <1>3 DEF Carries, Retryable
<1>7. \/ NoneLive(checks, runs)
      \/ Carries(c) /\ (c.run = old.run \/ OnlyLive(c.run, checks, runs))
  BY <1>2, <1>6
<1>8. Patches(j, Len(checks), c, good, bad)
  BY DEF c
<1>9. \A ds : Left(ds, c) => Suits(good, ds, runs) /\ Suits(bad, ds, runs)
  BY DEF c
<1>10. QED
  BY <1>2, <1>3, <1>4, <1>5, <1>7, <1>8, <1>9, PatchesOrderly

\* A new check.
LEMMA CreatesOrderly ==
    ASSUME IInv, Order, NEW j \in 1..MaxJobs, AllOld(checks), NoneLive(checks, runs),
           NEW good, NEW bad, Suits(bad, checks, runs),
           Suits(good, Append(checks, Reserved), runs),
           Suits(bad, Append(checks, Reserved), runs),
           Creates(j, good, bad)
    PROVE  Orderly(j)
<1> DEFINE ds == Append(checks, Reserved)
<1>1. checks \in Seq(Check)
  BY DEF IInv, TypeOK
<1>2. ChecksOk(checks) /\ RunsOk(checks, runs) /\ Careful(checks, checks)
  BY CarefulItself DEF Order
<1>3. ChecksOk(ds) /\ Careful(checks, ds) /\ RunsOk(ds, runs)
  BY <1>1, <1>2, AppendKeeps
<1>4. runs' = runs /\ (\/ checks' = ds /\ Becomes(j, good)
                       \/ checks' \in {checks, ds} /\ Becomes(j, bad))
  BY DEF Creates
<1>5. Suits(good, ds, runs) /\ Suits(bad, ds, runs)
  OBVIOUS
<1> HIDE DEF ds
<1>6. CASE checks' = ds /\ Becomes(j, good)
  BY <1>3, <1>4, <1>5, <1>6 DEF Orderly, Becomes
<1>7. CASE checks' \in {checks, ds} /\ Becomes(j, bad)
  <2>1. /\ ChecksOk(checks') /\ Careful(checks, checks') /\ RunsOk(checks', runs)
        /\ Suits(bad, checks', runs)
    BY <1>2, <1>3, <1>5, <1>7
  <2>2. QED
    BY <1>4, <1>7, <2>1 DEF Orderly, Becomes
<1>8. QED
  BY <1>4, <1>6, <1>7

-----------------------------------------------------------------------------
(* What a job that goes on keeps.                                          *)

Like(s, r) ==
    s.kind = r.kind /\ s.check = r.check /\ s.open \subseteq r.open

LEMMA GoesLike ==
    ASSUME NEW j, jobs[j] \in Job, NEW pc \in Phases \ {"done", "vanished"}
    PROVE  LET s == Goes(j, pc)
               r == jobs[j]
           IN  /\ s.pc = pc /\ Like(s, r) /\ s = [r EXCEPT !.pc = pc]
               /\ s.open = r.open /\ s.run = r.run /\ s.retry = r.retry
               /\ s.ci = r.ci /\ s.seen = r.seen /\ s.was = r.was
<1>1. Goes(j, pc) = [jobs[j] EXCEPT !.pc = pc]
  BY DEF Goes
<1>2. QED
  BY <1>1 DEF Job, Like

LEMMA GoneSuits ==
    ASSUME NEW j, NEW pc \in {"done", "vanished"}, NEW cs, NEW rs
    PROVE  Goes(j, pc).pc = pc /\ Suits(Goes(j, pc), cs, rs)
<1>1. Goes(j, pc) = [Idle EXCEPT !.pc = pc]
  BY DEF Goes
<1>2. Goes(j, pc).pc = pc
  BY <1>1, IdleTyped DEF Job
<1>3. QED
  BY <1>2, SuitsGone

LEMMA FinalLike ==
    ASSUME NEW s \in Job
    PROVE  /\ Final(s).pc = s.pc /\ Final(s).kind = s.kind /\ Final(s).check = s.check
           /\ Final(s).open \subseteq s.open
BY DEF Final, Job

LEMMA OpenLike ==
    ASSUME NEW s, NEW r, Like(s, r), NEW cs
    PROVE  /\ OpenOk(r, cs) => OpenOk(s, cs)
           /\ Current(r, cs) => Current(s, cs)
           /\ Replaced(r, cs) => Replaced(s, cs)
BY DEF Like, OpenOk, Current, Replaced

LEMMA ReadyLike ==
    ASSUME NEW s, NEW r, Like(s, r), s.retry = r.retry, NEW cs, NEW rs, Ready(r, cs, rs)
    PROVE  Ready(s, cs, rs)
BY OpenLike DEF Ready, Like

LEMMA AtRunLike ==
    ASSUME NEW s, NEW r, Like(s, r), s.run = r.run, NEW cs, NEW rs, AtRun(r, cs, rs)
    PROVE  AtRun(s, cs, rs)
BY OpenLike DEF AtRun, Like

LEMMA ReadyIsAtRun ==
    ASSUME NEW r, NEW cs, NEW rs, Ready(r, cs, rs)
    PROVE  AtRun(r, cs, rs)
BY NoneIsOnly DEF Ready, AtRun

\* Where a job that prepares a run can go.
LEMMA ReadyGoes ==
    ASSUME NEW j, jobs[j] \in Job, NEW cs, NEW rs, Ready(jobs[j], cs, rs)
    PROVE  /\ \A pc \in Preparing \ {"post"} : Suits(Goes(j, pc), cs, rs)
           /\ cs[Len(cs)].phase # "running" => Suits(Goes(j, "post"), cs, rs)
           /\ \A pc \in {"revoke", "fail", "cancel_child"} : Suits(Goes(j, pc), cs, rs)
           /\ \A pc \in {"cleanup", "done", "vanished"} : Suits(Goes(j, pc), cs, rs)
<1> DEFINE r == jobs[j]
<1>1. /\ \A pc \in Preparing : pc \in Phases \ {"done", "vanished"}
      /\ \A pc \in {"revoke", "fail", "cancel_child"} :
            pc \in Phases \ {"done", "vanished"} /\ pc \in Attending /\ pc \notin Undecided
      /\ "cleanup" \in Phases /\ "post" \in Preparing
  BY DEF Preparing, Attending, Phases, Undecided
<1>2. ASSUME NEW pc \in Phases \ {"done", "vanished"}
      PROVE  /\ Goes(j, pc).pc = pc /\ Ready(Goes(j, pc), cs, rs)
             /\ AtRun(Goes(j, pc), cs, rs) /\ Goes(j, pc).retry = "none"
             /\ OpenOk(Goes(j, pc), cs) /\ Goes(j, pc).kind # "cancel"
  <2> DEFINE s == Goes(j, pc)
  <2>1. s.pc = pc /\ Like(s, r) /\ s.retry = r.retry
    BY <1>2, GoesLike
  <2> HIDE DEF s
  <2>2. Ready(s, cs, rs)
    BY <2>1, ReadyLike
  <2>3. AtRun(s, cs, rs) /\ s.retry = "none" /\ OpenOk(s, cs) /\ s.kind # "cancel"
    BY <2>2, ReadyIsAtRun DEF Ready
  <2>4. QED
    BY <2>1, <2>2, <2>3 DEF s
<1>3. \A pc \in Preparing \ {"post"} : Suits(Goes(j, pc), cs, rs)
  BY <1>1, <1>2, SuitsPreparing
<1>4. cs[Len(cs)].phase # "running" => Suits(Goes(j, "post"), cs, rs)
  <2>1. "post" \in Phases \ {"done", "vanished"}
    BY DEF Phases
  <2>2. QED
    BY <1>1, <1>2, <2>1, SuitsPreparing
<1>5. \A pc \in {"revoke", "fail", "cancel_child"} : Suits(Goes(j, pc), cs, rs)
  BY <1>1, <1>2, SuitsAttending
<1>6. Suits(Goes(j, "cleanup"), cs, rs)
  BY <1>1, <1>2, SuitsCleanup
<1>7. \A pc \in {"done", "vanished"} : Suits(Goes(j, pc), cs, rs)
  BY GoneSuits
<1>8. QED
  BY <1>3, <1>4, <1>5, <1>6, <1>7

\* Where any job of the group can go.
LEMMA OpenGoes ==
    ASSUME NEW j, jobs[j] \in Job, NEW cs, NEW rs, jobs[j].kind # "cancel",
           OpenOk(jobs[j], cs)
    PROVE  /\ \A pc \in {"cleanup", "done", "vanished"} : Suits(Goes(j, pc), cs, rs)
           /\ Current(jobs[j], cs) =>
                 \A pc \in {"retry", "unretry"} : Suits(Goes(j, pc), cs, rs)
           /\ Replaced(jobs[j], cs) => Suits(Goes(j, "unretry"), cs, rs)
           /\ Suits(Final(Goes(j, "cleanup")), cs, rs)
           /\ Suits(Final(Goes(j, "done")), cs, rs)
           /\ Current(jobs[j], cs) => Suits(Final(Goes(j, "retry")), cs, rs)
<1> DEFINE r == jobs[j]
<1>1. ASSUME NEW pc \in {"cleanup", "retry", "unretry"}
      PROVE  /\ Goes(j, pc).pc = pc /\ Like(Goes(j, pc), r) /\ Like(Final(Goes(j, pc)), r)
             /\ Final(Goes(j, pc)).pc = pc
  <2> DEFINE s == Goes(j, pc)
  <2>1. pc \in Phases \ {"done", "vanished"}
    BY <1>1 DEF Phases
  <2>2. s.pc = pc /\ Like(s, r) /\ s = [r EXCEPT !.pc = pc]
    BY <2>1, GoesLike
  <2>3. s \in Job
    BY <2>1, <2>2 DEF Job
  <2> HIDE DEF s
  <2>4. Like(Final(s), r) /\ Final(s).pc = pc
    BY <2>2, <2>3, FinalLike DEF Like
  <2>5. QED
    BY <2>2, <2>4 DEF s
<1>2. ASSUME NEW s, Like(s, r)
      PROVE  /\ s.kind # "cancel" /\ OpenOk(s, cs)
             /\ Current(r, cs) => Current(s, cs)
             /\ Replaced(r, cs) => Replaced(s, cs)
  BY <1>2, OpenLike DEF Like
<1>3. Suits(Goes(j, "cleanup"), cs, rs) /\ Suits(Final(Goes(j, "cleanup")), cs, rs)
  BY <1>1, <1>2, SuitsCleanup
<1>4. Current(r, cs) => \A pc \in {"retry", "unretry"} : Suits(Goes(j, pc), cs, rs)
  BY <1>1, <1>2, SuitsHolding
<1>5. Replaced(r, cs) => Suits(Goes(j, "unretry"), cs, rs)
  BY <1>1, <1>2, SuitsHolding
<1>6. Current(r, cs) => Suits(Final(Goes(j, "retry")), cs, rs)
  BY <1>1, <1>2, SuitsHolding
<1>7. Suits(Final(Goes(j, "done")), cs, rs)
  <2>1. Goes(j, "done") = [Idle EXCEPT !.pc = "done"]
    BY DEF Goes
  <2>2. Goes(j, "done") \in Job /\ Goes(j, "done").pc = "done"
    BY <2>1, IdleTyped DEF Job, Phases
  <2>3. Final(Goes(j, "done")).pc = "done"
    BY <2>2, FinalLike
  <2>4. QED
    BY <2>3, SuitsGone
<1>8. QED
  BY <1>3, <1>4, <1>5, <1>6, <1>7, GoneSuits

\* Where a job that attends to its run can go.
LEMMA AtRunGoes ==
    ASSUME NEW j, jobs[j] \in Job, NEW cs, NEW rs, AtRun(jobs[j], cs, rs),
           jobs[j].retry = "none"
    PROVE  /\ \A pc \in {"revoke", "fail", "cancel_child"} : Suits(Goes(j, pc), cs, rs)
           /\ cs[Len(cs)].conclusion # "failure" =>
                 \A pc \in {"wait", "finish"} : Suits(Goes(j, pc), cs, rs)
<1> DEFINE r == jobs[j]
<1>1. /\ \A pc \in {"revoke", "fail", "cancel_child", "wait", "finish"} :
            pc \in Phases \ {"done", "vanished"} /\ pc \in Attending
      /\ \A pc \in {"revoke", "fail", "cancel_child"} : pc \notin Undecided
  BY DEF Attending, Phases, Undecided, Preparing
<1>2. ASSUME NEW pc \in Phases \ {"done", "vanished"}
      PROVE  /\ Goes(j, pc).pc = pc /\ AtRun(Goes(j, pc), cs, rs)
             /\ Goes(j, pc).retry = "none"
  BY <1>2, GoesLike, AtRunLike
<1>3. QED
  BY <1>1, <1>2, SuitsAttending

-----------------------------------------------------------------------------
(* The steps of the jobs.                                                  *)

LEMMA Standing ==
    ASSUME IInv, Order, NEW j \in 1..MaxJobs
    PROVE  /\ TypeOK /\ jobs[j] \in Job /\ GoodJob(jobs[j], Len(checks), runs)
           /\ Len(checks) \in Nat /\ Len(runs) \in Nat /\ EndedRuns(runs)
           /\ Suits(jobs[j], checks, runs) /\ ChecksOk(checks) /\ RunsOk(checks, runs)
           /\ \A k \in 1..Len(checks) : checks[k] \in Check
BY Known DEF Order

LEMMA SuitsStarting ==
    ASSUME NEW s, NEW cs, NEW rs, s.pc \in {"live", "ensure"}, s.kind # "cancel",
           OpenOk(s, cs), s.retry = "none",
           s.pc = "live" /\ s.kind # "seed" => Found(s, cs, rs),
           s.pc = "ensure" /\ s.kind # "seed" => MayStart(s, cs, rs)
    PROVE  Suits(s, cs, rs)
<1>1. /\ s.pc \notin Holding /\ s.pc \notin Undecided /\ s.pc \notin Preparing
      /\ s.pc \notin Attending /\ s.pc \notin Judging
  BY DEF Holding, Undecided, Preparing, Attending, Judging
<1>2. Fits(s, cs, rs)
  BY <1>1 DEF Fits, Holds, Starts, Works, Judges
<1>3. QED
  BY <1>2 DEF Suits, KindOk

LEMMA StartingWhen ==
    ASSUME NEW r, NEW cs, NEW rs, r.pc \in {"live", "ensure", "create"}, Suits(r, cs, rs)
    PROVE  /\ r.kind # "cancel" /\ OpenOk(r, cs) /\ r.retry = "none"
           /\ r.pc = "live" /\ r.kind # "seed" => Found(r, cs, rs)
           /\ r.pc = "ensure" /\ r.kind # "seed" => MayStart(r, cs, rs)
           /\ r.pc = "create" => AllOld(cs) /\ NoneLive(cs, rs)
<1>1. Busy(r) /\ r.pc \notin Judging
  BY DEF Busy, Judging
<1>2. Fits(r, cs, rs) /\ r.kind # "cancel"
  BY <1>1 DEF Suits, KindOk
<1>3. QED
  BY <1>1, <1>2 DEF Fits, Holds, Starts, Judges

LEMMA BeginsOrderly ==
    ASSUME IInv, Order, NEW j \in 1..MaxJobs, Begin(j)
    PROVE  Orderly(j)
<1> DEFINE n == Len(checks)
<1>1. /\ n \in Nat /\ ChecksOk(checks) /\ RunsOk(checks, runs)
      /\ \A k \in 1..n : checks[k] \in Check
  BY Standing
<1>2. ASSUME Reads(j, Goes(j, "done")) PROVE Orderly(j)
  BY <1>2, GoneSuits, ReadsOrderly
<1>3. CASE BeginSeed(j)
  <2> DEFINE r == Begun("seed", "live")
  <2>1. r.pc = "live" /\ r.kind = "seed" /\ r.open = {} /\ r.retry = "none"
    BY DEF Begun, Idle
  <2> HIDE DEF r
  <2>2. OpenOk(r, checks)
    BY <2>1 DEF OpenOk
  <2>3. Suits(r, checks, runs)
    BY <2>1, <2>2, SuitsStarting
  <2>4. Reads(j, r)
    BY <1>3 DEF BeginSeed, r
  <2>5. QED
    BY <2>3, <2>4, ReadsOrderly
<1>4. CASE BeginApprove(j)
  <2>1. CASE /\ n > 0 /\ checks[n].phase = "awaiting"
             /\ Reads(j, [Begun("approve", "approve") EXCEPT !.check = n, !.open = {n}])
    <3> DEFINE r == [Begun("approve", "approve") EXCEPT !.check = n, !.open = {n}]
    <3>1. /\ r.pc = "approve" /\ r.kind = "approve" /\ r.open = {n} /\ r.check = n
          /\ r.retry = "none"
      BY DEF Begun, Idle
    <3>2. Reads(j, r)
      BY <2>1
    <3> HIDE DEF r
    <3>3. n \in 1..n
      BY <1>1, <2>1
    <3>4. OpenOk(r, checks) /\ Current(r, checks)
      BY <3>1, <3>3 DEF OpenOk, Current
    <3>5. Active(checks[n]) /\ checks[n].phase # "running"
      BY <2>1 DEF Active
    <3>6. checks[n].conclusion = "none"
      BY <1>1, <3>3, <3>5 DEF ChecksOk
    <3>7. NoneLive(checks, runs)
      BY <1>1, <3>5, Quiet DEF Carries
    <3>8. Ready(r, checks, runs)
      BY <3>1, <3>4, <3>6, <3>7 DEF Ready
    <3>9. Suits(r, checks, runs)
      <4>1. r.pc \in Preparing /\ r.pc # "post"
        BY <3>1 DEF Preparing
      <4>2. QED
        BY <3>8, <4>1, SuitsPreparing
    <3>10. QED
      BY <3>2, <3>9, ReadsOrderly
  <2>2. QED
    BY <1>2, <1>4, <2>1 DEF BeginApprove
<1>5. CASE BeginCancel(j)
  <2>1. PICK targets : Reads(j, [Begun("cancel", "cancel_runs") EXCEPT !.targets = targets])
    BY <1>5 DEF BeginCancel
  <2> DEFINE r == [Begun("cancel", "cancel_runs") EXCEPT !.targets = targets]
  <2>2. r.pc = "cancel_runs" /\ r.kind = "cancel"
    BY DEF Begun, Idle
  <2> HIDE DEF r
  <2>3. Suits(r, checks, runs)
    BY <2>2 DEF Suits, KindOk, Busy
  <2>4. Reads(j, r)
    BY <2>1 DEF r
  <2>5. QED
    BY <2>3, <2>4, ReadsOrderly
<1>6. CASE \E ci \in BOOLEAN : BeginCoordinate(j, ci)
  <2>1. PICK ci \in BOOLEAN : BeginCoordinate(j, ci)
    BY <1>6
  <2> DEFINE was == IF n = 0 THEN Reserved ELSE checks[n]
             r == [Begun("coordinate", "live") EXCEPT !.ci = ci, !.seen = n, !.was = was]
  <2>2. /\ r.pc = "live" /\ r.kind = "coordinate" /\ r.open = {} /\ r.retry = "none"
        /\ r.seen = n /\ r.was = was
    BY DEF Begun, Idle
  <2>3. Reads(j, r) \/ Reads(j, Goes(j, "done"))
    BY <2>1 DEF BeginCoordinate
  <2> HIDE DEF r
  <2>4. n # 0 => was = checks[n]
    OBVIOUS
  <2> HIDE DEF was
  <2>5. n = 0 \/ was.phase = "reserved" \/ Retryable(was) => NoneLive(checks, runs)
    <3>1. n # 0 /\ (was.phase = "reserved" \/ Retryable(was)) => ~Carries(checks[n])
      BY <2>4 DEF Carries, Retryable, Active
    <3>2. QED
      BY <1>1, <3>1, Quiet
  <2>6. Found(r, checks, runs)
    BY <2>2, <2>4, <2>5 DEF Found
  <2>7. OpenOk(r, checks)
    BY <2>2 DEF OpenOk
  <2>8. Suits(r, checks, runs)
    BY <2>2, <2>6, <2>7, SuitsStarting
  <2>9. QED
    BY <1>2, <2>3, <2>8, ReadsOrderly
<1>7. QED
  BY <1>3, <1>4, <1>5, <1>6 DEF Begin

\* The first steps of seed and coordinate.
LEMMA LiveOrderly ==
    ASSUME IInv, Order, NEW j \in 1..MaxJobs, SeedLive(j) \/ CoordinateLive(j)
    PROVE  Orderly(j)
<1> DEFINE r == jobs[j]
           n == Len(checks)
<1>1. /\ n \in Nat /\ r \in Job /\ Suits(r, checks, runs) /\ r.pc = "live"
  BY Standing DEF SeedLive, CoordinateLive, At
<1>2. r.kind # "cancel" /\ OpenOk(r, checks) /\ r.retry = "none"
  BY <1>1, StartingWhen
<1>3. ASSUME Reads(j, Goes(j, "done")) PROVE Orderly(j)
  BY <1>3, GoneSuits, ReadsOrderly
<1>4. CASE SeedLive(j)
  <2> DEFINE s == Goes(j, "ensure")
  <2>1. s.pc = "ensure" /\ Like(s, r) /\ s.retry = "none"
    BY <1>1, <1>2, GoesLike DEF Phases
  <2>2. r.kind = "seed" /\ (Reads(j, s) \/ Reads(j, Goes(j, "done")))
    BY <1>4 DEF SeedLive
  <2> HIDE DEF s
  <2>3. OpenOk(s, checks) /\ s.kind = "seed"
    BY <1>2, <2>1, <2>2, OpenLike DEF Like
  <2>4. Suits(s, checks, runs)
    BY <2>1, <2>3, SuitsStarting
  <2>5. QED
    BY <1>3, <2>2, <2>4, ReadsOrderly
<1>5. CASE CoordinateLive(j)
  <2>1. Found(r, checks, runs) /\ r.kind = "coordinate"
    BY <1>1, <1>5, StartingWhen DEF CoordinateLive
  <2>2. /\ r.seen = n
        /\ n # 0 => n \in 1..n /\ (checks[n] = r.was \/ Cancelled(checks[n]))
        /\ n = 0 \/ r.was.phase = "reserved" \/ Retryable(r.was) => NoneLive(checks, runs)
    BY <1>1, <2>1 DEF Found
  <2> DEFINE gone == [r EXCEPT !.open = {r.seen}, !.pc = "cleanup"]
             open == IF r.seen # 0 /\ Active(r.was) THEN {r.seen} ELSE {}
             went == [r EXCEPT !.open = open, !.seen = 0, !.was = Reserved, !.pc = "ensure"]
  <2>3. gone.pc = "cleanup" /\ gone.kind = r.kind /\ gone.open = {n}
    BY <1>1, <2>2 DEF Job
  <2>4. /\ went.pc = "ensure" /\ went.kind = r.kind /\ went.open = open /\ went.ci = r.ci
        /\ went.retry = "none"
    BY <1>1, <1>2 DEF Job
  <2>5. CASE /\ r.seen # 0
             /\ Patches(j, r.seen, Closed(checks[r.seen], "cancelled", "none", 0, 0),
                        Goes(j, "done"), gone)
    <3>1. n # 0 /\ Patches(j, n, Closed(checks[n], "cancelled", "none", 0, 0),
                           Goes(j, "done"), gone)
      BY <2>2, <2>5
    <3> HIDE DEF gone
    <3>2. OpenOk(gone, checks)
      BY <2>2, <2>3, <3>1 DEF OpenOk
    <3>3. \A ds : OpenOk(gone, ds) => Suits(gone, ds, runs)
      BY <1>2, <2>3, SuitsCleanup
    <3>4. ASSUME NEW ds, Left(ds, Closed(checks[n], "cancelled", "none", 0, 0))
          PROVE  Suits(Goes(j, "done"), ds, runs) /\ Suits(gone, ds, runs)
      BY <3>2, <3>3, <3>4, GoneSuits DEF Left
    <3>5. "cancelled" \in Conclusions /\ "none" \in Reasons
      BY DEF Conclusions, Reasons
    <3>6. QED
      BY <3>1, <3>2, <3>3, <3>4, <3>5, ClosesOrderly
  <2>6. CASE CanStart(r) /\ Reads(j, went)
    <3>1. open \subseteq {n} /\ (n = 0 => open = {})
      BY <2>2
    <3> HIDE DEF open
    <3>2. Reads(j, went)
      BY <2>6
    <3> HIDE DEF went
    <3>3. OpenOk(went, checks)
      BY <2>2, <2>4, <3>1 DEF OpenOk
    <3>4. MayStart(went, checks, runs)
      BY <2>2, <2>4, <2>6 DEF MayStart, CanStart
    <3>5. Suits(went, checks, runs)
      BY <1>2, <2>4, <3>3, <3>4, SuitsStarting
    <3>6. QED
      BY <3>2, <3>5, ReadsOrderly
  <2>7. QED
    BY <1>3, <1>5, <2>5, <2>6 DEF CoordinateLive
<1>6. QED
  BY <1>4, <1>5

LEMMA TakesSuits ==
    ASSUME NEW j, jobs[j] \in Job, jobs[j].retry = "none", jobs[j].kind # "cancel",
           NEW cs, NEW rs, Len(cs) \in Nat, Len(cs) # 0, NoneLive(cs, rs),
           jobs[j].kind # "seed" => cs[Len(cs)].conclusion # "failure"
    PROVE  Suits(Takes(j, Len(cs)), cs, rs)
<1> DEFINE r == jobs[j]
           n == Len(cs)
           s == [r EXCEPT !.check = n, !.open = {n}, !.pc = "mark"]
<1>1. CASE r.kind = "seed"
  BY <1>1, GoneSuits DEF Takes
<1>2. CASE r.kind # "seed"
  <2>1. Takes(j, n) = s
    BY <1>2 DEF Takes
  <2>2. /\ s.pc = "mark" /\ s.check = n /\ s.open = {n} /\ s.kind = r.kind
        /\ s.retry = "none"
    BY DEF Job
  <2> HIDE DEF s
  <2>3. n \in 1..n
    OBVIOUS
  <2>4. Ready(s, cs, rs)
    BY <1>2, <2>2, <2>3 DEF Ready, Current, OpenOk
  <2>5. s.pc \in Preparing /\ s.pc # "post"
    BY <2>2 DEF Preparing
  <2>6. QED
    BY <2>1, <2>4, <2>5, SuitsPreparing
<1>3. QED
  BY <1>1, <1>2

LEMMA EnsureOrderly ==
    ASSUME IInv, Order, NEW j \in 1..MaxJobs, Ensure(j) \/ Create(j)
    PROVE  Orderly(j)
<1> DEFINE r == jobs[j]
           n == Len(checks)
<1>1. /\ n \in Nat /\ r \in Job /\ Suits(r, checks, runs) /\ r.pc \in {"ensure", "create"}
      /\ ChecksOk(checks) /\ RunsOk(checks, runs) /\ checks \in Seq(Check)
      /\ \A k \in 1..n : checks[k] \in Check
  BY Standing DEF Ensure, Create, At, TypeOK
<1>2. r.kind # "cancel" /\ OpenOk(r, checks) /\ r.retry = "none"
  BY <1>1, StartingWhen
<1>3. Suits(Goes(j, "cleanup"), checks, runs)
  BY <1>1, <1>2, OpenGoes
<1>4. CASE Ensure(j)
  <2>1. CASE Reads(j, Goes(j, "cleanup"))
    BY <1>3, <2>1, ReadsOrderly
  <2>2. CASE n > 0 /\ ~(r.ci /\ Retryable(checks[n])) /\ Reads(j, Takes(j, n))
    <3>1. n \in 1..n
      BY <1>1, <2>2
    <3>2. CASE r.kind # "seed"
      <4>1. MayStart(r, checks, runs)
        BY <1>1, <1>4, <3>2, StartingWhen DEF Ensure, At
      <4>2. /\ NoneLive(checks, runs)
            /\ checks[n].phase = "reserved" \/ Cancelled(checks[n])
        BY <2>2, <4>1 DEF MayStart
      <4>3. checks[n].phase = "reserved" => checks[n].conclusion = "none"
        BY <1>1, <3>1 DEF ChecksOk, Active
      <4>4. checks[n].conclusion # "failure"
        BY <4>2, <4>3, CancelledIsOld
      <4>5. Suits(Takes(j, n), checks, runs)
        BY <1>1, <1>2, <2>2, <4>2, <4>4, TakesSuits
      <4>6. QED
        BY <2>2, <4>5, ReadsOrderly
    <3>3. CASE r.kind = "seed"
      <4>1. Takes(j, n) = Goes(j, "done")
        BY <3>3 DEF Takes
      <4>2. QED
        BY <2>2, <4>1, GoneSuits, ReadsOrderly
    <3>4. QED
      BY <3>2, <3>3
  <2>3. CASE /\ HistoryOk /\ (n > 0 => r.ci /\ Retryable(checks[n]))
             /\ Reads(j, Goes(j, "create"))
    <3> DEFINE s == Goes(j, "create")
    <3>1. s.pc = "create" /\ Like(s, r) /\ s.retry = "none"
      BY <1>1, <1>2, GoesLike DEF Phases
    <3>2. Reads(j, s)
      BY <2>3
    <3> HIDE DEF s
    <3>3. AllOld(checks)
      <4>1. \A k \in 1..n : k \in 1..n - 1 \/ (k = n /\ n > 0)
        BY <1>1
      <4>2. QED
        BY <2>3, <4>1 DEF AllOld, Old, HistoryOk
    <3>4. NoneLive(checks, runs)
      <4>1. n = 0 \/ ~Carries(checks[n])
        BY <1>1, <2>3 DEF Carries, Retryable, Active
      <4>2. QED
        BY <1>1, <4>1, Quiet
    <3>5. OpenOk(s, checks) /\ s.kind # "cancel"
      BY <1>2, <3>1, OpenLike DEF Like
    <3>6. Suits(s, checks, runs)
      BY <3>1, <3>3, <3>4, <3>5, SuitsCreating
    <3>7. QED
      BY <3>2, <3>6, ReadsOrderly
  <2>4. QED
    BY <1>1, <1>4, <2>1, <2>2, <2>3 DEF Ensure
<1>5. CASE Create(j)
  <2> DEFINE ds == Append(checks, Reserved)
  <2>1. AllOld(checks) /\ NoneLive(checks, runs)
    BY <1>1, <1>5, StartingWhen DEF Create, At
  <2>2. /\ NoneLive(ds, runs) /\ Len(ds) = n + 1 /\ ds[n + 1] = Reserved
        /\ \A k \in 1..n : ds[k] = checks[k]
    BY <1>1, <2>1, AppendKeeps
  <2>3. Creates(j, Takes(j, n + 1), Goes(j, "cleanup"))
    BY <1>5 DEF Create
  <2> HIDE DEF ds
  <2>4. Suits(Takes(j, n + 1), ds, runs)
    <3>1. /\ Len(ds) \in Nat /\ Len(ds) # 0 /\ ds[Len(ds)].conclusion # "failure"
      BY <1>1, <2>2 DEF Reserved
    <3>2. QED
      BY <1>1, <1>2, <2>2, <3>1, TakesSuits
  <2>5. OpenOk(r, ds)
    BY <1>1, <1>2, <2>1, <2>2 DEF OpenOk, AllOld
  <2>6. Suits(Goes(j, "cleanup"), ds, runs)
    BY <1>1, <1>2, <2>5, OpenGoes
  <2>7. QED
    BY <1>3, <2>1, <2>3, <2>4, <2>6, CreatesOrderly DEF ds
<1>6. QED
  BY <1>4, <1>5

\* From the evaluation to the dispatch.
LEMMA EvaluateOrderly ==
    ASSUME IInv, Order, NEW j \in 1..MaxJobs,
           \/ Mark(j) \/ Evaluate(j) \/ Conclude(j) \/ Approve(j) \/ Authorize(j)
           \/ Restore(j) \/ Recheck(j) \/ Acquire(j) \/ Prepare(j) \/ Revalidate(j)
    PROVE  Orderly(j)
<1> DEFINE r == jobs[j]
           n == Len(checks)
<1>1. /\ n \in Nat /\ r \in Job /\ Suits(r, checks, runs) /\ r.pc \in Preparing
  BY Standing DEF Mark, Evaluate, Conclude, Approve, Authorize, Restore, Recheck, Acquire,
                  Prepare, Revalidate, At, Preparing
<1>2. Ready(r, checks, runs)
  BY <1>1, ReadyWhen
<1>3. /\ r.kind # "cancel" /\ r.check = n /\ n # 0 /\ OpenOk(r, checks)
      /\ checks[n].conclusion # "failure" /\ NoneLive(checks, runs)
  BY <1>2 DEF Ready, Current
<1> DEFINE Onward == {"evaluate", "conclude", "authorize", "recheck", "restore", "prepare",
                      "revalidate", "fail", "cleanup"}
<1>4. \A pc \in Onward : pc \in Preparing \ {"post"} \/ pc \in {"fail", "cleanup"}
  BY DEF Preparing
<1>5. \A pc \in Onward : Suits(Goes(j, pc), checks, runs)
  BY <1>1, <1>2, <1>4, ReadyGoes
<1>6. Suits(Final(Goes(j, "done")), checks, runs)
  BY <1>1, <1>3, OpenGoes
<1>7. ASSUME NEW c, c.conclusion # "failure", NEW ds, Left(ds, c)
      PROVE  Ready(r, ds, runs)
  BY <1>2, <1>7 DEF Left, Ready
<1>8. ASSUME NEW c, c.conclusion # "failure", NEW ds, Left(ds, c)
      PROVE  \A pc \in Onward : Suits(Goes(j, pc), ds, runs)
  BY <1>1, <1>4, <1>7, <1>8, ReadyGoes
<1>9. ASSUME NEW c, NEW ds, Left(ds, c)
      PROVE  /\ Suits(Final(Goes(j, "done")), ds, runs)
             /\ Suits(Goes(j, "fail"), ds, runs)
  <2>1. OpenOk(r, ds) /\ AtRun(r, ds, runs) /\ r.retry = "none"
    BY <1>2, <1>9, ReadyIsAtRun DEF Left, AtRun, Ready
  <2>2. QED
    BY <1>1, <1>3, <2>1, OpenGoes, AtRunGoes
<1>10. checks[n] \in Check
  BY <1>1, <1>3, Standing
<1>11. ASSUME NEW phase PROVE Started(checks[n], phase).conclusion # "failure"
  BY <1>10 DEF Started, Check
<1>12. {"evaluating", "awaiting", "authorized", "preparing"} \subseteq ActivePhases \ {"running"}
  BY DEF ActivePhases
<1>13. ASSUME NEW phase \in {"evaluating", "awaiting", "authorized", "preparing"},
              NEW good \in {Goes(j, "evaluate"), Goes(j, "recheck"), Goes(j, "revalidate"),
                            Final(Goes(j, "done"))},
              NEW pc \in {"cleanup", "restore", "fail"},
              Patches(j, n, Started(checks[n], phase), good, Goes(j, pc))
       PROVE  Orderly(j)
  <2>1. ASSUME NEW ds, Left(ds, Started(checks[n], phase))
        PROVE  Suits(good, ds, runs) /\ Suits(Goes(j, pc), ds, runs)
    BY <1>8, <1>9, <1>11, <1>13, <2>1
  <2>2. phase \in ActivePhases \ {"running"}
    BY <1>12
  <2> DEFINE bad == Goes(j, pc)
  <2>3. Suits(bad, checks, runs) /\ Patches(j, n, Started(checks[n], phase), good, bad)
    BY <1>5, <1>13
  <2> HIDE DEF bad
  <2>4. \A ds : Left(ds, Started(checks[n], phase)) =>
                  Suits(good, ds, runs) /\ Suits(bad, ds, runs)
    BY <2>1 DEF bad
  <2>5. QED
    BY <1>3, <2>2, <2>3, <2>4, StartsOrderly
<1>14. ASSUME NEW conclusion \in {"success", "failure"},
              NEW retry \in {"none", "prerequisite-ci"},
              Patches(j, n, Closed(checks[n], conclusion, retry, 0, 0),
                      Final(Goes(j, "done")), Goes(j, "fail"))
       PROVE  Orderly(j)
  <2>1. conclusion \in Conclusions /\ retry \in Reasons
    BY DEF Conclusions, Reasons
  <2>2. QED
    BY <1>3, <1>5, <1>9, <1>14, <2>1, ClosesOrderly
<1>15. CASE Mark(j)
  BY <1>3, <1>13, <1>15 DEF Mark
<1>16. CASE Evaluate(j)
  <2>1. \/ Patches(j, n, Closed(checks[n], "failure", "prerequisite-ci", 0, 0),
                   Final(Goes(j, "done")), Goes(j, "fail"))
        \/ \E pc \in {"fail", "recheck", "conclude"} : Reads(j, Goes(j, pc))
    BY <1>3, <1>16 DEF Evaluate
  <2>2. QED
    BY <1>5, <1>14, <2>1, ReadsOrderly
<1>17. CASE Conclude(j)
  <2>1. CASE plan = "none"
    <3>1. Patches(j, n, Closed(checks[n], "success", "none", 0, 0),
                  Final(Goes(j, "done")), Goes(j, "fail"))
      BY <1>3, <1>17, <2>1 DEF Conclude
    <3>2. QED
      BY <1>14, <3>1
  <2>2. CASE plan # "none"
    <3>1. Patches(j, n, Started(checks[n], "awaiting"), Final(Goes(j, "done")),
                  Goes(j, "fail"))
      BY <1>3, <1>17, <2>2 DEF Conclude
    <3>2. QED
      BY <1>13, <3>1
  <2>3. QED
    BY <2>1, <2>2
<1>18. CASE Approve(j)
  <2>1. \E pc \in {"authorize", "restore"} : Reads(j, Goes(j, pc))
    BY <1>18 DEF Approve
  <2>2. QED
    BY <1>5, <2>1, ReadsOrderly
<1>19. CASE Authorize(j)
  BY <1>3, <1>13, <1>19 DEF Authorize
<1>20. CASE Restore(j)
  BY <1>3, <1>13, <1>20 DEF Restore
<1>21. CASE Recheck(j)
  <2>1. CASE \E pc \in {"restore", "fail"} : Reads(j, Goes(j, pc))
    BY <1>5, <2>1, ReadsOrderly
  <2>2. CASE PreDispatch(r) /\ Reads(j, Goes(j, "post"))
    <3>1. checks[n].phase # "running"
      BY <1>3, <2>2 DEF PreDispatch
    <3>2. Suits(Goes(j, "post"), checks, runs)
      BY <1>1, <1>2, <3>1, ReadyGoes
    <3>3. QED
      BY <2>2, <3>2, ReadsOrderly
  <2>3. QED
    BY <1>21, <2>1, <2>2 DEF Recheck, OnError
<1>22. CASE Acquire(j) \/ Revalidate(j)
  <2>1. \E pc \in {"prepare", "recheck", "fail"} : Reads(j, Goes(j, pc))
    BY <1>22 DEF Acquire, Revalidate
  <2>2. QED
    BY <1>5, <2>1, ReadsOrderly
<1>23. CASE Prepare(j)
  BY <1>3, <1>13, <1>23 DEF Prepare
<1>24. QED
  BY <1>15, <1>16, <1>17, <1>18, <1>19, <1>20, <1>21, <1>22, <1>23

\* The dispatch.
LEMMA PostOrderly ==
    ASSUME IInv, Order, NEW j \in 1..MaxJobs, Post(j)
    PROVE  Orderly(j)
<1> DEFINE r == jobs[j]
           n == Len(checks)
           m == Len(runs) + 1
           new(v) == Append(runs, NewRun(n, v))
           published == [r EXCEPT !.run = m, !.pc = "publish"]
           unknown == [r EXCEPT !.lost = 0, !.pc = "reconcile"]
           lost == [r EXCEPT !.lost = m, !.pc = "reconcile"]
<1>1. /\ n \in Nat /\ r \in Job /\ Suits(r, checks, runs) /\ r.pc = "post" /\ TypeOK
      /\ ChecksOk(checks) /\ RunsOk(checks, runs) /\ Careful(checks, checks)
  BY Standing, CarefulItself DEF Post, At
<1>2. r.pc \in Preparing
  BY <1>1 DEF Preparing
<1>3. Ready(r, checks, runs)
  BY <1>1, <1>2, ReadyWhen
<1>4. r.check = n /\ n # 0 /\ NoneLive(checks, runs) /\ checks[n].phase # "running"
  <2>1. r.kind # "cancel" /\ Busy(r)
    BY <1>1, <1>3 DEF Ready, Busy
  <2>2. QED
    BY <1>1, <1>3, <2>1 DEF Ready, Current, Suits, Fits, Works
<1>5. \A v \in BOOLEAN : RunsOk(checks, new(v)) /\ NoneLive(checks, new(v))
  BY <1>1, <1>4, DispatchIsQuiet
<1>6. /\ published.pc = "publish" /\ Like(published, r) /\ published.retry = r.retry
      /\ unknown.pc = "reconcile" /\ Like(unknown, r) /\ unknown.retry = r.retry
      /\ lost.pc = "reconcile" /\ Like(lost, r) /\ lost.retry = r.retry
  BY <1>1 DEF Job, Like
<1>7. \/ runs' = new(TRUE) /\ Becomes(j, published)
      \/ runs' = runs /\ Becomes(j, Goes(j, OnError(r)))
      \/ runs' = runs /\ Becomes(j, unknown)
      \/ \E v \in BOOLEAN : runs' = new(v) /\ Becomes(j, lost)
  BY <1>4 DEF Post
<1>8. checks' = checks
  BY DEF Post
<1> HIDE DEF published, unknown, lost, new
<1>9. ASSUME NEW s \in {published, unknown, lost}, NEW v \in BOOLEAN,
             NEW ss \in {runs, new(v)}
      PROVE  Suits(s, checks, ss) /\ RunsOk(checks, ss)
  <2>1. Ready(s, checks, runs)
    BY <1>3, <1>6, ReadyLike
  <2>2. NoneLive(checks, ss) /\ RunsOk(checks, ss)
    BY <1>1, <1>4, <1>5
  <2>3. Ready(s, checks, ss)
    BY <2>1, <2>2 DEF Ready
  <2>4. s.pc \in Preparing /\ s.pc # "post"
    BY <1>6 DEF Preparing
  <2>5. QED
    BY <2>2, <2>3, <2>4, SuitsPreparing
<1>10. ASSUME NEW s, NEW v \in BOOLEAN, NEW ss \in {runs, new(v)}, runs' = ss,
              Becomes(j, s), Suits(s, checks, ss), RunsOk(checks, ss)
       PROVE  Orderly(j)
  BY <1>1, <1>8, <1>10 DEF Orderly, Becomes
<1>11. CASE runs' = runs /\ Becomes(j, Goes(j, OnError(r)))
  <2>1. OnError(r) \in {"restore", "fail"} /\ "restore" \in Preparing \ {"post"}
    BY DEF OnError, Preparing
  <2>2. Suits(Goes(j, OnError(r)), checks, runs)
    BY <1>1, <1>3, <2>1, ReadyGoes
  <2>3. QED
    BY <1>1, <1>10, <1>11, <2>2
<1>12. QED
  BY <1>7, <1>9, <1>10, <1>11

\* The steps that look for a run, authorise it, or take that back.
LEMMA RunStepsOrderly ==
    ASSUME IInv, Order, NEW j \in 1..MaxJobs, Reconcile(j) \/ Adopt(j) \/ Publish(j)
    PROVE  Orderly(j)
<1> DEFINE r == jobs[j]
           n == Len(checks)
<1>1. /\ n \in Nat /\ r \in Job /\ Suits(r, checks, runs) /\ r.pc \in Preparing
      /\ ChecksOk(checks) /\ RunsOk(checks, runs) /\ checks \in Seq(Check)
      /\ GoodJob(r, n, runs)
  BY Standing DEF Reconcile, Adopt, Publish, At, Preparing, TypeOK
<1>2. Ready(r, checks, runs)
  BY <1>1, ReadyWhen
<1>3. /\ r.kind # "cancel" /\ r.check = n /\ n # 0 /\ n \in 1..n /\ OpenOk(r, checks)
      /\ checks[n].conclusion # "failure" /\ NoneLive(checks, runs) /\ r.retry = "none"
  BY <1>1, <1>2 DEF Ready, Current
<1>4. CASE Reconcile(j)
  <2> DEFINE s == [r EXCEPT !.retry = "dispatch-not-observed", !.pc = "fail"]
  <2>1. /\ s.pc = "fail" /\ Like(s, r) /\ s.run = r.run
        /\ s.retry = "dispatch-not-observed"
    BY <1>1 DEF Job, Like
  <2>2. Reads(j, Goes(j, "adopt")) \/ Reads(j, s)
    BY <1>4 DEF Reconcile
  <2> HIDE DEF s
  <2>3. AtRun(s, checks, runs)
    BY <1>2, <2>1, ReadyIsAtRun, AtRunLike
  <2>4. Reasonable(s, checks, runs)
    BY <1>3, <2>1 DEF Reasonable
  <2>5. s.pc \in Attending /\ s.pc \in Judging /\ s.pc \notin Undecided
    BY <2>1 DEF Attending, Judging, Undecided, Preparing
  <2>6. Suits(s, checks, runs)
    BY <2>3, <2>4, <2>5, SuitsAttending
  <2>7. "adopt" \in Preparing \ {"post"}
    BY DEF Preparing
  <2>8. Suits(Goes(j, "adopt"), checks, runs)
    BY <1>1, <1>2, <2>7, ReadyGoes
  <2>9. QED
    BY <2>2, <2>6, <2>8, ReadsOrderly
<1>5. CASE Adopt(j)
  <2>1. PICK pc \in {"publish", "cancel_child"} :
          Reads(j, [r EXCEPT !.run = r.lost, !.lost = 0, !.pc = pc])
    BY <1>5 DEF Adopt
  <2> DEFINE s == [r EXCEPT !.run = r.lost, !.lost = 0, !.pc = pc]
  <2>2. s.pc = pc /\ Like(s, r) /\ s.retry = r.retry
    BY <1>1 DEF Job, Like
  <2>3. Reads(j, s)
    BY <2>1
  <2> HIDE DEF s
  <2>4. Ready(s, checks, runs)
    BY <1>2, <2>2, ReadyLike
  <2>5. AtRun(s, checks, runs)
    BY <2>4, ReadyIsAtRun
  <2>6. "publish" \in Preparing /\ "cancel_child" \in Attending /\ "cancel_child" \notin Undecided
    BY DEF Preparing, Attending, Undecided
  <2>7. Suits(s, checks, runs)
    BY <1>3, <2>2, <2>4, <2>5, <2>6, SuitsPreparing, SuitsAttending
  <2>8. QED
    BY <2>3, <2>7, ReadsOrderly
<1>6. CASE Publish(j)
  <2> DEFINE c == [Started(checks[n], "running") EXCEPT !.run = r.run]
             ds == [checks EXCEPT ![n] = c]
  <2>1. r.run \in 1..Len(runs) /\ runs[r.run].check = n /\ r.run \in Nat
    BY <1>1, <1>3, <1>6 DEF GoodJob, Knows, Publish, At, Linked, Job
  <2>2. checks[n] \in Check
    BY <1>3, Standing
  <2>3. /\ c \in Check /\ c.phase = "running" /\ c.conclusion = "none" /\ c.retry = "none"
        /\ c.run = r.run
    <3>1. Started(checks[n], "running") \in Check
      BY <2>2, StartedTyped DEF ActivePhases
    <3>2. /\ Started(checks[n], "running").phase = "running"
          /\ Started(checks[n], "running").conclusion = "none"
          /\ Started(checks[n], "running").retry = "none"
      BY <2>2 DEF Started, Check
    <3>3. QED
      BY <2>1, <3>1, <3>2 DEF Check
  <2>4. /\ runs' = runs /\ (\/ checks' = ds /\ Becomes(j, Goes(j, "wait"))
                            \/ checks' \in {checks, ds} /\ Becomes(j, Goes(j, "revoke")))
    BY <1>3, <1>6 DEF Publish, Patches
  <2> HIDE DEF c
  <2>5. Patched(checks, ds, c)
    <3>1. /\ Len(ds) = n
          /\ \A k \in 1..n : ds[k] = IF k = n THEN c ELSE checks[k]
      BY <1>1, <1>3, <2>3, ExceptSeq
    <3> HIDE DEF ds
    <3>2. QED
      BY <1>1, <1>3, <3>1 DEF Patched
  <2> HIDE DEF ds
  <2>6. ~Lost(c) /\ ~FailedForGood(checks[n])
    BY <1>3, <2>3 DEF Lost, FailedForGood
  <2>7. /\ ChecksOk(ds) /\ Careful(checks, ds) /\ ds[Len(ds)] = c
        /\ OpenOk(r, ds) /\ Current(r, ds)
    <3>1. OpenOk(r, checks) /\ Current(r, checks)
      BY <1>2 DEF Ready
    <3>2. QED
      BY <1>1, <2>3, <2>5, <2>6, <3>1, PatchKeeps
  <2>8. RunsOk(ds, runs) /\ OnlyLive(c.run, ds, runs)
    BY <1>1, <1>3, <2>1, <2>3, <2>5, PatchPublishes
  <2>9. AtRun(r, ds, runs)
    BY <1>3, <2>3, <2>7, <2>8 DEF AtRun
  <2>10. Suits(Goes(j, "wait"), ds, runs) /\ Suits(Goes(j, "revoke"), ds, runs)
    <3>1. ds[Len(ds)].conclusion # "failure"
      BY <2>3, <2>7
    <3>2. QED
      BY <1>1, <1>3, <2>9, <3>1, AtRunGoes
  <2>11. Suits(Goes(j, "revoke"), checks, runs) /\ Careful(checks, checks)
    BY <1>1, <1>2, ReadyGoes, CarefulItself
  <2>12. CASE checks' = ds /\ Becomes(j, Goes(j, "wait"))
    BY <2>4, <2>7, <2>8, <2>10, <2>12 DEF Orderly, Becomes
  <2>13. CASE checks' \in {checks, ds} /\ Becomes(j, Goes(j, "revoke"))
    <3>1. /\ ChecksOk(checks') /\ Careful(checks, checks') /\ RunsOk(checks', runs)
          /\ Suits(Goes(j, "revoke"), checks', runs)
      BY <1>1, <2>7, <2>8, <2>10, <2>11, <2>13
    <3>2. QED
      BY <2>4, <2>13, <3>1 DEF Orderly, Becomes
  <2>14. QED
    BY <2>4, <2>12, <2>13
<1>7. QED
  BY <1>4, <1>5, <1>6

\* A run is waited for, judged, or given up.
LEMMA AttendsOrderly ==
    ASSUME IInv, Order, NEW j \in 1..MaxJobs, Revoke(j) \/ CancelChild(j) \/ Wait(j)
    PROVE  Orderly(j)
<1> DEFINE r == jobs[j]
           n == Len(checks)
<1>1. /\ n \in Nat /\ r \in Job /\ Suits(r, checks, runs) /\ r.pc \in Attending \ Judging
      /\ r.run \in Nat
  BY Standing DEF Revoke, CancelChild, Wait, At, Attending, Judging, Job
<1>2. /\ AtRun(r, checks, runs) /\ r.retry = "none"
      /\ r.pc \in Undecided => checks[n].conclusion # "failure"
  BY <1>1, AtRunWhen
<1>3. r.check = n /\ n # 0 /\ OnlyLive(r.run, checks, runs)
  BY <1>2 DEF AtRun, Current
<1>4. CASE Revoke(j)
  <2>1. Patches(j, n, Closed(checks[n], "failure", "none", r.run, 0),
                Goes(j, "cancel_child"), Goes(j, "cancel_child"))
    BY <1>3, <1>4 DEF Revoke
  <2>2. Suits(Goes(j, "cancel_child"), checks, runs)
    BY <1>1, <1>2, AtRunGoes
  <2>3. ASSUME NEW ds, Left(ds, Closed(checks[n], "failure", "none", r.run, 0))
        PROVE  Suits(Goes(j, "cancel_child"), ds, runs)
    <3>1. AtRun(r, ds, runs)
      BY <1>2, <2>3 DEF AtRun, Left
    <3>2. QED
      BY <1>1, <1>2, <3>1, AtRunGoes
  <2>4. "failure" \in Conclusions /\ "none" \in Reasons
    BY DEF Conclusions, Reasons
  <2>5. QED
    BY <1>1, <1>3, <2>1, <2>2, <2>3, <2>4, ClosesOrderly
<1>5. CASE CancelChild(j)
  <2>1. Becomes(j, Goes(j, "fail")) /\ runs' = Stop({r.run}) /\ checks' = checks
    BY <1>5 DEF CancelChild
  <2>2. Suits(Goes(j, "fail"), checks, runs)
    BY <1>1, <1>2, AtRunGoes
  <2>3. QED
    BY <2>1, <2>2, StaysOrderly
<1>6. CASE Wait(j)
  <2>1. Reads(j, Goes(j, "finish")) /\ r.pc = "wait"
    BY <1>6 DEF Wait, At
  <2>2. checks[n].conclusion # "failure"
    BY <1>2, <2>1 DEF Undecided
  <2>3. Suits(Goes(j, "finish"), checks, runs)
    BY <1>1, <1>2, <2>2, AtRunGoes
  <2>4. QED
    BY <2>1, <2>3, ReadsOrderly
<1>7. QED
  BY <1>4, <1>5, <1>6

\* The verdict only asks for a retry when the run has ended, and only the first time.
LEMMA VerdictIs ==
    ASSUME NEW r \in Job, NEW evidence \in {"good", "bad", "missing"}
    PROVE  LET s == Verdict(r, evidence) IN
           /\ Like(s, r) /\ s.run = r.run /\ s.pc \in {"confirm", "fail"}
           /\ s.retry = "none" \/ s.retry = r.retry \/ runs[r.run].result \in {"success", "lost"}
           /\ s.retry \in {"none", "evidence-download", r.retry}
                 \/ RunnerLosses(r.check) = {}
<1> DEFINE result == runs[r.run].result
           first == RunnerLosses(r.check) = {}
           s == Verdict(r, evidence)
<1>1. CASE result = "success" /\ evidence = "good"
  <2>1. s = [r EXCEPT !.conclusion = "success", !.pc = "confirm"]
    BY <1>1 DEF Verdict
  <2> HIDE DEF s
  <2>2. QED
    BY <2>1 DEF Job, Like, s
<1>2. CASE result = "success" /\ evidence = "missing"
  <2>1. s = [r EXCEPT !.retry = IF first THEN "evidence-download" ELSE "none", !.pc = "fail"]
    BY <1>2 DEF Verdict
  <2> HIDE DEF s, first
  <2>2. /\ Like(s, r) /\ s.run = r.run /\ s.pc = "fail"
        /\ s.retry \in {"none", "evidence-download"}
    BY <2>1 DEF Job, Like
  <2>3. QED
    BY <1>2, <2>2 DEF s
<1>3. CASE result = "lost" /\ evidence # "missing" /\ first
  <2>1. s = [r EXCEPT !.conclusion = "failure", !.retry = "child-cancelled",
                      !.pc = "confirm"]
    BY <1>3 DEF Verdict
  <2> HIDE DEF s
  <2>2. Like(s, r) /\ s.run = r.run /\ s.pc = "confirm"
    BY <2>1 DEF Job, Like
  <2>3. QED
    BY <1>3, <2>2 DEF s
<1>4. CASE /\ ~(result = "success" /\ evidence = "good")
           /\ ~(result = "success" /\ evidence = "missing")
           /\ ~(result = "lost" /\ evidence # "missing" /\ first)
  <2>1. s = [r EXCEPT !.conclusion = "failure", !.pc = "confirm"]
    BY <1>4 DEF Verdict
  <2> HIDE DEF s
  <2>2. Like(s, r) /\ s.run = r.run /\ s.pc = "confirm" /\ s.retry = r.retry
    BY <2>1 DEF Job, Like
  <2>3. QED
    BY <2>2 DEF s
<1>5. QED
  BY <1>1, <1>2, <1>3, <1>4

\* The verdict and its publication.
LEMMA FinishOrderly ==
    ASSUME IInv, Order, NEW j \in 1..MaxJobs, Finish(j) \/ Confirm(j)
    PROVE  Orderly(j)
<1> DEFINE r == jobs[j]
           n == Len(checks)
<1>1. /\ n \in Nat /\ r \in Job /\ Suits(r, checks, runs) /\ r.pc \in {"finish", "confirm"}
      /\ GoodJob(r, n, runs) /\ EndedRuns(runs) /\ RunsOk(checks, runs)
  BY Standing DEF Finish, Confirm, At
<1>2. r.pc \in Attending /\ r.pc \in Undecided /\ r.pc \in Linked
  BY <1>1 DEF Attending, Undecided, Linked
<1>3. /\ AtRun(r, checks, runs) /\ checks[n].conclusion # "failure"
      /\ r.pc \notin Judging => r.retry = "none"
      /\ r.pc \in Judging => Reasonable(r, checks, runs)
  BY <1>1, <1>2, AtRunWhen
<1>4. ASSUME NEW s, Like(s, r), s.run = r.run, s.pc \in {"confirm", "close", "fail"},
             s.retry = "none" \/ Reasonable(s, checks, runs)
      PROVE  Suits(s, checks, runs)
  <2>1. AtRun(s, checks, runs)
    BY <1>3, <1>4, AtRunLike
  <2>2. s.pc \in Attending /\ s.pc \in Judging
    BY <1>4 DEF Attending, Judging
  <2>3. QED
    BY <1>3, <1>4, <2>1, <2>2, SuitsAttending
<1>5. CASE Finish(j)
  <2> DEFINE closing == [r EXCEPT !.conclusion = "cancelled", !.pc = "close"]
  <2>1. r.pc = "finish" /\ r.retry = "none"
    BY <1>3, <1>5 DEF Finish, At, Judging
  <2>2. runs' = Stop({r.run}) /\ checks' = checks
    BY <1>5 DEF Finish
  <2>3. PICK evidence \in {"good", "bad", "missing"} :
             Becomes(j, Goes(j, "fail")) \/ Becomes(j, closing)
                \/ Becomes(j, Verdict(r, evidence))
    BY <1>5 DEF Finish
  <2>4. Suits(Goes(j, "fail"), checks, runs)
    BY <1>1, <1>3, <2>1, AtRunGoes
  <2>5. Suits(closing, checks, runs)
    <3>1. Like(closing, r) /\ closing.run = r.run /\ closing.pc = "close"
          /\ closing.retry = "none"
      BY <1>1, <2>1 DEF Job, Like
    <3> HIDE DEF closing
    <3>2. QED
      BY <1>4, <3>1
  <2>6. Suits(Verdict(r, evidence), checks, runs)
    <3> DEFINE s == Verdict(r, evidence)
    <3>1. /\ Like(s, r) /\ s.run = r.run /\ s.pc \in {"confirm", "fail"}
          /\ s.retry = "none" \/ runs[r.run].result \in {"success", "lost"}
          /\ s.retry = "child-cancelled" => RunnerLosses(r.check) = {}
      BY <1>1, <2>1, VerdictIs
    <3> HIDE DEF s
    <3>2. s.retry # "none" => NoneLive(checks, runs)
      <4>1. r.run \in 1..Len(runs)
        BY <1>1, <1>2 DEF GoodJob, Knows
      <4>2. s.retry # "none" => runs[r.run].state = "done"
        BY <1>1, <3>1, <4>1 DEF EndedRuns, RunsOk
      <4>3. s.retry # "none" => ~Live(r.run, checks, runs)
        BY <4>2 DEF Live, Executes
      <4>4. OnlyLive(r.run, checks, runs)
        BY <1>3 DEF AtRun
      <4>5. QED
        BY <4>3, <4>4 DEF OnlyLive, NoneLive
    <3>3. s.retry = "child-cancelled" => FirstLoss(checks)
      <4>1. r.check = n
        BY <1>3 DEF AtRun, Current
      <4>2. QED
        BY <3>1, <4>1 DEF RunnerLosses, FirstLoss, Lost
    <3>4. Suits(s, checks, runs)
      BY <1>4, <3>1, <3>2, <3>3 DEF Reasonable
    <3>5. QED
      BY <3>4 DEF s
  <2> HIDE DEF closing
  <2>7. PICK s : Becomes(j, s) /\ Suits(s, checks, runs)
    BY <2>3, <2>4, <2>5, <2>6
  <2>8. QED
    BY <2>2, <2>7, StaysOrderly
<1>6. CASE Confirm(j)
  <2>1. r.pc = "confirm" /\ Reasonable(r, checks, runs)
    BY <1>3, <1>6 DEF Confirm, At, Judging
  <2> DEFINE auth == (r.retry = "child-cancelled")
             kept == [r EXCEPT !.auth = auth, !.pc = "close"]
             gone == [r EXCEPT !.conclusion = "cancelled", !.retry = "none", !.pc = "close"]
  <2>2. Reads(j, kept) \/ Reads(j, gone)
    BY <1>6 DEF Confirm
  <2>3. gone.pc = "close" /\ Like(gone, r) /\ gone.run = r.run /\ gone.retry = "none"
    BY <1>1 DEF Job, Like
  <2> HIDE DEF auth
  <2>4. kept.pc = "close" /\ Like(kept, r) /\ kept.run = r.run /\ kept.retry = r.retry
    BY <1>1 DEF Job, Like
  <2> HIDE DEF gone, kept
  <2>5. Suits(gone, checks, runs)
    BY <1>4, <2>3
  <2>6. Suits(kept, checks, runs)
    BY <1>4, <2>1, <2>4 DEF Reasonable
  <2>7. QED
    BY <2>2, <2>5, <2>6, ReadsOrderly
<1>7. QED
  BY <1>5, <1>6

LEMMA VerdictsOrderly ==
    ASSUME IInv, Order, NEW j \in 1..MaxJobs, CloseCheck(j) \/ FailCheck(j)
    PROVE  Orderly(j)
<1> DEFINE r == jobs[j]
           n == Len(checks)
<1>1. /\ n \in Nat /\ r \in Job /\ Suits(r, checks, runs) /\ r.pc \in {"close", "fail"}
      /\ GoodJob(r, n, runs) /\ r.run \in Nat /\ r.lost \in Nat /\ r.source \in Nat
      /\ r.conclusion \in Conclusions /\ r.retry \in Reasons
      /\ \A k \in 1..n : checks[k] \in Check
  BY Standing DEF CloseCheck, FailCheck, At, Job
<1>2. r.pc \in Attending /\ r.pc \in Judging /\ "close" \in Undecided
  BY <1>1 DEF Attending, Undecided, Judging
<1>3. /\ AtRun(r, checks, runs) /\ Reasonable(r, checks, runs)
      /\ r.pc = "close" => checks[n].conclusion # "failure"
  BY <1>1, <1>2, AtRunWhen
<1>4. /\ r.kind # "cancel" /\ r.check = n /\ n # 0 /\ OpenOk(r, checks) /\ Current(r, checks)
      /\ OnlyLive(r.run, checks, runs)
      /\ r.retry = "child-cancelled" => FirstLoss(checks)
      /\ NoneLive(checks, runs) \/ r.retry = "none"
  BY <1>3 DEF AtRun, Current, Reasonable
<1>5. AfterFinish(r) \in {"retry", "cleanup"}
  BY DEF AfterFinish
<1>6. ASSUME NEW ds, ds = checks \/ \E c : Left(ds, c)
      PROVE  /\ AtRun(r, ds, runs)
             /\ Suits(Goes(j, AfterFinish(r)), ds, runs)
             /\ Suits(Final(Goes(j, AfterFinish(r))), ds, runs)
  <2>1. AtRun(r, ds, runs) /\ OpenOk(r, ds) /\ Current(r, ds)
    BY <1>3, <1>6 DEF AtRun, Left
  <2>2. QED
    BY <1>1, <1>4, <1>5, <2>1, OpenGoes
<1>7. CASE CloseCheck(j)
  <2> DEFINE s == [r EXCEPT !.retry = "none", !.pc = "fail"]
  <2>1. s.pc = "fail" /\ Like(s, r) /\ s.run = r.run /\ s.retry = "none"
    BY <1>1 DEF Job, Like
  <2>2. /\ r.pc = "close"
        /\ Patches(j, n, Closed(checks[n], r.conclusion, r.retry, r.run, 0),
                   Final(Goes(j, AfterFinish(r))), s)
    BY <1>4, <1>7 DEF CloseCheck, At
  <2> HIDE DEF s
  <2>3. ASSUME NEW ds, ds = checks \/ \E c : Left(ds, c) PROVE Suits(s, ds, runs)
    <3>1. AtRun(s, ds, runs)
      BY <1>6, <2>1, <2>3, AtRunLike
    <3>2. s.pc \in Attending /\ s.pc \notin Undecided
      BY <2>1 DEF Attending, Undecided, Preparing
    <3>3. QED
      BY <2>1, <3>1, <3>2, SuitsAttending
  <2>4. r.conclusion = "success" => checks[n].conclusion # "failure"
    BY <1>3, <2>2
  <2>5. QED
    BY <1>1, <1>4, <1>6, <2>2, <2>3, <2>4, ClosesOrderly
<1>8. CASE FailCheck(j)
  <2> DEFINE run == FailedRun(r)
             lost == IF r.retry = "dispatch-not-observed" THEN r.lost ELSE 0
  <2>1. Patches(j, n, Closed(checks[n], "failure", r.retry, run, lost),
                Final(Goes(j, AfterFinish(r))), Goes(j, AfterFinish(r)))
    BY <1>4, <1>8 DEF FailCheck
  <2>2. lost \in Nat
    BY <1>1
  <2>3. Retrying(r) => r.source \in 1..n
    BY <1>1 DEF GoodJob, JobTyped, Retrying
  <2>4. run \in Nat
    <3>1. Retrying(r) => checks[r.source].run \in Nat
      BY <1>1, <2>3 DEF Check
    <3>2. QED
      BY <1>1, <3>1 DEF FailedRun
  <2>5. \/ NoneLive(checks, runs)
        \/ r.retry = "none" /\ (run = 0 \/ OnlyLive(run, checks, runs))
    <3>1. CASE run = r.run \/ run = 0
      BY <1>4, <3>1
    <3>2. CASE r.run = 0
      <4>1. Len(runs) \in Nat
        BY Known
      <4>2. \A m \in 1..Len(runs) : m # 0
        BY <4>1
      <4>3. NoneLive(checks, runs)
        BY <1>4, <3>2, <4>2 DEF OnlyLive, NoneLive
      <4>4. QED
        BY <4>3
    <3>3. QED
      BY <3>1, <3>2 DEF FailedRun
  <2> HIDE DEF run, lost
  <2>6. "failure" \in Conclusions
    BY DEF Conclusions
  <2>7. QED
    BY <1>1, <1>4, <1>6, <2>1, <2>2, <2>4, <2>5, <2>6, ClosesOrderly
<1>9. QED
  BY <1>7, <1>8

LEMMA HoldingWhen ==
    ASSUME NEW r, NEW cs, NEW rs, r.pc \in {"retry", "reserve", "abandon", "unretry"},
           Suits(r, cs, rs)
    PROVE  /\ r.kind # "cancel" /\ OpenOk(r, cs)
           /\ Current(r, cs) \/ (r.pc = "unretry" /\ Replaced(r, cs))
           /\ r.pc = "reserve" => AllOld(cs) /\ NoneLive(cs, rs)
<1>1. Busy(r) /\ (r.pc = "reserve" => r.pc \in Holding) /\ r.pc \in Holding \cup {"unretry"}
  BY DEF Busy, Holding
<1>2. Fits(r, cs, rs) /\ r.kind # "cancel"
  BY <1>1 DEF Suits, KindOk
<1>3. QED
  BY <1>1, <1>2 DEF Fits, Holds, Starts

\* One retry on a new check.
LEMMA RetriesOrderly ==
    ASSUME IInv, Order, NEW j \in 1..MaxJobs, Retry(j) \/ Reserve(j) \/ Unretry(j)
    PROVE  Orderly(j)
<1> DEFINE r == jobs[j]
           n == Len(checks)
<1>1. /\ n \in Nat /\ r \in Job /\ Suits(r, checks, runs)
      /\ r.pc \in {"retry", "reserve", "unretry"} /\ r.run \in Nat
      /\ RunsOk(checks, runs) /\ ChecksOk(checks) /\ checks \in Seq(Check)
  BY Standing DEF Retry, Reserve, Unretry, At, Job, TypeOK
<1>2. /\ r.kind # "cancel" /\ OpenOk(r, checks)
      /\ Current(r, checks) \/ (r.pc = "unretry" /\ Replaced(r, checks))
  BY <1>1, HoldingWhen
<1>3. Current(r, checks) => Suits(Goes(j, "unretry"), checks, runs)
  BY <1>1, <1>2, OpenGoes
<1>4. CASE Retry(j)
  <2>1. Current(r, checks) /\ r.check = n /\ n # 0
    BY <1>2, <1>4 DEF Retry, At, Current
  <2>2. CASE HistoryOk /\ LossOf(r.check, r.run) /\ Reads(j, Goes(j, "reserve"))
    <3> DEFINE s == Goes(j, "reserve")
    <3>1. s.pc = "reserve" /\ Like(s, r)
      BY <1>1, GoesLike DEF Phases
    <3>2. Reads(j, s) /\ Retryable(checks[n])
      BY <2>1, <2>2 DEF LossOf
    <3> HIDE DEF s
    <3>3. AllOld(checks)
      <4>1. \A k \in 1..n : k \in 1..n - 1 \/ k = n
        BY <1>1
      <4>2. QED
        BY <2>2, <3>2, <4>1 DEF AllOld, Old, HistoryOk
    <3>4. NoneLive(checks, runs)
      <4>1. ~Carries(checks[n])
        BY <3>2 DEF Carries, Retryable, Active
      <4>2. QED
        BY <1>1, <4>1, Quiet
    <3>5. OpenOk(s, checks) /\ s.kind # "cancel" /\ Current(s, checks)
      BY <1>2, <2>1, <3>1, OpenLike DEF Like
    <3>6. Suits(s, checks, runs)
      BY <3>1, <3>3, <3>4, <3>5, SuitsCreating
    <3>7. QED
      BY <3>2, <3>6, ReadsOrderly
  <2>3. CASE Reads(j, Goes(j, "unretry"))
    BY <1>3, <2>1, <2>3, ReadsOrderly
  <2>4. QED
    BY <1>4, <2>2, <2>3 DEF Retry
<1>5. CASE Reserve(j)
  <2> DEFINE ds == Append(checks, Reserved)
             s == [r EXCEPT !.source = r.check, !.check = n + 1, !.open = @ \cup {n + 1},
                            !.run = 0, !.conclusion = "none", !.retry = "none",
                            !.pc = "acquire"]
  <2>1. r.pc = "reserve"
    BY <1>5 DEF Reserve, At
  <2>2. /\ AllOld(checks) /\ NoneLive(checks, runs) /\ Current(r, checks)
        /\ r.check = n /\ n # 0
    BY <1>1, <1>2, <2>1, HoldingWhen DEF Current
  <2>3. /\ NoneLive(ds, runs) /\ Len(ds) = n + 1 /\ ds[n + 1] = Reserved
        /\ \A k \in 1..n : ds[k] = checks[k]
    BY <1>1, <2>2, AppendKeeps
  <2>4. /\ s.pc = "acquire" /\ s.kind = r.kind /\ s.check = n + 1 /\ s.retry = "none"
        /\ s.open = r.open \cup {n + 1}
    BY <1>1 DEF Job
  <2>5. Creates(j, s, Goes(j, "unretry"))
    BY <1>5 DEF Reserve
  <2> HIDE DEF ds, s
  <2>6. \A k \in r.open : k \in 1..n + 1 /\ Old(ds[k])
    <3>1. \A k \in r.open : k \in 1..n /\ k \in 1..n + 1 /\ Old(checks[k])
      BY <1>1, <1>2, <2>2 DEF OpenOk, AllOld
    <3>2. QED
      BY <2>3, <3>1
  <2>7. OpenOk(s, ds) /\ Current(s, ds) /\ OpenOk(r, ds)
    <3>1. n + 1 \in 1..n + 1 /\ n + 1 # 0
      BY <1>1
    <3>2. QED
      BY <2>3, <2>4, <2>6, <3>1 DEF OpenOk, Current
  <2>8. Suits(s, ds, runs)
    <3>1. ds[Len(ds)].conclusion # "failure"
      BY <2>3 DEF Reserved
    <3>2. Ready(s, ds, runs)
      BY <1>2, <2>3, <2>4, <2>7, <3>1 DEF Ready
    <3>3. s.pc \in Preparing /\ s.pc # "post"
      BY <2>4 DEF Preparing
    <3>4. QED
      BY <3>2, <3>3, SuitsPreparing
  <2>9. Replaced(r, ds)
    <3>1. n \in 1..n /\ n \in 1..n + 1
      BY <1>1, <2>2
    <3>2. Old(ds[n])
      BY <2>2, <2>3, <3>1 DEF AllOld
    <3>3. QED
      BY <2>2, <2>3, <3>1, <3>2 DEF Replaced
  <2>10. Suits(Goes(j, "unretry"), ds, runs)
    BY <1>1, <1>2, <2>7, <2>9, OpenGoes
  <2>11. QED
    BY <1>3, <2>2, <2>5, <2>8, <2>10, CreatesOrderly DEF ds
<1>6. CASE Unretry(j)
  <2>1. \A ds : OpenOk(r, ds) => Suits(Goes(j, "cleanup"), ds, runs)
    BY <1>1, <1>2, OpenGoes
  <2>2. CASE Reads(j, Goes(j, "cleanup"))
    BY <1>2, <2>1, <2>2, ReadsOrderly
  <2>3. CASE /\ LossOf(r.check, r.run)
             /\ n = r.check \/ (n = r.check + 1 /\ checks[n].phase = "reserved")
             /\ Patches(j, n, Closed(checks[n], "failure", "none", r.run, 0),
                        Goes(j, "cleanup"), Goes(j, "cleanup"))
    <3>1. n # 0
      BY <1>2 DEF Current, Replaced
    <3>2. ~Carries(checks[n])
      BY <2>3 DEF LossOf, Carries, Retryable, Active
    <3>3. NoneLive(checks, runs)
      BY <1>1, <3>2, Quiet
    <3>4. "failure" \in Conclusions /\ "none" \in Reasons
      BY DEF Conclusions, Reasons
    <3>5. ASSUME NEW ds, Left(ds, Closed(checks[n], "failure", "none", r.run, 0))
          PROVE  Suits(Goes(j, "cleanup"), ds, runs)
      BY <1>2, <2>1, <3>5 DEF Left
    <3>6. Suits(Goes(j, "cleanup"), checks, runs)
      BY <1>2, <2>1
    <3>7. QED
      BY <1>1, <2>3, <3>1, <3>3, <3>4, <3>5, <3>6, ClosesOrderly
  <2>4. QED
    BY <1>6, <2>2, <2>3 DEF Unretry
<1>7. QED
  BY <1>4, <1>5, <1>6

LEMMA BusyWhen ==
    ASSUME NEW r, NEW cs, NEW rs, Busy(r), Suits(r, cs, rs)
    PROVE  r.kind # "cancel" /\ OpenOk(r, cs)
BY DEF Suits, KindOk, Fits, Holds

\* The last steps of a job.
LEMMA CleansOrderly ==
    ASSUME IInv, Order, NEW j \in 1..MaxJobs, Cleanup(j) \/ Abandon(j)
    PROVE  Orderly(j)
<1> DEFINE r == jobs[j]
           n == Len(checks)
<1>1. /\ n \in Nat /\ r \in Job /\ Suits(r, checks, runs) /\ r.pc \in {"cleanup", "abandon"}
  BY Standing DEF Cleanup, Abandon, At
<1>2. r.kind # "cancel" /\ OpenOk(r, checks)
  BY <1>1, BusyWhen DEF Busy
<1>3. CASE Cleanup(j)
  <2>1. CASE Reads(j, Goes(j, "done"))
    BY <2>1, GoneSuits, ReadsOrderly
  <2>2. CASE \E k \in r.open : Reads(j, [r EXCEPT !.open = @ \ {k}])
    <3>1. PICK k \in r.open : Reads(j, [r EXCEPT !.open = @ \ {k}])
      BY <2>2
    <3> DEFINE s == [r EXCEPT !.open = @ \ {k}]
    <3>2. s.pc = "cleanup" /\ s.kind = r.kind /\ s.open \subseteq r.open
      BY <1>1, <1>3 DEF Job, Cleanup, At
    <3>3. Reads(j, s)
      BY <3>1
    <3> HIDE DEF s
    <3>4. OpenOk(s, checks)
      BY <1>2, <3>2 DEF OpenOk
    <3>5. Suits(s, checks, runs)
      BY <1>2, <3>2, <3>4, SuitsCleanup
    <3>6. QED
      BY <3>3, <3>5, ReadsOrderly
  <2>3. CASE \E k \in r.open : /\ Active(checks[k])
                               /\ Becomes(j, [r EXCEPT !.check = k, !.pc = "abandon"])
                               /\ runs' = Stop({r.run}) /\ checks' = checks
    <3>1. PICK k \in r.open : /\ Active(checks[k])
                              /\ Becomes(j, [r EXCEPT !.check = k, !.pc = "abandon"])
                              /\ runs' = Stop({r.run}) /\ checks' = checks
      BY <2>3
    <3> DEFINE s == [r EXCEPT !.check = k, !.pc = "abandon"]
    <3>2. s.pc = "abandon" /\ s.kind = r.kind /\ s.open = r.open /\ s.check = k
      BY <1>1 DEF Job
    <3>3. Becomes(j, s)
      BY <3>1
    <3> HIDE DEF s
    <3>4. ~Old(checks[k])
      BY <3>1 DEF Old, Retryable
    <3>5. k = n /\ n # 0
      BY <1>1, <1>2, <3>4 DEF OpenOk
    <3>6. OpenOk(s, checks) /\ Current(s, checks)
      BY <1>2, <3>2, <3>5 DEF OpenOk, Current
    <3>7. Suits(s, checks, runs)
      BY <1>2, <3>2, <3>6, SuitsHolding
    <3>8. QED
      BY <3>1, <3>3, <3>7, StaysOrderly
  <2>4. QED
    BY <1>3, <2>1, <2>2, <2>3 DEF Cleanup
<1>4. CASE Abandon(j)
  <2> DEFINE s == Final(Goes(j, "cleanup"))
  <2>1. r.check = n /\ n # 0
    BY <1>1, <1>4, HoldingWhen DEF Abandon, At, Current
  <2>2. Patches(j, n, Closed(checks[n], "failure", "none", 0, 0), s, s)
    BY <1>4, <2>1 DEF Abandon
  <2>3. \A ds : OpenOk(r, ds) => Suits(s, ds, runs)
    BY <1>1, <1>2, OpenGoes
  <2> HIDE DEF s
  <2>4. "failure" \in Conclusions /\ "none" \in Reasons
    BY DEF Conclusions, Reasons
  <2>5. ASSUME NEW ds, Left(ds, Closed(checks[n], "failure", "none", 0, 0))
        PROVE  Suits(s, ds, runs)
    BY <1>2, <2>3, <2>5 DEF Left
  <2>6. Suits(s, checks, runs)
    BY <1>2, <2>3
  <2>7. QED
    BY <2>1, <2>2, <2>4, <2>5, <2>6, ClosesOrderly
<1>5. QED
  BY <1>3, <1>4

\* Failing reads, dying steps and lost runners.
LEMMA FailuresOrderly ==
    ASSUME IInv, Order, NEW j \in 1..MaxJobs, ReadFails(j) \/ StepDies(j) \/ Vanish(j)
    PROVE  Orderly(j)
<1> DEFINE r == jobs[j]
           n == Len(checks)
<1>1. /\ n \in Nat /\ r \in Job /\ Suits(r, checks, runs)
      /\ checks' = checks
  BY Standing DEF ReadFails, StepDies, Vanish
<1>2. \A pc \in {"done", "vanished"} : Suits(Goes(j, pc), checks, runs)
  BY GoneSuits
<1>3. r.pc \in Preparing =>
        \A pc \in {"restore", "fail", "cleanup"} : Suits(Goes(j, pc), checks, runs)
  <2>1. "restore" \in Preparing \ {"post"}
    BY DEF Preparing
  <2>2. QED
    BY <1>1, <2>1, ReadyWhen, ReadyGoes
<1>4. r.kind # "cancel" /\ Working(j) =>
        Suits(Goes(j, "cleanup"), checks, runs) /\ Suits(Final(Goes(j, "cleanup")), checks, runs)
  <2>1. r.kind # "cancel" /\ Working(j) => Busy(r)
    BY <1>1 DEF Working, Busy, Suits, KindOk
  <2>2. QED
    BY <1>1, <2>1, BusyWhen, OpenGoes
<1>5. ASSUME NEW s, Suits(s, checks, runs), Becomes(j, s), NEW S, runs' \in {runs, Stop(S)}
      PROVE  Orderly(j)
  BY <1>1, <1>5, StaysOrderly
<1>6. r.pc \in Attending => AtRun(r, checks, runs)
  BY <1>1, AtRunWhen
<1>7. CASE ReadFails(j)
  <2> DEFINE S == {i \in {r.lost} \ {0} : runs[i].visible}
             failed == [r EXCEPT !.retry = "none", !.pc = "fail"]
             unwanted == [r EXCEPT !.run = r.lost, !.lost = 0, !.pc = "cancel_child"]
  <2>1. runs' \in {runs, Stop(S)}
    BY <1>7 DEF ReadFails
  <2>2. /\ failed.pc = "fail" /\ Like(failed, r) /\ failed.run = r.run
        /\ failed.retry = "none"
        /\ unwanted.pc = "cancel_child" /\ Like(unwanted, r) /\ unwanted.retry = r.retry
    BY <1>1 DEF Job, Like
  <2>3. OnError(r) \in {"restore", "fail"}
    BY DEF OnError
  <2>4. \/ /\ r.pc \in {"live", "ensure", "cancel_runs"}
           /\ \/ r.kind = "coordinate" /\ Becomes(j, Goes(j, "cleanup"))
              \/ Becomes(j, Goes(j, "done"))
        \/ /\ r.pc \in {"evaluate", "finish", "confirm", "acquire", "revalidate"}
           /\ Becomes(j, failed)
        \/ /\ r.pc \in {"approve", "recheck"}
           /\ Becomes(j, Goes(j, OnError(r))) \/ Becomes(j, Goes(j, "fail"))
        \/ r.pc = "adopt" /\ Becomes(j, unwanted)
        \/ r.pc = "reconcile" /\ Becomes(j, Goes(j, "fail"))
        \/ r.pc = "cancel_child" /\ Becomes(j, Goes(j, "fail"))
        \/ r.pc = "retry" /\ Becomes(j, Goes(j, "unretry"))
    BY <1>7 DEF ReadFails
  <2> HIDE DEF failed, unwanted, S
  <2>5. CASE r.pc \in {"live", "ensure", "cancel_runs"} /\ r.kind = "coordinate"
               /\ Becomes(j, Goes(j, "cleanup"))
    BY <1>4, <1>5, <2>1, <2>5 DEF Working
  <2>6. CASE Becomes(j, Goes(j, "done"))
    BY <1>2, <1>5, <2>1, <2>6
  <2>7. CASE /\ r.pc \in {"evaluate", "finish", "confirm", "acquire", "revalidate"}
             /\ Becomes(j, failed)
    <3>1. r.pc \in Preparing \/ r.pc \in Attending
      BY <2>7 DEF Preparing, Attending
    <3>2. AtRun(r, checks, runs)
      BY <1>1, <1>6, <3>1, ReadyWhen, ReadyIsAtRun
    <3>3. AtRun(failed, checks, runs)
      BY <2>2, <3>2, AtRunLike
    <3>4. failed.pc \in Attending /\ failed.pc \notin Undecided
      BY <2>2 DEF Attending, Undecided, Preparing
    <3>5. Suits(failed, checks, runs)
      BY <2>2, <3>3, <3>4, SuitsAttending
    <3>6. QED
      BY <1>5, <2>1, <2>7, <3>5
  <2>8. CASE /\ r.pc \in {"approve", "recheck"}
             /\ Becomes(j, Goes(j, OnError(r))) \/ Becomes(j, Goes(j, "fail"))
    <3>1. r.pc \in Preparing
      BY <2>8 DEF Preparing
    <3>2. Suits(Goes(j, OnError(r)), checks, runs) /\ Suits(Goes(j, "fail"), checks, runs)
      BY <1>3, <2>3, <3>1
    <3>3. QED
      BY <1>5, <2>1, <2>8, <3>2
  <2>9. CASE r.pc = "adopt" /\ Becomes(j, unwanted)
    <3>1. r.pc \in Preparing
      BY <2>9 DEF Preparing
    <3>2. Ready(r, checks, runs)
      BY <1>1, <3>1, ReadyWhen
    <3>3. Ready(unwanted, checks, runs)
      BY <2>2, <3>2, ReadyLike
    <3>4. AtRun(unwanted, checks, runs) /\ unwanted.retry = "none"
      BY <3>3, ReadyIsAtRun DEF Ready
    <3>5. unwanted.pc \in Attending /\ unwanted.pc \notin Undecided
      BY <2>2 DEF Attending, Undecided, Preparing
    <3>6. Suits(unwanted, checks, runs)
      BY <3>4, <3>5, SuitsAttending
    <3>7. QED
      BY <1>5, <2>1, <2>9, <3>6
  <2>10. CASE r.pc = "reconcile" /\ Becomes(j, Goes(j, "fail"))
    <3>1. r.pc \in Preparing
      BY <2>10 DEF Preparing
    <3>2. QED
      BY <1>3, <1>5, <2>1, <2>10, <3>1
  <2>11. CASE r.pc = "cancel_child" /\ Becomes(j, Goes(j, "fail"))
    <3>1. r.pc \in Attending /\ r.pc \notin Judging
      BY <2>11 DEF Attending, Judging
    <3>2. Suits(Goes(j, "fail"), checks, runs)
      BY <1>1, <3>1, AtRunWhen, AtRunGoes
    <3>3. QED
      BY <1>5, <2>1, <2>11, <3>2
  <2>12. CASE r.pc = "retry" /\ Becomes(j, Goes(j, "unretry"))
    <3>1. r.kind # "cancel" /\ OpenOk(r, checks) /\ Current(r, checks)
      BY <1>1, <2>12, HoldingWhen
    <3>2. Suits(Goes(j, "unretry"), checks, runs)
      BY <1>1, <3>1, OpenGoes
    <3>3. QED
      BY <1>5, <2>1, <2>12, <3>2
  <2>13. QED
    BY <2>4, <2>5, <2>6, <2>7, <2>8, <2>9, <2>10, <2>11, <2>12
<1>8. CASE StepDies(j)
  <2>1. Working(j) /\ runs' \in {runs, Stop({})}
    BY <1>8 DEF StepDies
  <2>2. AfterFinish(r) \in {"retry", "cleanup"}
    BY DEF AfterFinish
  <2>3. \/ Becomes(j, Goes(j, "done"))
        \/ r.pc \in {"retry", "reserve"} /\ Becomes(j, Goes(j, "unretry"))
        \/ r.pc \in {"close", "fail"} /\ Becomes(j, Goes(j, AfterFinish(r)))
        \/ r.kind # "cancel" /\ Becomes(j, Final(Goes(j, "cleanup")))
        \/ r.kind # "cancel" /\ Becomes(j, Goes(j, "cleanup"))
    <3>1. CASE r.kind \in {"seed", "cancel"}
      <4>1. r.kind = "cancel" => r.pc \in {"cancel_runs", "cancel_checks"}
        BY <1>1, <1>8 DEF StepDies, Working, Suits, KindOk, Busy
      <4>2. CASE r.pc \in {"cancel_runs", "cancel_checks"}
        BY <1>8, <3>1, <4>2 DEF StepDies
      <4>3. CASE r.kind = "seed" /\ r.pc \in {"retry", "reserve"}
        BY <1>8, <4>3 DEF StepDies
      <4>4. CASE r.kind = "seed" /\ r.pc \in {"close", "fail"}
        BY <1>8, <4>4 DEF StepDies
      <4>5. CASE r.kind = "seed" /\ r.pc = "abandon"
        BY <1>8, <4>5 DEF StepDies
      <4>6. CASE r.kind = "seed" /\ r.pc \notin {"retry", "reserve", "close", "fail", "abandon"}
        BY <1>8, <4>6 DEF StepDies
      <4>7. QED
        BY <3>1, <4>1, <4>2, <4>3, <4>4, <4>5, <4>6
    <3>2. CASE r.kind \notin {"seed", "cancel"} /\ r.pc \in {"retry", "reserve"}
      BY <1>8, <3>2 DEF StepDies
    <3>3. CASE r.kind \notin {"seed", "cancel"} /\ r.pc \in {"close", "fail"}
      BY <1>8, <3>3 DEF StepDies
    <3>4. CASE r.kind \notin {"seed", "cancel"} /\ r.pc = "abandon"
      BY <1>8, <3>4 DEF StepDies
    <3>5. CASE r.kind \notin {"seed", "cancel"}
               /\ r.pc \notin {"retry", "reserve", "close", "fail", "abandon"}
      BY <1>8, <3>5 DEF StepDies
    <3>6. QED
      BY <3>1, <3>2, <3>3, <3>4, <3>5
  <2>4. CASE r.pc \in {"retry", "reserve"} /\ Becomes(j, Goes(j, "unretry"))
    <3>1. r.kind # "cancel" /\ OpenOk(r, checks) /\ Current(r, checks)
      BY <1>1, <2>4, HoldingWhen
    <3>2. Suits(Goes(j, "unretry"), checks, runs)
      BY <1>1, <3>1, OpenGoes
    <3>3. QED
      BY <1>5, <2>1, <2>4, <3>2
  <2>5. CASE r.pc \in {"close", "fail"} /\ Becomes(j, Goes(j, AfterFinish(r)))
    <3>1. r.pc \in Attending
      BY <2>5 DEF Attending
    <3>2. r.kind # "cancel" /\ OpenOk(r, checks) /\ Current(r, checks)
      BY <1>6, <3>1 DEF AtRun
    <3>3. Suits(Goes(j, AfterFinish(r)), checks, runs)
      BY <1>1, <2>2, <3>2, OpenGoes
    <3>4. QED
      BY <1>5, <2>1, <2>5, <3>3
  <2>6. QED
    BY <1>2, <1>4, <1>5, <2>1, <2>3, <2>4, <2>5
<1>9. CASE Vanish(j)
  <2>1. Becomes(j, Goes(j, "vanished")) /\ runs' \in {runs, Stop({})}
    BY <1>9 DEF Vanish
  <2>2. QED
    BY <1>2, <1>5, <2>1
<1>10. QED
  BY <1>7, <1>8, <1>9

-----------------------------------------------------------------------------
(* Cancellations, GitHub and the child runs.                               *)

\* A step of this shape keeps the order, when the other jobs are not at work or the step
\* takes nothing from them.
LEMMA OrderKept ==
    ASSUME IInv, Order, NEW j \in 1..MaxJobs, Orderly(j),
           \/ Busy(jobs[j])
           \/ \A i \in 1..MaxJobs : i # j => ~Busy(jobs[i])
           \/ Calm(checks, runs, checks', runs') /\ ~Busy(jobs[j])'
    PROVE  Order'
<1>1. /\ jobs \in [1..MaxJobs -> Job] /\ Len(checks) \in Nat
      /\ \A i \in 1..MaxJobs : Suits(jobs[i], checks, runs)
      /\ \A i, k \in 1..MaxJobs : Busy(jobs[i]) /\ Busy(jobs[k]) => i = k
  BY Standing DEF Order, TypeOK
<1>2. PICK s : /\ jobs' = [jobs EXCEPT ![j] = s] /\ Suits(s, checks', runs')
               /\ ChecksOk(checks') /\ RunsOk(checks', runs')
  BY DEF Orderly
<1>3. jobs'[j] = s /\ \A i \in 1..MaxJobs : i # j => jobs'[i] = jobs[i]
  BY <1>1, <1>2
<1>4. ASSUME NEW i \in 1..MaxJobs PROVE Suits(jobs'[i], checks', runs')
  <2>1. CASE i = j
    BY <1>2, <1>3, <2>1
  <2>2. CASE i # j /\ ~Busy(jobs[i])
    BY <1>1, <1>3, <2>2 DEF Suits
  <2>3. CASE i # j /\ Busy(jobs[i])
    <3>1. Calm(checks, runs, checks', runs')
      BY <1>1, <2>3
    <3>2. Suits(jobs[i], checks', runs')
      BY <1>1, <3>1, CalmSuits
    <3>3. QED
      BY <1>3, <2>3, <3>2
  <2>4. QED
    BY <2>1, <2>2, <2>3
<1>5. ASSUME NEW i \in 1..MaxJobs, NEW k \in 1..MaxJobs, Busy(jobs'[i]), Busy(jobs'[k])
      PROVE  i = k
  <2>1. ~Busy(jobs[j])' => ~Busy(jobs'[j])
    BY DEF Busy
  <2>2. i # j => Busy(jobs[i])
    BY <1>3, <1>5
  <2>3. k # j => Busy(jobs[k])
    BY <1>3, <1>5
  <2>4. QED
    BY <1>1, <1>5, <2>1, <2>2, <2>3
<1>6. /\ \A i \in 1..MaxJobs : Suits(jobs[i], checks, runs)'
      /\ \A i, k \in 1..MaxJobs : Busy(jobs[i])' /\ Busy(jobs[k])' => i = k
  <2>1. \A i \in 1..MaxJobs : Busy(jobs[i])' => Busy(jobs'[i])
    BY DEF Busy
  <2>2. QED
    BY <1>4, <1>5, <2>1
<1>7. ChecksOk(checks)' /\ RunsOk(checks, runs)'
  BY <1>2
<1>8. QED
  BY <1>6, <1>7 DEF Order

\* A job that begins has the group to itself.
LEMMA BeginsAlone ==
    ASSUME IInv, Order, ~Fork, NEW j \in 1..MaxJobs, Begin(j)
    PROVE  \/ \A i \in 1..MaxJobs : i # j => ~Busy(jobs[i])
           \/ Calm(checks, runs, checks', runs') /\ ~Busy(jobs[j])'
<1>1. ASSUME NEW kind, kind # "cancel", CanBegin(j, kind), NEW i \in 1..MaxJobs
      PROVE  ~Busy(jobs[i])
  <2>1. Suits(jobs[i], checks, runs)
    BY Standing
  <2>2. SUFFICES ASSUME Busy(jobs[i]) PROVE FALSE
    OBVIOUS
  <2>3. Working(i) /\ jobs[i].kind # "cancel"
    BY <2>1, <2>2 DEF Busy, Working, Suits, KindOk
  <2>4. Group(jobs[i].kind) # Group(kind)
    BY <1>1, <2>3 DEF CanBegin
  <2>5. QED
    BY <2>4 DEF Group
<1>2. CASE BeginSeed(j) \/ BeginApprove(j) \/ \E ci \in BOOLEAN : BeginCoordinate(j, ci)
  <2>1. \E kind \in {"seed", "approve", "coordinate"} : CanBegin(j, kind)
    BY <1>2 DEF BeginSeed, BeginApprove, BeginCoordinate
  <2>2. QED
    BY <1>1, <2>1
<1>3. CASE BeginCancel(j)
  <2>1. PICK targets : Reads(j, [Begun("cancel", "cancel_runs") EXCEPT !.targets = targets])
    BY <1>3 DEF BeginCancel
  <2> DEFINE r == [Begun("cancel", "cancel_runs") EXCEPT !.targets = targets]
  <2>2. r.pc = "cancel_runs"
    BY DEF Begun, Idle
  <2>3. jobs' = [jobs EXCEPT ![j] = r] /\ checks' = checks /\ runs' \in {runs, Stop({})}
    BY <2>1 DEF Reads, Becomes
  <2> HIDE DEF r
  <2>4. jobs'[j] = r
    BY <2>3, Known DEF TypeOK
  <2>5. ~Busy(jobs[j])'
    BY <2>2, <2>4 DEF Busy
  <2>6. Calm(checks, runs, checks', runs')
    BY <2>3, Standing, StopIsCalm
  <2>7. QED
    BY <2>5, <2>6
<1>4. QED
  BY <1>2, <1>3 DEF Begin

\* A cancellation closes checks whatever they are by then.
LEMMA CancelIsCalm ==
    ASSUME IInv, Order, NEW j \in 1..MaxJobs, CancelRuns(j) \/ CancelChecks(j)
    PROVE  /\ Orderly(j) /\ Calm(checks, runs, checks', runs') /\ ~Busy(jobs[j])'
<1> DEFINE r == jobs[j]
           n == Len(checks)
<1>1. /\ n \in Nat /\ r \in Job /\ Suits(r, checks, runs) /\ GoodJob(r, n, runs)
      /\ r.pc \in {"cancel_runs", "cancel_checks"} /\ checks \in Seq(Check)
      /\ ChecksOk(checks) /\ RunsOk(checks, runs) /\ jobs \in [1..MaxJobs -> Job]
      /\ TypeOK /\ EndedRuns(runs) /\ \A k \in 1..n : checks[k] \in Check
  BY Standing DEF CancelRuns, CancelChecks, At, TypeOK
<1>2. r.kind = "cancel"
  BY <1>1 DEF Suits, KindOk
<1>3. ASSUME NEW s, Becomes(j, s), s.pc \in {"cancel_checks", "done"},
             s.pc = "cancel_checks" => s.kind = "cancel",
             Calm(checks, runs, checks', runs'), Careful(checks, checks')
      PROVE  /\ Orderly(j) /\ Calm(checks, runs, checks', runs') /\ ~Busy(jobs[j])'
  <2>1. Suits(s, checks', runs')
    BY <1>3 DEF Suits, KindOk, Busy
  <2>2. ChecksOk(checks') /\ RunsOk(checks', runs')
    BY <1>1, <1>3, CalmChecks, CalmRuns
  <2>3. Orderly(j)
    BY <1>3, <2>1, <2>2 DEF Orderly, Becomes
  <2>4. jobs'[j] = s
    BY <1>1, <1>3 DEF Becomes
  <2>5. ~Busy(jobs[j])'
    BY <1>3, <2>4 DEF Busy
  <2>6. QED
    BY <1>3, <2>3, <2>5
<1>4. CASE CancelRuns(j)
  <2> DEFINE S == {k \in 1..Len(runs) : runs[k].visible}
             s == Goes(j, "cancel_checks")
  <2>1. Becomes(j, s) /\ runs' = Stop(S) /\ checks' = checks
    BY <1>4 DEF CancelRuns
  <2>2. s.pc = "cancel_checks" /\ s.kind = "cancel"
    BY <1>1, <1>2, GoesLike DEF Phases, Like
  <2> HIDE DEF s, S
  <2>3. Calm(checks, runs, checks', runs') /\ Careful(checks, checks')
    BY <1>1, <2>1, StopIsCalm, CarefulItself
  <2>4. QED
    BY <1>3, <2>1, <2>2, <2>3
<1>5. CASE CancelChecks(j)
  <2>1. r.pc = "cancel_checks" /\ Goes(j, "done").pc = "done"
    BY <1>5, GoneSuits DEF CancelChecks, At
  <2>2. CASE Reads(j, Goes(j, "done"))
    <3>1. Becomes(j, Goes(j, "done")) /\ runs' \in {runs, Stop({})} /\ checks' = checks
      BY <2>2 DEF Reads
    <3>2. Calm(checks, runs, checks', runs') /\ Careful(checks, checks')
      BY <1>1, <3>1, StopIsCalm, CarefulItself
    <3> DEFINE s == Goes(j, "done")
    <3>3. Becomes(j, s) /\ s.pc = "done"
      BY <2>1, <3>1
    <3> HIDE DEF s
    <3>4. QED
      BY <1>3, <3>2, <3>3
  <2>3. CASE \E k \in r.targets :
               Patches(j, k, Closed(checks[k], "cancelled", "none", 0, 0),
                       [r EXCEPT !.targets = @ \ {k}], Goes(j, "done"))
    <3>1. PICK k \in r.targets :
               Patches(j, k, Closed(checks[k], "cancelled", "none", 0, 0),
                       [r EXCEPT !.targets = @ \ {k}], Goes(j, "done"))
      BY <2>3
    <3> DEFINE c == Closed(checks[k], "cancelled", "none", 0, 0)
               ds == [checks EXCEPT ![k] = c]
               s == [r EXCEPT !.targets = @ \ {k}]
    <3>2. k \in 1..n /\ checks[k] \in Check
      BY <1>1 DEF GoodJob, JobTyped
    <3>3. /\ c \in Check /\ c.phase = "closed" /\ c.conclusion = "cancelled"
          /\ c.retry = "none" /\ c.run = checks[k].run
      BY <3>2 DEF Closed, Check, Conclusions, Reasons
    <3>4. s.pc = "cancel_checks" /\ s.kind = "cancel"
      BY <1>1, <1>2, <2>1 DEF Job
    <3>5. runs' = runs /\ checks' \in {checks, ds} /\ (Becomes(j, s) \/ Becomes(j, Goes(j, "done")))
      BY <3>1 DEF Patches
    <3> HIDE DEF c, s
    <3>6. /\ Len(ds) = n
          /\ \A i \in 1..n : ds[i] = IF i = k THEN c ELSE checks[i]
      BY <1>1, <3>2, <3>3, ExceptSeq
    <3> HIDE DEF ds
    <3>7. Cancelled(c) /\ ~Active(c) /\ c.conclusion # "success"
      BY <3>3 DEF Cancelled, Active
    <3>8. \A i \in 1..n : ds[i] = checks[i] \/ (Cancelled(ds[i]) /\ ds[i].run = checks[i].run)
      BY <3>3, <3>6, <3>7
    <3>9. Calm(checks, runs, ds, runs)
      <4>1. ASSUME NEW m \in 1..Len(runs)
            PROVE  /\ runs[m].check \in 1..n
                   /\ runs[m].result = "lost" => runs[m].state = "done"
        BY <1>1, <4>1 DEF RunsOk
      <4>2. ASSUME NEW m \in 1..Len(runs), Live(m, ds, runs) PROVE Live(m, checks, runs)
        <5>1. ds[runs[m].check] = checks[runs[m].check] \/ ds[runs[m].check].phase = "closed"
          BY <3>3, <3>6, <4>1, <4>2
        <5>2. QED
          BY <4>2, <5>1 DEF Live
      <4>3. QED
        BY <3>6, <3>8, <4>1, <4>2 DEF Calm
    <3>10. Careful(checks, ds)
      BY <3>6, <3>7 DEF Careful, FailedForGood
    <3>11. Calm(checks, runs, checks', runs') /\ Careful(checks, checks')
      <4>1. Calm(checks, runs, checks, runs)
        BY <1>1, StopIsCalm
      <4>2. QED
        BY <3>5, <3>9, <3>10, <4>1, CarefulItself
    <3>12. PICK t \in {s, Goes(j, "done")} : Becomes(j, t)
      BY <3>5
    <3>13. t.pc \in {"cancel_checks", "done"} /\ (t.pc = "cancel_checks" => t.kind = "cancel")
      BY <2>1, <3>4, <3>12
    <3>14. QED
      BY <1>3, <3>11, <3>12, <3>13
  <2>4. QED
    BY <1>5, <2>2, <2>3 DEF CancelChecks
<1>6. QED
  BY <1>4, <1>5

\* A step of a job is orderly and keeps the order.
LEMMA JobStepKeeps ==
    ASSUME IInv, Order, ~Fork, NEW j \in 1..MaxJobs,
           Begin(j) \/ Step(j) \/ ReadFails(j) \/ StepDies(j) \/ Vanish(j)
    PROVE  Order' /\ Careful(checks, checks')
<1>1. ASSUME Orderly(j) PROVE Careful(checks, checks')
  BY <1>1 DEF Orderly
<1>2. CASE Begin(j)
  BY <1>1, <1>2, BeginsOrderly, BeginsAlone, OrderKept
<1>3. CASE CancelRuns(j) \/ CancelChecks(j)
  BY <1>1, <1>3, CancelIsCalm, OrderKept
<1>4. ASSUME Step(j), ~CancelRuns(j), ~CancelChecks(j) PROVE Orderly(j) /\ Busy(jobs[j])
  <2>1. Orderly(j)
    BY <1>4, LiveOrderly, EnsureOrderly, EvaluateOrderly, PostOrderly, RunStepsOrderly,
       AttendsOrderly, FinishOrderly, VerdictsOrderly, RetriesOrderly, CleansOrderly DEF Step
  <2>2. Busy(jobs[j])
    BY <1>4 DEF Step, Busy, At, SeedLive, CoordinateLive, Ensure, Create, Mark, Evaluate,
       Conclude, Approve, Authorize, Restore, Recheck, Post, Reconcile, Adopt, Publish,
       Revoke, CancelChild, Wait, Finish, Confirm, CloseCheck, FailCheck, Retry, Reserve,
       Acquire, Prepare, Revalidate, Unretry, Cleanup, Abandon
  <2>3. QED
    BY <2>1, <2>2
<1>5. CASE ReadFails(j) \/ StepDies(j) \/ Vanish(j)
  <2>1. Orderly(j)
    BY <1>5, FailuresOrderly
  <2>2. CASE Busy(jobs[j])
    BY <1>1, <2>1, <2>2, OrderKept
  <2>3. CASE ~Busy(jobs[j])
    <3>1. /\ jobs[j].pc \in {"cancel_runs", "cancel_checks"}
          /\ Suits(jobs[j], checks, runs) /\ jobs \in [1..MaxJobs -> Job]
      <4>1. jobs[j].pc \notin {"idle", "done", "vanished"}
        BY <1>5 DEF ReadFails, StepDies, Vanish, Working
      <4>2. QED
        BY <2>3, <4>1, Standing DEF Busy, TypeOK
    <3>2. jobs[j].kind = "cancel"
      BY <3>1 DEF Suits, KindOk
    <3>3. \E pc \in {"done", "vanished"} : Becomes(j, Goes(j, pc))
      BY <1>5, <3>1, <3>2 DEF ReadFails, StepDies, Vanish
    <3>4. PICK pc \in {"done", "vanished"} : Becomes(j, Goes(j, pc))
      BY <3>3
    <3>5. Goes(j, pc).pc = pc
      BY DEF Goes, Idle
    <3>6. jobs'[j].pc \in {"done", "vanished"}
      BY <3>1, <3>4, <3>5 DEF Becomes
    <3>7. ~Busy(jobs[j])'
      BY <3>6 DEF Busy
    <3>8. checks' = checks /\ runs' \in {runs, Stop({})}
      BY <1>5, <3>1 DEF ReadFails, StepDies, Vanish
    <3>9. Calm(checks, runs, checks', runs')
      BY <3>8, Standing, StopIsCalm
    <3>10. QED
      BY <1>1, <2>1, <3>7, <3>9, OrderKept
  <2>4. QED
    BY <2>2, <2>3
<1>6. QED
  BY <1>1, <1>2, <1>3, <1>4, <1>5, OrderKept

-----------------------------------------------------------------------------
(* GitHub, the child runs and the required job.                            *)

\* Only a run that was live already goes on to execute.
LEMMA RunIsCalm ==
    ASSUME IInv, Order, NEW n \in 1..Len(runs), NEW r \in Run, RunBecomes(n, r),
           r.check = runs[n].check, r.result = "lost" => r.state = "done",
           Executes(r) => Live(n, checks, runs), r.state = "queued" => runs[n].state = "queued"
    PROVE  Calm(checks, runs, checks, runs')
<1>1. runs \in Seq(Run) /\ Len(runs) \in Nat /\ RunsOk(checks, runs)
  BY LenProperties DEF IInv, TypeOK, Order
<1>2. /\ Len(runs') = Len(runs)
      /\ \A m \in 1..Len(runs) : runs'[m] = IF m = n THEN r ELSE runs[m]
  BY <1>1, ExceptSeq DEF RunBecomes
<1>3. ASSUME NEW m \in 1..Len(runs)
      PROVE  /\ runs'[m].check = runs[m].check
             /\ runs'[m].result = "lost" => runs'[m].state = "done"
             /\ Live(m, checks, runs') => Live(m, checks, runs)
  <2>1. CASE m = n
    BY <1>2, <2>1 DEF Live
  <2>2. CASE m # n
    BY <1>1, <1>2, <2>2 DEF RunsOk, Live
  <2>3. QED
    BY <2>1, <2>2
<1>4. QED
  BY <1>2, <1>3 DEF Calm

\* What leaves checks and jobs and is calm keeps the order.
LEMMA CalmKeeps ==
    ASSUME IInv, Order, UNCHANGED <<checks, jobs>>, Calm(checks, runs, checks, runs')
    PROVE  Order' /\ Careful(checks, checks')
<1>1. Len(checks) \in Nat
  BY LenProperties DEF IInv, TypeOK
<1>2. \A i \in 1..MaxJobs : Suits(jobs[i], checks, runs')
  BY <1>1, CalmSuits DEF Order
<1>3. ChecksOk(checks) /\ RunsOk(checks, runs')
  BY <1>1, CalmRuns DEF Order
<1>4. \A i, k \in 1..MaxJobs : Busy(jobs[i]) /\ Busy(jobs[k]) => i = k
  BY DEF Order
<1>5. \A i \in 1..MaxJobs : Busy(jobs[i])' => Busy(jobs[i])
  BY DEF Busy
<1>6. \A i \in 1..MaxJobs : Suits(jobs[i], checks, runs)'
  BY <1>2
<1>7. ChecksOk(checks)' /\ RunsOk(checks, runs)'
  BY <1>3
<1>8. Order'
  BY <1>4, <1>5, <1>6, <1>7 DEF Order
<1>9. QED
  BY <1>8, CarefulItself

\* The steps of a child run, and what they leave of it.
LEMMA RunMoves ==
    ASSUME IInv, Order, NEW n \in 1..Len(runs),
           \/ Appear(n) \/ Authenticate(n) \/ Refuse(n)
           \/ \E result \in {"success", "failure", "lost", "cancelled"} : RunEnds(n, result)
    PROVE  \E r \in Run :
              /\ RunBecomes(n, r) /\ Calm(checks, runs, checks, runs')
              /\ \/ Executes(r) <=> Executes(runs[n])
                 \/ ~Executes(runs[n]) /\ runs[n].state = "queued" /\ Live(n, checks, runs)
                 \/ Executes(runs[n]) /\ ~Executes(r)
              /\ Executes(r) \/ ~Executes(runs[n]) =>
                    (r.result = "success" <=> runs[n].result = "success")
<1>1. /\ runs[n] \in Run /\ (runs[n].result = "success" => runs[n].state = "done")
      /\ runs[n].result = "lost" => runs[n].state = "done"
  BY ElementOfSeq DEF IInv, TypeOK, EndedRuns, Order, RunsOk
<1>2. Executes(runs[n]) => Live(n, checks, runs)
  BY DEF Live
<1>3. CASE Appear(n)
  <2> DEFINE r == [runs[n] EXCEPT !.visible = TRUE]
  <2>1. /\ r \in Run /\ r.check = runs[n].check /\ r.result = runs[n].result
        /\ r.state = runs[n].state
    BY <1>1 DEF Run
  <2>2. RunBecomes(n, r)
    BY <1>3 DEF Appear
  <2> HIDE DEF r
  <2>3. /\ r.result = "lost" => r.state = "done"
        /\ Executes(r) <=> Executes(runs[n])
    BY <1>1, <2>1 DEF Executes
  <2>4. Executes(r) => Live(n, checks, runs)
    BY <1>2, <2>3
  <2>5. Calm(checks, runs, checks, runs')
    BY <2>1, <2>2, <2>3, <2>4, RunIsCalm
  <2>6. QED
    BY <2>1, <2>2, <2>3, <2>5
<1>4. CASE Authenticate(n)
  <2> DEFINE r == [runs[n] EXCEPT !.state = "executing"]
  <2>1. /\ r \in Run /\ r.check = runs[n].check /\ r.result = runs[n].result
        /\ r.state = "executing"
    BY <1>1 DEF Run
  <2>2. RunBecomes(n, r) /\ runs[n].state = "queued"
    BY <1>4 DEF Authenticate
  <2>3. Live(n, checks, runs)
    BY <1>4 DEF Authenticate, Live
  <2> HIDE DEF r
  <2>4. r.result # "lost" /\ ~Executes(runs[n]) /\ r.state # "queued"
    BY <1>1, <2>1, <2>2 DEF Executes
  <2>5. Calm(checks, runs, checks, runs')
    BY <2>1, <2>2, <2>3, <2>4, RunIsCalm
  <2>6. QED
    BY <2>1, <2>2, <2>3, <2>4, <2>5
<1>5. CASE Refuse(n)
  <2> DEFINE r == [runs[n] EXCEPT !.state = "done", !.result = "failure"]
  <2>1. r \in Run /\ r.check = runs[n].check /\ r.result = "failure" /\ r.state = "done"
    BY <1>1 DEF Run
  <2>2. RunBecomes(n, r) /\ runs[n].state = "queued"
    BY <1>5 DEF Refuse
  <2> HIDE DEF r
  <2>3. ~Executes(r) /\ ~Executes(runs[n]) /\ runs[n].result # "success"
    BY <1>1, <2>1, <2>2 DEF Executes
  <2>4. Calm(checks, runs, checks, runs')
    BY <2>1, <2>2, <2>3, RunIsCalm
  <2>5. QED
    BY <2>1, <2>2, <2>3, <2>4
<1>6. CASE \E result \in {"success", "failure", "lost", "cancelled"} : RunEnds(n, result)
  <2>1. PICK result \in {"success", "failure", "lost", "cancelled"} : RunEnds(n, result)
    BY <1>6
  <2> DEFINE r == [runs[n] EXCEPT !.state = "done", !.result = result]
  <2>2. r \in Run /\ r.check = runs[n].check /\ r.state = "done"
    BY <1>1 DEF Run
  <2>3. RunBecomes(n, r) /\ runs[n].state \in {"executing", "stopping"}
    BY <2>1 DEF RunEnds
  <2> HIDE DEF r
  <2>4. ~Executes(r) /\ Executes(runs[n])
    BY <2>2, <2>3 DEF Executes
  <2>5. Calm(checks, runs, checks, runs')
    BY <2>2, <2>3, <2>4, RunIsCalm
  <2>6. QED
    BY <2>2, <2>3, <2>4, <2>5
<1>7. QED
  BY <1>3, <1>4, <1>5, <1>6

LEMMA EnvironmentKeepsOrder ==
    ASSUME IInv, Order, Environment
    PROVE  Order' /\ Careful(checks, checks')
<1>1. CASE Move \/ ReadVerdict \/ AcceptVerdict
  <2>1. UNCHANGED <<checks, runs, jobs>>
    BY <1>1 DEF Move, ReadVerdict, AcceptVerdict, RequiredBecomes
  <2>2. \A m \in 1..Len(runs) : runs[m].result = "lost" => runs[m].state = "done"
    BY DEF Order, RunsOk
  <2>3. Calm(checks, runs, checks, runs)
    BY <2>2 DEF Calm
  <2>4. QED
    BY <2>1, <2>3, CalmKeeps
<1>2. ASSUME NEW n \in 1..Len(runs),
             \/ Appear(n) \/ Authenticate(n) \/ Refuse(n)
             \/ \E result \in {"success", "failure", "lost", "cancelled"} : RunEnds(n, result)
      PROVE  Order' /\ Careful(checks, checks')
  <2>1. PICK r \in Run : RunBecomes(n, r) /\ Calm(checks, runs, checks, runs')
    BY <1>2, RunMoves
  <2>2. UNCHANGED <<checks, jobs>>
    BY <2>1 DEF RunBecomes
  <2>3. QED
    BY <2>1, <2>2, CalmKeeps
<1>3. QED
  BY <1>1, <1>2 DEF Environment

-----------------------------------------------------------------------------
(* The theorems.                                                           *)

LEMMA InitInOrder == ASSUME Init PROVE Order
<1>1. checks = <<>> /\ runs = <<>> /\ jobs = [j \in 1..MaxJobs |-> Idle]
  BY DEF Init
<1>2. Len(checks) = 0 /\ Len(runs) = 0
  BY <1>1, EmptySeq
<1>3. ASSUME NEW j \in 1..MaxJobs PROVE Suits(jobs[j], checks, runs) /\ ~Busy(jobs[j])
  BY <1>1 DEF Idle, Suits, KindOk, Busy
<1>4. ChecksOk(checks) /\ RunsOk(checks, runs)
  BY <1>2 DEF ChecksOk, RunsOk
<1>5. QED
  BY <1>3, <1>4 DEF Order

LEMMA NextKeepsOrder ==
    ASSUME IInv, Order, ~Fork, [Next]_vars
    PROVE  Order' /\ Careful(checks, checks')
<1>1. CASE UNCHANGED vars
  <2>1. UNCHANGED <<checks, runs, jobs>>
    BY <1>1 DEF vars
  <2>2. \A m \in 1..Len(runs) : runs[m].result = "lost" => runs[m].state = "done"
    BY DEF Order, RunsOk
  <2>3. Calm(checks, runs, checks, runs)
    BY <2>2 DEF Calm
  <2>4. QED
    BY <2>1, <2>3, CalmKeeps
<1>2. CASE Environment
  BY <1>2, EnvironmentKeepsOrder
<1>3. ASSUME NEW j \in 1..MaxJobs,
             Begin(j) \/ Step(j) \/ ReadFails(j) \/ StepDies(j) \/ Vanish(j)
      PROVE  Order' /\ Careful(checks, checks')
  BY <1>3, JobStepKeeps
<1>4. QED
  BY <1>1, <1>2, <1>3 DEF Next

\* Jobs of one concurrency group exclude each other, and in each phase the one at work knows
\* enough of the current check and of what may execute.
THEOREM GateOrder == ASSUME ~Fork PROVE Spec => []Order
<1>1. Init => Order
  BY InitInOrder
<1>2. IInv /\ Order /\ [Next]_vars => Order'
  BY NextKeepsOrder
<1>3. QED
  BY <1>1, <1>2, GateInvariant, PTL DEF Spec

\* A diff never has two active checks, and an older check is a retryable failure or was
\* cancelled late: the group keeps the list and the POST of ensurePrGateCheck together.
THEOREM OneCurrentAlways == ASSUME ~Fork PROVE Spec => []OneCurrentCheck
<1>1. Order => OneCurrentCheck
  BY DEF Order, ChecksOk, Old, OneCurrentCheck
<1>2. QED
  BY <1>1, GateOrder, PTL

\* A check that has failed for good is neither opened again nor made a success, by whichever
\* job still holds it.
THEOREM FailureStaysFinal == ASSUME ~Fork PROVE Spec => FailureIsFinal
<1>1. IInv /\ Order /\ [Next]_vars =>
        [\A k \in 1..Len(checks) :
            ~Active(checks[k]) /\ checks[k].conclusion = "failure" /\ ~Retryable(checks[k]) =>
               ~Active(checks'[k]) /\ checks'[k].conclusion # "success"]_vars
  BY NextKeepsOrder DEF Careful, FailedForGood
<1>2. QED
  BY <1>1, GateInvariant, GateOrder, PTL DEF Spec, FailureIsFinal

-----------------------------------------------------------------------------
(* The gate implements ExactDiffGate.  A step of a job is none of its      *)
(* steps; a run starts where no other executes, because the one that its   *)
(* check names is the only live one.                                       *)

Credentialed(rs) == {n \in 1..Len(rs) : Executes(rs[n])}

Shown == IF required = "read" THEN "waiting" ELSE required

LEMMA Stutters ==
    ASSUME Credentialed(runs') = Credentialed(runs), Proven(runs)' <=> Proven(runs),
           Shown' = Shown
    PROVE  UNCHANGED Gate!vars
<1>1. UNCHANGED {n \in 1..Len(runs) : runs[n].state \in {"executing", "stopping"}}
  BY DEF Credentialed, Executes
<1>2. UNCHANGED (plan = "none" \/ \E n \in 1..Len(runs) : runs[n].result = "success")
  BY Zenon DEF Proven
<1>3. UNCHANGED (IF required = "read" THEN "waiting" ELSE required)
  BY DEF Shown
<1>4. QED
  BY <1>1, <1>2, <1>3 DEF Gate!vars

\* A run that is asked to stop goes on, one that is dispatched does not start.
LEMMA JobsStartNothing ==
    ASSUME IInv, NEW j \in 1..MaxJobs, Shape(j)
    PROVE  UNCHANGED Gate!vars
<1>1. /\ runs \in Seq(Run) /\ Len(runs) \in Nat
      /\ \A n \in 1..Len(runs) :
            runs[n] \in Run /\ (runs[n].result = "success" => runs[n].state = "done")
  BY LenProperties, ElementOfSeq DEF IInv, TypeOK, EndedRuns
<1>2. UNCHANGED <<plan, required>> /\ RunsMove
  BY DEF Shape
<1>3. ASSUME NEW rs, Len(rs) \in Nat, Len(runs) <= Len(rs),
             \A n \in 1..Len(runs) : /\ Executes(rs[n]) <=> Executes(runs[n])
                                     /\ rs[n].result = "success" <=> runs[n].result = "success",
             \A n \in 1..Len(rs) : n \notin 1..Len(runs) =>
                ~Executes(rs[n]) /\ rs[n].result # "success"
      PROVE  /\ Credentialed(rs) = Credentialed(runs)
             /\ Proven(rs) <=> Proven(runs)
  <2>1. \A n \in 1..Len(runs) : n \in 1..Len(rs)
    BY <1>1, <1>3
  <2>2. QED
    BY <1>3, <2>1 DEF Credentialed, Proven
<1>4. Credentialed(runs') = Credentialed(runs) /\ (Proven(runs') <=> Proven(runs))
  <2>1. CASE runs' = runs
    BY <2>1
  <2>2. CASE \E S : runs' = Stop(S)
    <3>1. PICK S : runs' = Stop(S)
      BY <2>2
    <3>2. Len(runs') = Len(runs)
      BY <1>1, <3>1, StopKeeps DEF IInv
    <3>3. ASSUME NEW n \in 1..Len(runs)
          PROVE  /\ Executes(runs'[n]) <=> Executes(runs[n])
                 /\ runs'[n].result = "success" <=> runs[n].result = "success"
      <4>1. runs'[n] = IF n \in S THEN Stopped(runs[n]) ELSE runs[n]
        BY <3>1 DEF Stop
      <4>2. CASE n \in S /\ runs[n].state = "queued"
        <5>1. runs'[n] = [runs[n] EXCEPT !.state = "done", !.result = "cancelled"]
          BY <4>1, <4>2 DEF Stopped
        <5>2. runs'[n].state = "done" /\ runs'[n].result = "cancelled"
          BY <1>1, <5>1 DEF Run
        <5>3. QED
          BY <1>1, <4>2, <5>2 DEF Executes
      <4>3. CASE n \in S /\ runs[n].state = "executing"
        <5>1. runs'[n] = [runs[n] EXCEPT !.state = "stopping"]
          BY <4>1, <4>3 DEF Stopped
        <5>2. runs'[n].state = "stopping" /\ runs'[n].result = runs[n].result
          BY <1>1, <5>1 DEF Run
        <5>3. QED
          BY <4>3, <5>2 DEF Executes
      <4>4. CASE n \notin S \/ runs[n].state \notin {"queued", "executing"}
        <5>1. runs'[n] = runs[n]
          BY <4>1, <4>4 DEF Stopped
        <5>2. QED
          BY <5>1
      <4>5. QED
        BY <4>2, <4>3, <4>4
    <3>4. QED
      BY <1>1, <1>3, <3>2, <3>3
  <2>3. CASE \E k \in Nat, v \in BOOLEAN :
               Len(runs) < MaxRuns /\ runs' = Append(runs, NewRun(k, v))
    <3>1. PICK k \in Nat, v \in BOOLEAN : runs' = Append(runs, NewRun(k, v))
      BY <2>3
    <3>2. /\ NewRun(k, v) \in Run /\ ~Executes(NewRun(k, v))
          /\ NewRun(k, v).result # "success"
      BY DEF NewRun, Run, Executes
    <3>3. /\ Len(runs') = Len(runs) + 1
          /\ \A n \in 1..Len(runs) : runs'[n] = runs[n]
          /\ runs'[Len(runs) + 1] = NewRun(k, v)
      BY <1>1, <3>1, <3>2, AppendProperties
    <3>4. \A n \in 1..Len(runs') : n \notin 1..Len(runs) => n = Len(runs) + 1
      BY <1>1, <3>3
    <3>5. /\ Len(runs') \in Nat /\ Len(runs) <= Len(runs')
          /\ \A n \in 1..Len(runs) : /\ Executes(runs'[n]) <=> Executes(runs[n])
                                     /\ runs'[n].result = "success"
                                           <=> runs[n].result = "success"
      BY <1>1, <3>3
    <3>6. \A n \in 1..Len(runs') : n \notin 1..Len(runs) =>
             ~Executes(runs'[n]) /\ runs'[n].result # "success"
      BY <3>2, <3>3, <3>4
    <3>7. QED
      BY <1>3, <3>5, <3>6
  <2>4. QED
    BY <1>2, <2>1, <2>2, <2>3 DEF RunsMove
<1>5. Proven(runs)' <=> Proven(runs)
  BY <1>2, <1>4 DEF Proven
<1>6. Shown' = Shown
  BY <1>2 DEF Shown
<1>7. QED
  BY <1>4, <1>5, <1>6, Stutters

LEMMA RunsStartAndEnd ==
    ASSUME IInv, Order, NEW n \in 1..Len(runs),
           \/ Appear(n) \/ Authenticate(n) \/ Refuse(n)
           \/ \E result \in {"success", "failure", "lost", "cancelled"} : RunEnds(n, result)
    PROVE  [Gate!Next]_Gate!vars
<1> DEFINE executing == {m \in 1..Len(runs) : runs[m].state \in {"executing", "stopping"}}
           earned == plan = "none" \/ \E m \in 1..Len(runs) : runs[m].result = "success"
<1>1. PICK r \in Run :
        /\ RunBecomes(n, r)
        /\ \/ Executes(r) <=> Executes(runs[n])
           \/ ~Executes(runs[n]) /\ runs[n].state = "queued" /\ Live(n, checks, runs)
           \/ Executes(runs[n]) /\ ~Executes(r)
        /\ Executes(r) \/ ~Executes(runs[n]) =>
              (r.result = "success" <=> runs[n].result = "success")
  BY RunMoves
<1>2. /\ runs \in Seq(Run) /\ Len(runs) \in Nat /\ Len(runs) <= MaxRuns /\ MaxRuns \in Nat
      /\ \A m \in 1..Len(runs) : runs[m] \in Run
      /\ UNCHANGED <<plan, required>>
  BY <1>1, PrGateAssumption, LenProperties, ElementOfSeq DEF IInv, TypeOK, RunBecomes
<1>3. /\ Len(runs') = Len(runs) /\ n \in 1..MaxRuns
      /\ \A m \in 1..Len(runs) : runs'[m] = IF m = n THEN r ELSE runs[m]
  BY <1>1, <1>2, ExceptSeq DEF RunBecomes
<1>4. Shown' = Shown
  BY <1>2 DEF Shown
<1>5. ASSUME r.result = "success" <=> runs[n].result = "success"
      PROVE  Proven(runs)' <=> Proven(runs)
  BY <1>2, <1>3, <1>5 DEF Proven
<1>6. CASE /\ Executes(r) <=> Executes(runs[n])
           /\ r.result = "success" <=> runs[n].result = "success"
  <2>1. Credentialed(runs') = Credentialed(runs)
    BY <1>3, <1>6 DEF Credentialed
  <2>2. QED
    BY <1>4, <1>5, <1>6, <2>1, Stutters
<1>7. CASE /\ ~Executes(runs[n]) /\ Executes(r) /\ Live(n, checks, runs)
           /\ r.result = "success" <=> runs[n].result = "success"
  <2>1. \A m \in 1..Len(runs) : ~Executes(runs[m])
    <3>1. ASSUME NEW m \in 1..Len(runs), Executes(runs[m]) PROVE FALSE
      <4>1. Live(m, checks, runs)
        BY <3>1 DEF Live
      <4>2. checks[Len(checks)].run = m /\ checks[Len(checks)].run = n
        BY <1>7, <4>1 DEF Order, RunsOk
      <4>3. QED
        BY <1>7, <3>1, <4>2
    <3>2. QED
      BY <3>1
  <2>2. executing = {} /\ executing' = {n}
    <3>1. executing = {}
      BY <2>1 DEF Executes
    <3>2. executing' = {n}
      BY <1>3, <1>7, <2>1 DEF Executes
    <3>3. QED
      BY <3>1, <3>2
  <2>3. earned' = earned
    <3>1. Proven(runs)' <=> Proven(runs)
      BY <1>5, <1>7
    <3>2. QED
      BY <3>1, Zenon DEF Proven
  <2>4. Gate!Start(n)
    BY <1>4, <2>2, <2>3 DEF Gate!Start, Shown
  <2>5. QED
    BY <1>3, <2>4 DEF Gate!Next
<1>8. CASE Executes(runs[n]) /\ ~Executes(r)
  <2>1. n \in executing /\ executing' = executing \ {n}
    BY <1>3, <1>8 DEF Executes
  <2>2. earned' \in {earned, TRUE}
    <3>1. Proven(runs) => Proven(runs)'
      <4>1. runs[n].result # "success"
        BY <1>8 DEF IInv, EndedRuns, Executes
      <4>2. QED
        BY <1>2, <1>3, <4>1 DEF Proven
    <3>2. (earned => earned') /\ earned \in BOOLEAN /\ earned' \in BOOLEAN
      BY <3>1, Zenon DEF Proven
    <3> HIDE DEF earned
    <3>3. QED
      BY <3>2
  <2>3. Gate!End(n)
    BY <1>4, <2>1, <2>2 DEF Gate!End, Shown
  <2>4. QED
    BY <1>3, <2>3 DEF Gate!Next
<1>9. QED
  BY <1>1, <1>6, <1>7, <1>8

\* The required job shows a verdict once.
LEMMA RequiredShows ==
    ASSUME IInv, ReadVerdict \/ AcceptVerdict
    PROVE  [Gate!Next]_Gate!vars
<1>1. /\ UNCHANGED <<plan, runs>> /\ Shown = "waiting"
      /\ \/ required' \in {"read", "failed"}
         \/ required = "read" /\ required' = "passed"
  BY DEF ReadVerdict, AcceptVerdict, RequiredBecomes, Shown
<1>2. Proven(runs)' <=> Proven(runs)
  BY <1>1 DEF Proven
<1>3. CASE required' = "read"
  <2>1. Shown' = Shown
    BY <1>1, <1>3 DEF Shown
  <2>2. QED
    BY <1>1, <1>2, <2>1, Stutters
<1>4. CASE required' = "failed"
  <2>1. Gate!Fail
    BY <1>1, <1>4 DEF Gate!Fail, Shown
  <2>2. QED
    BY <2>1 DEF Gate!Next
<1>5. CASE required = "read" /\ required' = "passed"
  <2>1. Proven(runs)
    BY <1>5 DEF IInv, PassIsEarned
  <2>2. Gate!Pass
    BY <1>1, <1>5, <2>1 DEF Gate!Pass, Shown, Proven
  <2>3. QED
    BY <2>2 DEF Gate!Next
<1>6. QED
  BY <1>1, <1>3, <1>4, <1>5

\* Jobs, retries, adoptions and cancellations together give credentials to one run of the pull
\* request's code at a time, and the required job passes only when a run has succeeded or none
\* is needed: the gate implements ExactDiffGate.
THEOREM GateImplements == ASSUME ~Fork PROVE Spec => ImplementsGate
<1>1. Init => Gate!Init
  <2>1. ASSUME Init PROVE Len(runs) = 0 /\ required = "waiting"
    BY <2>1, EmptySeq DEF Init
  <2>2. QED
    BY <2>1 DEF Gate!Init
<1>2. ASSUME IInv, Order, [Next]_vars PROVE [Gate!Next]_Gate!vars
  <2>1. CASE UNCHANGED vars \/ Move
    <3>1. UNCHANGED <<plan, runs, required>>
      BY <2>1 DEF vars, Move
    <3>2. Proven(runs)' <=> Proven(runs)
      BY <3>1 DEF Proven
    <3>3. Credentialed(runs') = Credentialed(runs) /\ Shown' = Shown
      BY <3>1 DEF Shown
    <3>4. QED
      BY <3>2, <3>3, Stutters
  <2>2. ASSUME NEW j \in 1..MaxJobs,
               Begin(j) \/ Step(j) \/ ReadFails(j) \/ StepDies(j) \/ Vanish(j)
        PROVE  [Gate!Next]_Gate!vars
    <3>1. Shape(j)
      <4>1. CASE Begin(j)
        BY <1>2, <4>1, BeginsShape
      <4>2. CASE Step(j)
        BY <1>2, <4>2, StartsOk, EvaluatesOk, PostOk, RunStepsOk, FinishesOk, RetriesOk,
           CleansOk DEF Step
      <4>3. CASE ReadFails(j) \/ StepDies(j) \/ Vanish(j)
        BY <1>2, <4>3, FailuresOk
      <4>4. QED
        BY <2>2, <4>1, <4>2, <4>3
    <3>2. QED
      BY <1>2, <3>1, JobsStartNothing
  <2>3. CASE Environment
    BY <1>2, <2>1, <2>3, RunsStartAndEnd, RequiredShows DEF Environment
  <2>4. QED
    BY <1>2, <2>1, <2>2, <2>3 DEF Next
<1>3. QED
  BY <1>1, <1>2, GateInvariant, GateOrder, PTL DEF Spec, ImplementsGate, Gate!Spec

=============================================================================
