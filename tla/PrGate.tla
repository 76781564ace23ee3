------------------------------- MODULE PrGate -------------------------------
(***************************************************************************)
(* The E2E gate of one exact diff of a pull request: the jobs of the       *)
(* pr-e2e-gate workflow, which coordinate through check runs on GitHub,    *)
(* the child runs they dispatch, which execute the pull request's code     *)
(* only while their check authorises them, and the required job that waits *)
(* for the verdict.  Every step of a job is one call to GitHub: between    *)
(* two of them other jobs, the child runs and the pull request go on.      *)
(***************************************************************************)
EXTENDS Naturals, Sequences, FiniteSets

CONSTANTS Fork,       \* is the head branch in another repository?
          MaxChecks,  \* bounds: checks of the diff, child runs, jobs,
          MaxRuns,
          MaxJobs,
          MaxMoves,   \* pushes, closings and reopenings of the pull request,
          MaxFaults   \* calls that fail or steps that die

ASSUME PrGateAssumption ==
    /\ Fork \in BOOLEAN
    /\ {MaxChecks, MaxRuns, MaxJobs, MaxMoves, MaxFaults} \subseteq Nat

VARIABLES
    live,      \* is the pull request open, with this head and base?
    plan,      \* the E2E runs the diff's risk plan selects, and whether they need a reviewer
    checks,    \* the diff's coordination checks, oldest first
    runs,      \* the child runs dispatched for it
    jobs,      \* the jobs of the workflow
    required,  \* the job "E2E / PR Gate" of the current head
    moves, faults

vars == <<live, plan, checks, runs, jobs, required, moves, faults>>

Plans == {"none", "plain", "guarded"}

ActivePhases == {"reserved", "evaluating", "awaiting", "authorized", "preparing", "running"}

Conclusions == {"none", "success", "failure", "cancelled"}

Reasons == {"none", "prerequisite-ci", "child-cancelled", "evidence-download",
            "dispatch-not-observed"}

\* The phase is the title of an active check; run is the child run in details_url, lost the
\* one a dispatch-not-observed receipt is about (0: none, or the dispatch never arrived).
Check == [phase : ActivePhases \cup {"closed"}, conclusion : Conclusions, retry : Reasons,
          run : Nat, lost : Nat]

Reserved == [phase |-> "reserved", conclusion |-> "none", retry |-> "none", run |-> 0,
             lost |-> 0]

\* A run that is not visible runs, but the list of workflow runs does not show it yet.
Run == [check : Nat, visible : BOOLEAN,
        state : {"queued", "executing", "stopping", "done"},
        result : {"none", "success", "failure", "cancelled", "lost"}]

Kinds == {"seed", "coordinate", "approve", "cancel"}

Phases == {"idle", "done", "vanished",
           "live", "ensure", "create", "mark", "evaluate", "conclude",
           "approve", "authorize", "restore",
           "recheck", "post", "reconcile", "adopt", "publish", "revoke", "cancel_child",
           "wait", "finish", "confirm", "close",
           "retry", "reserve", "acquire", "prepare", "revalidate",
           "fail", "unretry", "cleanup", "abandon",
           "cancel_runs", "cancel_checks"}

\* ci: did CI pass?  open: the checks in step outputs that no finalized output follows;
\* seen, was: the check the start step found, as it was then; run: the child run in the step
\* output, lost: one that may have been dispatched; conclusion, retry: the verdict;
\* auth: runner_loss_retry_authorized; source: the check that is retried.
Job == [kind : Kinds, pc : Phases, ci : BOOLEAN, open : SUBSET Nat, seen : Nat, was : Check,
        check : Nat, run : Nat, lost : Nat, conclusion : Conclusions, retry : Reasons,
        auth : BOOLEAN, source : Nat, targets : SUBSET Nat]

Idle == [kind |-> "seed", pc |-> "idle", ci |-> FALSE, open |-> {}, seen |-> 0,
         was |-> Reserved, check |-> 0, run |-> 0, lost |-> 0, conclusion |-> "none",
         retry |-> "none", auth |-> FALSE, source |-> 0, targets |-> {}]

-----------------------------------------------------------------------------
(* Check runs                                                              *)

Active(c) == c.phase # "closed"

\* A completed failure that carries the marker of a retryable reason.
Retryable(c) == ~Active(c) /\ c.conclusion = "failure" /\ c.retry # "none"

\* currentExactDiffCheck throws unless every check but the last one is a retryable failure.
HistoryOk == \A k \in 1..Len(checks) - 1 : Retryable(checks[k])

RunnerLosses(before) == {k \in 1..before - 1 : checks[k].retry = "child-cancelled"}

\* No run with the receipt's correlation is listed.
StillUnobserved(c) == c.lost = 0 \/ ~runs[c.lost].visible

Started(c, phase) ==
    [c EXCEPT !.phase = phase, !.conclusion = "none", !.retry = "none", !.lost = 0]

Closed(c, conclusion, retry, run, lost) ==
    [c EXCEPT !.phase = "closed", !.conclusion = conclusion, !.retry = retry,
              !.run = IF run = 0 THEN @ ELSE run, !.lost = lost]

-----------------------------------------------------------------------------
(* Jobs: a step of job j leaves it as the record r                         *)

Fault == faults < MaxFaults /\ faults' = faults + 1

At(j, pc) == jobs[j].pc = pc

\* What a job knew is gone with it.
Goes(j, pc) ==
    IF pc \in {"done", "vanished"} THEN [Idle EXCEPT !.pc = pc] ELSE [jobs[j] EXCEPT !.pc = pc]

Becomes(j, r) == jobs' = [jobs EXCEPT ![j] = r]

\* A step that only reads.
Reads(j, r) == Becomes(j, r) /\ UNCHANGED <<live, plan, checks, runs, required, moves, faults>>

\* PATCH of check k.  When the call fails it may have been carried out all the same.
Patches(j, k, c, good, bad) ==
    /\ \/ /\ checks' = [checks EXCEPT ![k] = c]
          /\ Becomes(j, good)
          /\ UNCHANGED faults
       \/ /\ Fault
          /\ checks' \in {checks, [checks EXCEPT ![k] = c]}
          /\ Becomes(j, bad)
    /\ UNCHANGED <<live, plan, runs, required, moves>>

\* POST of a check; a later one has a greater id.
Creates(j, good, bad) ==
    /\ Len(checks) < MaxChecks
    /\ \/ /\ checks' = Append(checks, Reserved)
          /\ Becomes(j, good)
          /\ UNCHANGED faults
       \/ /\ Fault
          /\ checks' \in {checks, Append(checks, Reserved)}
          /\ Becomes(j, bad)
    /\ UNCHANGED <<live, plan, runs, required, moves>>

Final(r) == [r EXCEPT !.open = @ \ {r.check}, !.conclusion = "none", !.retry = "none"]

\* Mutation of Stopped: the conclusion is written into the status.
StoppedInStatus(r) == IF r.state = "done" THEN r ELSE [r EXCEPT !.state = "cancelled"]

\* An active run is asked to stop; a finished one answers 409, which is ignored.
Stopped(r) ==
    CASE r.state = "queued" -> [r EXCEPT !.state = "done", !.result = "cancelled"]
      [] r.state = "executing" -> [r EXCEPT !.state = "stopping"]
      [] OTHER -> r

Stop(rs) == [k \in 1..Len(runs) |-> IF k \in rs THEN Stopped(runs[k]) ELSE runs[k]]

Working(j) == jobs[j].pc \notin {"idle", "done", "vanished"}

\* The concurrency groups.  A fork's workflow_run event names no pull request, so that the
\* coordinate job's group then lacks the number and the base SHA.
Group(kind) == IF kind = "coordinate" /\ Fork THEN "unbound" ELSE "exact diff"

CanBegin(j, kind) ==
    /\ At(j, "idle")
    /\ \A i \in 1..j - 1 : ~At(i, "idle")
    /\ kind # "cancel" =>
          \A i \in 1..MaxJobs : Working(i) /\ jobs[i].kind # "cancel" =>
             Group(jobs[i].kind) # Group(kind)

Begun(kind, pc) == [Idle EXCEPT !.kind = kind, !.pc = pc]

-----------------------------------------------------------------------------
(* seed: reserves a check when the pull request is opened or changed       *)

\* Any job may read GitHub's answer and stop there.
BeginSeed(j) ==
    /\ CanBegin(j, "seed")
    /\ Reads(j, Begun("seed", "live"))

SeedLive(j) ==
    /\ At(j, "live") /\ jobs[j].kind = "seed"
    /\ Reads(j, Goes(j, IF live THEN "ensure" ELSE "done"))

-----------------------------------------------------------------------------
(* coordinate: starts when CI has ended                                    *)

\* The start step first reads the check there is; with an unreadable history it ends there.
BeginCoordinate(j, ci) ==
    /\ CanBegin(j, "coordinate")
    /\ LET n == Len(checks)
           found == [Begun("coordinate", "live") EXCEPT
                        !.ci = ci, !.seen = n, !.was = IF n = 0 THEN Reserved ELSE checks[n]]
       IN  Reads(j, IF HistoryOk THEN found ELSE Goes(j, "done"))

\* assertCheckCanStart, and the receipt of a dispatch that was not observed.
CanStart(r) ==
    \/ r.seen = 0
    \/ r.was.phase = "reserved"
    \/ r.ci /\ Retryable(r.was) /\ StillUnobserved(r.was)

CoordinateLive(j) ==
    /\ At(j, "live") /\ jobs[j].kind = "coordinate"
    /\ LET r == jobs[j] IN
       IF ~live /\ r.seen # 0 /\ r.was.phase = "reserved"
       THEN Patches(j, r.seen, Closed(checks[r.seen], "cancelled", "none", 0, 0),
                    Goes(j, "done"), [r EXCEPT !.open = {r.seen}, !.pc = "cleanup"])
       ELSE Reads(j, IF live /\ CanStart(r)
                     THEN [r EXCEPT !.open = IF r.seen # 0 /\ Active(r.was) THEN {r.seen}
                                                                            ELSE {},
                                    !.seen = 0, !.was = Reserved, !.pc = "ensure"]
                     ELSE Goes(j, "done"))

\* The check a job goes on with; seed ends there.
Takes(j, k) ==
    IF jobs[j].kind = "seed" THEN Goes(j, "done")
    ELSE [jobs[j] EXCEPT !.check = k, !.open = {k}, !.pc = "mark"]

\* Mutation of Ensure: a check that is at work is not taken over but replaced.
EnsureAnew(j) ==
    /\ At(j, "ensure")
    /\ Reads(j, IF ~HistoryOk THEN Goes(j, "cleanup") ELSE Goes(j, "create"))

\* ensurePrGateCheck lists the checks again and keeps the current one unless CI passed and it
\* is a retryable failure ...
Ensure(j) ==
    /\ At(j, "ensure")
    /\ LET n == Len(checks) IN
       Reads(j, IF ~HistoryOk THEN Goes(j, "cleanup")
                ELSE IF n > 0 /\ ~(jobs[j].ci /\ Retryable(checks[n])) THEN Takes(j, n)
                ELSE Goes(j, "create"))

\* ... otherwise it creates one.
Create(j) ==
    /\ At(j, "create")
    /\ Creates(j, Takes(j, Len(checks) + 1), Goes(j, "cleanup"))

\* markCheckInProgress does not ask what the check is by now.
Mark(j) ==
    /\ At(j, "mark")
    /\ LET k == jobs[j].check IN
       Patches(j, k, Started(checks[k], "evaluating"), Goes(j, "evaluate"), Goes(j, "cleanup"))

\* CI failed: a new CI run may start again.  CI passed: the risk plan is made from the files
\* of the pull request, which must not have changed meanwhile.
Evaluate(j) ==
    /\ At(j, "evaluate")
    /\ LET k == jobs[j].check IN
       IF ~jobs[j].ci
       THEN Patches(j, k, Closed(checks[k], "failure", "prerequisite-ci", 0, 0),
                    Final(Goes(j, "done")), Goes(j, "fail"))
       ELSE Reads(j, Goes(j, IF ~live THEN "fail"
                             ELSE IF plan = "plain" THEN "recheck" ELSE "conclude"))

\* Nothing to run, or a reviewer has to approve what would run.
Conclude(j) ==
    /\ At(j, "conclude")
    /\ LET k == jobs[j].check IN
       Patches(j, k, IF plan = "none" THEN Closed(checks[k], "success", "none", 0, 0)
                     ELSE Started(checks[k], "awaiting"),
               Final(Goes(j, "done")), Goes(j, "fail"))

-----------------------------------------------------------------------------
(* approve: starts when a reviewer has approved                            *)

BeginApprove(j) ==
    /\ CanBegin(j, "approve")
    /\ plan = "guarded"
    /\ LET n == Len(checks)
           ok == live /\ HistoryOk /\ n > 0 /\ checks[n].phase = "awaiting"
       IN  Reads(j, IF ok THEN [Begun("approve", "approve") EXCEPT !.check = n, !.open = {n}]
                    ELSE Goes(j, "done"))

Approve(j) ==
    /\ At(j, "approve")
    /\ Reads(j, Goes(j, IF live THEN "authorize" ELSE "restore"))

Authorize(j) ==
    /\ At(j, "authorize")
    /\ LET k == jobs[j].check IN
       Patches(j, k, Started(checks[k], "authorized"), Goes(j, "recheck"), Goes(j, "restore"))

\* After an error before anything was dispatched the reviewer may approve again.
Restore(j) ==
    /\ At(j, "restore")
    /\ LET k == jobs[j].check IN
       Patches(j, k, Started(checks[k], "awaiting"), Final(Goes(j, "done")), Goes(j, "cleanup"))

-----------------------------------------------------------------------------
(* dispatchPrGate, for coordinate, approve and the retry                   *)

Retrying(r) == r.source # 0

OnError(r) == IF r.kind = "approve" /\ ~Retrying(r) THEN "restore" ELSE "fail"

\* The check as the controller left it before it dispatches.
PreDispatch(r) ==
    LET c == checks[r.check] IN
    /\ HistoryOk /\ Len(checks) = r.check
    /\ c.phase = IF Retrying(r) THEN "preparing"
                 ELSE IF r.kind = "approve" THEN "authorized" ELSE "evaluating"
    /\ c.run = 0

Receipts(r) == {k \in 1..r.check - 1 : checks[k].retry = "dispatch-not-observed"}

Recheck(j) ==
    /\ At(j, "recheck")
    /\ LET r == jobs[j] IN
       Reads(j, Goes(j, IF ~PreDispatch(r) THEN OnError(r)
                        ELSE IF \E k \in Receipts(r) : ~StillUnobserved(checks[k]) THEN "fail"
                        ELSE "post"))

NewRun(k, visible) ==
    [check |-> k, visible |-> visible, state |-> "queued", result |-> "none"]

\* The dispatch is answered with the run, or refused, or the answer is lost: then the run
\* exists, listed or not yet, or it does not.
Post(j) ==
    /\ At(j, "post")
    /\ Len(runs) < MaxRuns
    /\ LET r == jobs[j]
           n == Len(runs) + 1
       IN \/ /\ runs' = Append(runs, NewRun(r.check, TRUE))
             /\ Becomes(j, [r EXCEPT !.run = n, !.pc = "publish"])
             /\ UNCHANGED faults
          \/ /\ Fault
             /\ Becomes(j, Goes(j, OnError(r)))
             /\ UNCHANGED runs
          \/ /\ Fault
             /\ \/ /\ Becomes(j, [r EXCEPT !.lost = 0, !.pc = "reconcile"])
                   /\ UNCHANGED runs
                \/ \E visible \in BOOLEAN :
                      /\ runs' = Append(runs, NewRun(r.check, visible))
                      /\ Becomes(j, [r EXCEPT !.lost = n, !.pc = "reconcile"])
    /\ UNCHANGED <<live, plan, checks, required, moves>>

\* reconcileWorkflowDispatch: a run found by its correlation is adopted; when none is listed
\* until the deadline the check is closed with a receipt, so that it can be retried.
Reconcile(j) ==
    /\ At(j, "reconcile")
    /\ LET r == jobs[j] IN
       Reads(j, IF r.lost # 0 /\ runs[r.lost].visible THEN Goes(j, "adopt")
                ELSE [r EXCEPT !.retry = "dispatch-not-observed", !.pc = "fail"])

\* A run that is adopted so late must still be wanted.
Adopt(j) ==
    /\ At(j, "adopt")
    /\ LET r == jobs[j] IN
       Reads(j, [r EXCEPT !.run = r.lost, !.lost = 0,
                          !.pc = IF live /\ PreDispatch(r) THEN "publish"
                                 ELSE "cancel_child"])

\* updateRunningCheck: what authorises the child run.  An unconfirmed publication is revoked.
Publish(j) ==
    /\ At(j, "publish")
    /\ LET r == jobs[j] IN
       Patches(j, r.check, [Started(checks[r.check], "running") EXCEPT !.run = r.run],
               Goes(j, "wait"), Goes(j, "revoke"))

\* Mutation of Revoke: the job goes on after it has revoked.
RevokeAndWait(j) ==
    /\ At(j, "revoke")
    /\ LET r == jobs[j] IN
       Patches(j, r.check, Closed(checks[r.check], "failure", "none", r.run, 0),
               Goes(j, "wait"), Goes(j, "cancel_child"))

Revoke(j) ==
    /\ At(j, "revoke")
    /\ LET r == jobs[j] IN
       Patches(j, r.check, Closed(checks[r.check], "failure", "none", r.run, 0),
               Goes(j, "cancel_child"), Goes(j, "cancel_child"))

CancelChild(j) ==
    /\ At(j, "cancel_child")
    /\ Becomes(j, Goes(j, "fail"))
    /\ runs' = Stop({jobs[j].run})
    /\ UNCHANGED <<live, plan, checks, required, moves, faults>>

-----------------------------------------------------------------------------
(* finishPrGate: the verdict                                               *)

\* Until the child run has ended, or for the time the job waits.
Wait(j) ==
    /\ At(j, "wait")
    /\ Reads(j, Goes(j, "finish"))

\* Mutation of Verdict: good evidence is enough, whatever the run's conclusion.
VerdictOfEvidence(r, evidence) ==
    IF evidence = "good" THEN [r EXCEPT !.conclusion = "success", !.pc = "confirm"]
    ELSE [r EXCEPT !.conclusion = "failure", !.pc = "confirm"]

\* Mutation of Verdict: the diff's earlier checks are not asked for a lost runner.
VerdictOfRun(r, evidence) ==
    LET result == runs[r.run].result IN
    [r EXCEPT !.conclusion = IF result = "success" THEN "success" ELSE "failure",
              !.retry = IF result = "lost" THEN "child-cancelled" ELSE "none",
              !.pc = "confirm"]

\* The child run's result and its evidence make the verdict; evidence "missing" also stands
\* for job details that cannot be read.  Only a diff that lost no runner before is retried.
Verdict(r, evidence) ==
    LET result == runs[r.run].result
        first == RunnerLosses(r.check) = {}
    IN  CASE result = "success" /\ evidence = "good" ->
               [r EXCEPT !.conclusion = "success", !.pc = "confirm"]
          [] result = "success" /\ evidence = "missing" ->
               [r EXCEPT !.retry = IF first THEN "evidence-download" ELSE "none", !.pc = "fail"]
          [] result = "lost" /\ evidence # "missing" /\ first ->
               [r EXCEPT !.conclusion = "failure", !.retry = "child-cancelled",
                         !.pc = "confirm"]
          [] OTHER -> [r EXCEPT !.conclusion = "failure", !.pc = "confirm"]

\* A child run that has not ended is asked to stop.
Finish(j) ==
    /\ At(j, "finish")
    /\ LET r == jobs[j] IN
       /\ runs' = Stop({r.run})
       /\ \E evidence \in {"good", "bad", "missing"} :
             Becomes(j, IF ~HistoryOk \/ Len(checks) # r.check
                           \/ Cardinality(RunnerLosses(r.check)) > 1
                        THEN Goes(j, "fail")
                        ELSE IF ~live
                        THEN [r EXCEPT !.conclusion = "cancelled", !.pc = "close"]
                        ELSE Verdict(r, evidence))
    /\ UNCHANGED <<live, plan, checks, required, moves, faults>>

\* The pull request is looked at once more; then the retry is authorised.
Confirm(j) ==
    /\ At(j, "confirm")
    /\ LET r == jobs[j] IN
       Reads(j, IF live
                THEN [r EXCEPT !.auth = r.retry = "child-cancelled", !.pc = "close"]
                ELSE [r EXCEPT !.conclusion = "cancelled", !.retry = "none", !.pc = "close"])

AfterFinish(r) == IF r.auth /\ ~Retrying(r) THEN "retry" ELSE "cleanup"

CloseCheck(j) ==
    /\ At(j, "close")
    /\ LET r == jobs[j] IN
       Patches(j, r.check, Closed(checks[r.check], r.conclusion, r.retry, r.run, 0),
               Final(Goes(j, AfterFinish(r))), [r EXCEPT !.retry = "none", !.pc = "fail"])

\* The run that a failed check is linked to; 0 leaves the link as it is.  A retry that
\* dispatched nothing is linked to the run that lost its runner; a coordinate job that could
\* not start its run names none, and one that started it linked it when it published it.
FailedRun(r) ==
    IF Retrying(r)
    THEN IF r.run = 0 /\ r.retry # "dispatch-not-observed" THEN checks[r.source].run ELSE r.run
    ELSE IF r.kind = "coordinate" THEN 0 ELSE r.run

\* completeFailureAfterControllerError, also for a dispatch that was not observed.
FailCheck(j) ==
    /\ At(j, "fail")
    /\ LET r == jobs[j] IN
       Patches(j, r.check,
               Closed(checks[r.check], "failure", r.retry, FailedRun(r),
                      IF r.retry = "dispatch-not-observed" THEN r.lost ELSE 0),
               Final(Goes(j, AfterFinish(r))), Goes(j, AfterFinish(r)))

-----------------------------------------------------------------------------
(* retryRunnerLossPrGate: one retry on a new check                         *)

\* The check k stands for the lost runner of the child run.
LossOf(k, run) ==
    /\ Retryable(checks[k])
    /\ checks[k].retry = "child-cancelled"
    /\ checks[k].run = run

Retry(j) ==
    /\ At(j, "retry")
    /\ LET r == jobs[j] IN
       Reads(j, Goes(j, IF /\ HistoryOk /\ Len(checks) = r.check
                           /\ LossOf(r.check, r.run) /\ RunnerLosses(r.check) = {}
                        THEN "reserve" ELSE "unretry"))

Reserve(j) ==
    /\ At(j, "reserve")
    /\ LET r == jobs[j]
           n == Len(checks) + 1
       IN  Creates(j, [r EXCEPT !.source = r.check, !.check = n, !.open = @ \cup {n},
                                !.run = 0, !.conclusion = "none", !.retry = "none",
                                !.pc = "acquire"],
                   Goes(j, "unretry"))

\* The new check must be the current one, the next after its source.
Acquired(r) == HistoryOk /\ Len(checks) = r.check /\ r.check = r.source + 1

Acquire(j) ==
    /\ At(j, "acquire")
    /\ Reads(j, Goes(j, IF Acquired(jobs[j]) THEN "prepare" ELSE "fail"))

Prepare(j) ==
    /\ At(j, "prepare")
    /\ LET k == jobs[j].check IN
       Patches(j, k, Started(checks[k], "preparing"), Goes(j, "revalidate"), Goes(j, "fail"))

\* The lost runner, the pull request and the history, all looked at again.
Revalidate(j) ==
    /\ At(j, "revalidate")
    /\ LET r == jobs[j]
           run == checks[r.source].run
       IN  Reads(j, Goes(j, IF /\ Acquired(r) /\ live
                               /\ LossOf(r.source, run) /\ runs[run].result = "lost"
                               /\ Cardinality(RunnerLosses(r.check)) = 1
                            THEN "recheck" ELSE "fail"))

\* Mutation of Unretry: a replacement whose creation was not answered is forgotten.
UnretrySource(j) ==
    /\ At(j, "unretry")
    /\ LET r == jobs[j] IN
       IF HistoryOk /\ LossOf(r.check, r.run) /\ Len(checks) = r.check
       THEN Patches(j, r.check, Closed(checks[r.check], "failure", "none", r.run, 0),
                    Goes(j, "cleanup"), Goes(j, "cleanup"))
       ELSE Reads(j, Goes(j, "cleanup"))

\* abandonRunnerLossRetrySource, when no new check became the job's: the source loses its
\* marker, or the check that replaced it unknown to the job is closed.
Unretry(j) ==
    /\ At(j, "unretry")
    /\ LET r == jobs[j]
           n == Len(checks)
           closed(k) == Closed(checks[k], "failure", "none", r.run, 0)
       IN  IF HistoryOk /\ LossOf(r.check, r.run)
              /\ \/ n = r.check
                 \/ n = r.check + 1 /\ checks[n].phase = "reserved" /\ checks[n].run = 0
           THEN Patches(j, n, closed(n), Goes(j, "cleanup"), Goes(j, "cleanup"))
           ELSE Reads(j, Goes(j, "cleanup"))

-----------------------------------------------------------------------------
(* abandonPrGate: the last steps of a job                                  *)

\* Mutation of Cleanup: a check whose child run is not known is not closed.
CleanupOfChild(j) ==
    /\ At(j, "cleanup")
    /\ LET r == jobs[j]
       IN  IF r.open = {} \/ r.run = 0 THEN Reads(j, Goes(j, "done"))
           ELSE /\ \E k \in r.open :
                      /\ \A m \in r.open : m <= k
                      /\ Becomes(j, [r EXCEPT !.check = k, !.pc = "abandon"])
                /\ runs' = Stop({r.run})
                /\ UNCHANGED <<live, plan, checks, required, moves, faults>>

\* The newest check that is not finalized; unless it is completed its child run is stopped ...
Cleanup(j) ==
    /\ At(j, "cleanup")
    /\ LET r == jobs[j] IN
       IF r.open = {} THEN Reads(j, Goes(j, "done"))
       ELSE \E k \in r.open :
              /\ \A m \in r.open : m <= k
              /\ IF ~Active(checks[k]) THEN Reads(j, [r EXCEPT !.open = @ \ {k}])
                 ELSE /\ Becomes(j, [r EXCEPT !.check = k, !.pc = "abandon"])
                      /\ runs' = Stop({r.run})
                      /\ UNCHANGED <<live, plan, checks, required, moves, faults>>

\* ... and it is closed.
Abandon(j) ==
    /\ At(j, "abandon")
    /\ LET r == jobs[j] IN
       Patches(j, r.check, Closed(checks[r.check], "failure", "none", 0, 0),
               Final(Goes(j, "cleanup")), Final(Goes(j, "cleanup")))

-----------------------------------------------------------------------------
(* cancel: when the pull request gets a new head, and at its other events  *)

\* Only a push names the superseded head, whose active checks are then listed.
BeginCancel(j) ==
    /\ CanBegin(j, "cancel")
    /\ LET listed == IF ~live THEN {k \in 1..Len(checks) : Active(checks[k])} ELSE {}
       IN  \E targets \in {{}, listed} :
             Reads(j, [Begun("cancel", "cancel_runs") EXCEPT !.targets = targets])

\* All the active runs of the pull request.
CancelRuns(j) ==
    /\ At(j, "cancel_runs")
    /\ Becomes(j, Goes(j, "cancel_checks"))
    /\ runs' = Stop({k \in 1..Len(runs) : runs[k].visible})
    /\ UNCHANGED <<live, plan, checks, required, moves, faults>>

\* The checks as they were listed; nobody asks what they are by now.
CancelChecks(j) ==
    /\ At(j, "cancel_checks")
    /\ LET r == jobs[j] IN
       IF r.targets = {} THEN Reads(j, Goes(j, "done"))
       ELSE \E k \in r.targets :
              /\ \A m \in r.targets : k <= m
              /\ Patches(j, k, Closed(checks[k], "cancelled", "none", 0, 0),
                         [r EXCEPT !.targets = @ \ {k}], Goes(j, "done"))

-----------------------------------------------------------------------------
(* Failures                                                                *)

\* A step whose reads fail.
ReadFails(j) ==
    /\ Fault
    /\ LET r == jobs[j] IN
       \/ /\ r.pc \in {"live", "ensure", "cancel_runs"}
          /\ Becomes(j, Goes(j, IF r.kind = "coordinate" THEN "cleanup" ELSE "done"))
          /\ UNCHANGED runs
       \/ /\ r.pc \in {"evaluate", "finish", "confirm", "acquire", "revalidate"}
          /\ Becomes(j, [r EXCEPT !.retry = "none", !.pc = "fail"])
          /\ UNCHANGED runs
       \/ /\ r.pc \in {"approve", "recheck"}
          /\ Becomes(j, Goes(j, OnError(r)))
          /\ UNCHANGED runs
       \/ /\ r.pc = "recheck" /\ Receipts(r) # {}   \* the inventory of runs
          /\ Becomes(j, Goes(j, "fail"))
          /\ UNCHANGED runs
       \/ /\ r.pc = "adopt"
          /\ Becomes(j, [r EXCEPT !.run = r.lost, !.lost = 0, !.pc = "cancel_child"])
          /\ UNCHANGED runs
       \/ /\ r.pc = "reconcile"   \* candidates seen before are cancelled
          /\ Becomes(j, Goes(j, "fail"))
          /\ runs' \in {runs, Stop({k \in {r.lost} \ {0} : runs[k].visible})}
       \/ /\ r.pc = "cancel_child"
          /\ Becomes(j, Goes(j, "fail"))
          /\ UNCHANGED runs
       \/ /\ r.pc = "retry"
          /\ Becomes(j, Goes(j, "unretry"))
          /\ UNCHANGED runs
    /\ UNCHANGED <<live, plan, checks, required, moves>>

\* A step that is killed or runs out of time: the job goes on with those marked always().
StepDies(j) ==
    /\ Fault
    /\ Working(j) /\ ~At(j, "wait")
    /\ LET r == jobs[j] IN
       Becomes(j, CASE r.kind \in {"seed", "cancel"} -> Goes(j, "done")
                    [] r.pc \in {"retry", "reserve"} -> Goes(j, "unretry")
                    [] r.pc \in {"close", "fail"} -> Goes(j, AfterFinish(r))
                    [] r.pc = "abandon" -> Final(Goes(j, "cleanup"))
                    [] OTHER -> Goes(j, "cleanup"))
    /\ UNCHANGED <<live, plan, checks, runs, required, moves>>

\* A job whose own runner is lost: no step follows.
Vanish(j) ==
    /\ Fault
    /\ Working(j)
    /\ Becomes(j, Goes(j, "vanished"))
    /\ UNCHANGED <<live, plan, checks, runs, required, moves>>

-----------------------------------------------------------------------------
(* GitHub, the child runs and the required job                             *)

\* A push, a change of the base, a closing or reopening.
Move ==
    /\ moves < MaxMoves
    /\ moves' = moves + 1
    /\ live' = ~live
    /\ UNCHANGED <<plan, checks, runs, jobs, required, faults>>

RunBecomes(n, r) ==
    /\ runs' = [runs EXCEPT ![n] = r]
    /\ UNCHANGED <<live, plan, checks, jobs, required, moves, faults>>

\* The list of workflow runs shows the run at last.
Appear(n) ==
    /\ ~runs[n].visible
    /\ RunBecomes(n, [runs[n] EXCEPT !.visible = TRUE])

\* Mutation of Authenticate: the run trusts the inputs it was dispatched with.
AuthenticateByInputs(n) ==
    /\ runs[n].state = "queued"
    /\ RunBecomes(n, [runs[n] EXCEPT !.state = "executing"])

\* The run's first job checks out the pull request only if its check names this very run ...
Authenticate(n) ==
    /\ runs[n].state = "queued"
    /\ LET c == checks[runs[n].check] IN c.phase = "running" /\ c.run = n
    /\ RunBecomes(n, [runs[n] EXCEPT !.state = "executing"])

\* ... and gives up when it has not done so after 45 reads.
Refuse(n) ==
    /\ runs[n].state = "queued"
    /\ RunBecomes(n, [runs[n] EXCEPT !.state = "done", !.result = "failure"])

RunEnds(n, result) ==
    /\ \/ runs[n].state = "executing" /\ result \in {"success", "failure", "lost"}
       \/ runs[n].state = "stopping" /\ result \in {"success", "failure", "cancelled"}
    /\ RunBecomes(n, [runs[n] EXCEPT !.state = "done", !.result = result])

RequiredBecomes(outcome) ==
    /\ required' = outcome
    /\ UNCHANGED <<live, plan, checks, runs, jobs, moves, faults>>

\* waitForRequiredGate takes the verdict of the current check; retryable failures do not count.
ReadVerdict ==
    /\ required = "waiting"
    /\ LET n == Len(checks) IN
       \/ ~HistoryOk /\ RequiredBecomes("failed")
       \/ /\ HistoryOk /\ n > 0
          /\ ~Active(checks[n]) /\ ~Retryable(checks[n])
          /\ RequiredBecomes(IF checks[n].conclusion = "success" THEN "read" ELSE "failed")

\* The pull request must still show the diff.
AcceptVerdict ==
    /\ required = "read"
    /\ RequiredBecomes(IF live THEN "passed" ELSE "failed")

-----------------------------------------------------------------------------

Init ==
    /\ live = TRUE
    /\ plan \in IF Fork THEN {"none", "guarded"} ELSE Plans
    /\ checks = <<>>
    /\ runs = <<>>
    /\ jobs = [j \in 1..MaxJobs |-> Idle]
    /\ required = "waiting"
    /\ moves = 0 /\ faults = 0

Begin(j) ==
    \/ BeginSeed(j) \/ BeginApprove(j) \/ BeginCancel(j)
    \/ \E ci \in BOOLEAN : BeginCoordinate(j, ci)

\* What a working job does next.
Step(j) ==
    \/ SeedLive(j) \/ CoordinateLive(j) \/ Ensure(j) \/ Create(j) \/ Mark(j)
    \/ Evaluate(j) \/ Conclude(j) \/ Approve(j) \/ Authorize(j) \/ Restore(j)
    \/ Recheck(j) \/ Post(j) \/ Reconcile(j) \/ Adopt(j) \/ Publish(j) \/ Revoke(j)
    \/ CancelChild(j) \/ Wait(j) \/ Finish(j) \/ Confirm(j) \/ CloseCheck(j) \/ FailCheck(j)
    \/ Retry(j) \/ Reserve(j) \/ Acquire(j) \/ Prepare(j) \/ Revalidate(j) \/ Unretry(j)
    \/ Cleanup(j) \/ Abandon(j) \/ CancelRuns(j) \/ CancelChecks(j)

Environment ==
    \/ Move
    \/ \E n \in 1..Len(runs) :
          \/ Appear(n) \/ Authenticate(n) \/ Refuse(n)
          \/ \E result \in {"success", "failure", "lost", "cancelled"} : RunEnds(n, result)
    \/ ReadVerdict \/ AcceptVerdict

Next ==
    \/ \E j \in 1..MaxJobs : Begin(j) \/ Step(j) \/ ReadFails(j) \/ StepDies(j) \/ Vanish(j)
    \/ Environment

Spec == Init /\ [][Next]_vars

\* As long as a job can go on, one does.
FairSpec == Spec /\ WF_vars(\E j \in 1..MaxJobs : Step(j))

-----------------------------------------------------------------------------
(* Properties                                                              *)

\* Type invariant: the shapes of GitHub's and the jobs' state, and the bounds.
TypeOK ==
    /\ live \in BOOLEAN /\ plan \in Plans
    /\ checks \in Seq(Check) /\ Len(checks) <= MaxChecks
    /\ runs \in Seq(Run) /\ Len(runs) <= MaxRuns
    /\ jobs \in [1..MaxJobs -> Job]
    /\ required \in {"waiting", "read", "passed", "failed"}
    /\ moves \in 0..MaxMoves /\ faults \in 0..MaxFaults

\* A diff never has two active checks, and an older one is a retryable failure, or one that a
\* cancellation closed late: otherwise currentExactDiffCheck throws in every job to come.
\* Between the list and the POST of ensurePrGateCheck only the concurrency group stands.
OneCurrentCheck ==
    \A k \in 1..Len(checks) - 1 :
       Retryable(checks[k]) \/ (~Active(checks[k]) /\ checks[k].conclusion = "cancelled")

\* A check says success only for the run it links to, which was dispatched for this very
\* check and has succeeded, whatever failed, was retried or was adopted before.
SuccessIsEarned ==
    \A k \in 1..Len(checks) :
       ~Active(checks[k]) /\ checks[k].conclusion = "success" =>
          \/ plan = "none"
          \/ \E n \in 1..Len(runs) :
                n = checks[k].run /\ runs[n].check = k /\ runs[n].result = "success"

\* A diff's lost runners are retried once, over all its jobs and checks.
OneRunnerLossRetry ==
    Cardinality({k \in 1..Len(checks) : checks[k].retry = "child-cancelled"}) <= 1

Undisturbed == faults <= 1 /\ \A j \in 1..MaxJobs : ~At(j, "vanished")

InTransit(k) ==
    k <= Len(checks) /\ checks[k].phase \in {"evaluating", "authorized", "preparing", "running"}

\* When all jobs have ended, one failure included, no check is left that looks at work, and no
\* runner-loss retry is left authorised or reserved (test/e2e/README.md: "This prevents a
\* retryable or active check from remaining").
RetryLeavesNothing ==
    Undisturbed /\ (\A j \in 1..MaxJobs : ~Working(j)) /\ checks # <<>> /\ HistoryOk =>
       LET n == Len(checks) IN
       /\ ~InTransit(n)
       /\ checks[n].retry # "child-cancelled"
       /\ n > 1 /\ checks[n].phase = "reserved" => checks[n - 1].retry # "child-cancelled"

\* A check that failed for good, for instance because its child's authorisation was revoked,
\* is neither opened again nor turned into a success by a job that still holds it.
FailureIsFinal ==
    [][\A k \in 1..Len(checks) :
          ~Active(checks[k]) /\ checks[k].conclusion = "failure" /\ ~Retryable(checks[k]) =>
             ~Active(checks'[k]) /\ checks'[k].conclusion # "success"]_vars

\* Whatever one failure interrupts, no check stays at work for ever: the native job and the
\* next coordination would wait for it, or refuse to start, until the pull request changes.
ChecksSettle == []<>(Undisturbed => \A k \in 1..MaxChecks : ~InTransit(k))

\* What the gate promises, read off its state: a run that was asked to stop still executes.
Gate == INSTANCE ExactDiffGate WITH
    Runs <- 1..MaxRuns,
    executing <- {n \in 1..Len(runs) : runs[n].state \in {"executing", "stopping"}},
    earned <- plan = "none" \/ \E n \in 1..Len(runs) : runs[n].result = "success",
    required <- IF required = "read" THEN "waiting" ELSE required

\* The jobs, retries and adoptions together give credentials to one run at a time and pass
\* the required job only on a success: the gate implements ExactDiffGate.
ImplementsGate == Gate!Spec
=============================================================================
