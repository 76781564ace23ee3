-------------------------- MODULE CapabilityModels --------------------------
(***************************************************************************)
(* The result and verification statuses of a governed action, and the      *)
(* pairs of them the execution engine can return.  Shared by the engine    *)
(* (CapabilityEngine), which produces the pairs, and by the plan executor  *)
(* (PlanExecution), which records them and decides what they mean for the  *)
(* incident.                                                               *)
(***************************************************************************)

ActionResultStatus ==
    {"SUCCESS", "FAILED", "PRECONDITION_FAILED", "DRY_RUN_ONLY", "SKIPPED"}

VerificationStatus == {"PASSED", "FAILED", "INCONCLUSIVE", "SKIPPED"}

Outcome == [result : ActionResultStatus, verification : VerificationStatus]

\* Policy denied the action, or execute() raised or reported an error.
Unsuccessful == [result |-> "FAILED", verification |-> "SKIPPED"]

\* precondition_check() returned false or raised.
Refused == [result |-> "PRECONDITION_FAILED", verification |-> "SKIPPED"]

\* The capability only simulated its effect (cleanup_partial_write).
Rehearsed == [result |-> "DRY_RUN_ONLY", verification |-> "SKIPPED"]

\* execute() succeeded and verify() gave v, or raised (INCONCLUSIVE).
Executed(v) == [result |-> "SUCCESS", verification |-> v]

EngineOutcomes ==
    {Unsuccessful, Refused, Rehearsed}
        \cup {Executed(v) : v \in {"PASSED", "FAILED", "INCONCLUSIVE"}}

\* A capability may have acted on the outside world only if execute() ran for
\* real: it succeeded, or it failed and may have acted before it did.
ActsOutside(o) == o.result = "SUCCESS" \/ o = Unsuccessful
=============================================================================
