------------------------- MODULE MCCapabilityEngine -------------------------
(***************************************************************************)
(* CapabilityEngine with three of the registry's capabilities: the rerun   *)
(* of the ingest job, the cleanup (always rehearsed) and the manual step.  *)
(***************************************************************************)
EXTENDS CapabilityEngine

CONSTANTS rerun, cleanup, manual, api, worker, t1, t2

MCIntentCapability ==
    [i \in {"RERUN_INGEST_JOB", "CLEANUP_PARTIAL_WRITE"} |->
        IF i = "RERUN_INGEST_JOB" THEN rerun ELSE cleanup]

MCIntents == {"RERUN_INGEST_JOB", "CLEANUP_PARTIAL_WRITE", "MANUAL"}

MCCodeDefault ==
    [c \in {rerun, cleanup, manual} |->
        [risk |-> IF c = manual THEN "LOW" ELSE "MEDIUM",
         autonomy |-> "HUMAN_APPROVAL_REQUIRED"]]

MCPreconditions == [c \in {rerun, cleanup, manual} |-> IF c = cleanup THEN BOOLEAN ELSE {TRUE}]

MCExecutions ==
    [c \in {rerun, cleanup, manual} |->
        CASE c = rerun -> {"done", "error"}
          [] c = cleanup -> {"dry_run", "error"}
          [] c = manual -> {"done"}]

MCVerifications ==
    [c \in {rerun, cleanup, manual} |->
        IF c = rerun THEN {"PASSED", "FAILED", "INCONCLUSIVE"} ELSE {"INCONCLUSIVE"}]

\* An entry that prohibits, one that permits and one that says nothing.
MCOverrides == {[risk |-> "MEDIUM", autonomy |-> "PROHIBITED"],
                [risk |-> "LOW", autonomy |-> Unset],
                NoOverride}

MCProcessOf == [t \in {t1, t2} |-> IF t = t1 THEN api ELSE worker]
=============================================================================
