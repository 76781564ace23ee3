--------------------------- MODULE MCPlanExecution ---------------------------
(***************************************************************************)
(* PlanExecution on a small instance: the feedback endpoint revises plan   *)
(* p1, the newest of incident i1; another incident has no plan, but its id *)
(* may be in the URL.                                                      *)
(***************************************************************************)
EXTENDS PlanExecution, TLC

CONSTANTS a, b, p1, i1

MCLatestPlan == [i \in Incidents |-> IF i = i1 THEN p1 ELSE NoPlan]

\* A plan without steps, which nothing refuses, one of one step and one of two.
MCContents == {<<>>, <<a>>, <<a, b>>}

\* Without the plan of two steps.
MCShortContents == {<<>>, <<a>>}

\* A success, a failed verification and a refused action.
MCOutcomes == {Executed("PASSED"), Executed("FAILED"), Refused}

MCGoodAndBad == {Executed("PASSED"), Executed("FAILED")}

MCOneOutcome == {Executed("PASSED")}

ThreadSymmetry == Permutations(Executors) \cup Permutations(Revisers)
=============================================================================
