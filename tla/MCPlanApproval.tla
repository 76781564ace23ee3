---------------------------- MODULE MCPlanApproval ----------------------------
(***************************************************************************)
(* PlanApproval with one plan, the API's event loop and one worker thread. *)
(***************************************************************************)
EXTENDS PlanApproval, MCPlanExecution

\* No step, or one of two: a revision can change what is done.
MCOtherContents == {<<>>, <<a>>, <<b>>}

\* One step or another, for the shortest trace to be about.
MCOneStepContents == {<<a>>, <<b>>}

UserSymmetry == Permutations(Users)
=============================================================================
