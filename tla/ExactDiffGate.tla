---------------------------- MODULE ExactDiffGate ----------------------------
(***************************************************************************)
(* What the PR E2E gate promises for one exact diff (head and base SHA),   *)
(* without checks, jobs or retries: credentials are given to one run of    *)
(* the pull request's code at a time, and the required check passes only   *)
(* when such a run has succeeded or the diff needs none.                   *)
(***************************************************************************)
CONSTANT Runs

VARIABLES executing,  \* the runs that execute the pull request's code
          earned,     \* a run succeeded, or the risk plan selects none
          required    \* "E2E / PR Gate", the check branch protection waits for

vars == <<executing, earned, required>>

Init ==
    /\ executing = {}
    /\ earned \in BOOLEAN
    /\ required = "waiting"

Start(r) ==
    /\ executing = {}
    /\ executing' = {r}
    /\ UNCHANGED <<earned, required>>

End(r) ==
    /\ r \in executing
    /\ executing' = executing \ {r}
    /\ earned' \in {earned, TRUE}
    /\ UNCHANGED required

Pass ==
    /\ required = "waiting"
    /\ earned
    /\ required' = "passed"
    /\ UNCHANGED <<executing, earned>>

Fail ==
    /\ required = "waiting"
    /\ required' = "failed"
    /\ UNCHANGED <<executing, earned>>

Next == (\E r \in Runs : Start(r) \/ End(r)) \/ Pass \/ Fail

Spec == Init /\ [][Next]_vars
=============================================================================
