----------------------------- MODULE AtomicPlan -----------------------------
(***************************************************************************)
(* What the recovery-plan store promises its readers, without transactions *)
(* or locks: the steps of a plan may be replaced until it has been         *)
(* executed; it is executed as a whole, at most once under one incident    *)
(* and one version, and what is recorded belongs to the steps it shows.    *)
(***************************************************************************)
EXTENDS Naturals, Sequences, CapabilityModels

CONSTANTS Plans, Incidents, Contents, Outcomes

VARIABLES versions, rows, executions

Unexecuted(p) == \A x \in executions : x.plan # p

Fresh(gen, actions) ==
    [gen |-> gen, actions |-> actions, status |-> [k \in 1..Len(actions) |-> "PENDING"]]

\* Feedback replaces the steps of a plan that has not been executed.
Replace(p) ==
    /\ Unexecuted(p)
    /\ \E actions \in Contents :
          rows' = [rows EXCEPT ![p] = Fresh(@.gen + 1, actions)]
    /\ versions' = [versions EXCEPT ![p] = @ + 1]
    /\ UNCHANGED executions

\* Feedback that proposes no steps, after other feedback has replaced those it
\* was about, raises the version over the new ones.
PassOver(p) ==
    /\ <<>> \in Contents
    /\ rows[p].actions # <<>>
    /\ versions' = [versions EXCEPT ![p] = @ + 1]
    /\ UNCHANGED <<rows, executions>>

\* All the steps run under incident i and a version v they have had, each with an
\* outcome, and all of it is recorded.
Run(p, i, v) ==
    /\ \A x \in executions : ~(x.plan = p /\ x.incident = i /\ x.version = v)
    /\ \E outcomes \in [1..Len(rows[p].actions) -> Outcomes] :
          /\ rows' = [rows EXCEPT ![p].status =
                [k \in 1..Len(rows[p].actions) |->
                    IF outcomes[k] = Executed("PASSED") THEN "SUCCEEDED" ELSE "FAILED"]]
          /\ executions' = executions \cup
                {[plan |-> p, incident |-> i, gen |-> rows[p].gen, seq |-> k, version |-> v,
                  action |-> rows[p].actions[k], outcome |-> outcomes[k]] :
                    k \in 1..Len(rows[p].actions)}
    /\ UNCHANGED versions

Init ==
    /\ \E actions \in [Plans -> Contents] : rows = [p \in Plans |-> Fresh(1, actions[p])]
    /\ versions = [p \in Plans |-> 1]
    /\ executions = {}

Execute(p) == \E i \in Incidents, v \in rows[p].gen..versions[p] : Run(p, i, v)

Next == \E p \in Plans : Replace(p) \/ PassOver(p) \/ Execute(p)

Spec == Init /\ [][Next]_<<versions, rows, executions>>
=============================================================================
