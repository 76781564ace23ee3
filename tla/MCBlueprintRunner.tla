-------------------------- MODULE MCBlueprintRunner ---------------------------
(***************************************************************************)
(* The instance of BlueprintRunner that TLC checks.                        *)
(***************************************************************************)
EXTENDS BlueprintRunner

CONSTANTS r1, r2,
          MaxEvents   \* how many failures and rollbacks together

MCRuns == {r1, r2}
MCWithIdentity == {r1}

\* Two failures and a rollback, or a failure and two rollbacks, of either run.
FewEvents == faults + rollbacks <= MaxEvents
=============================================================================
