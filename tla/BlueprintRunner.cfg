\* Two applies of blueprints that name the same sandbox and providers, one of
\* them with a runtime identity, and their rollbacks.
SPECIFICATION Spec
CONSTANTS
    r1 = r1
    r2 = r2
    Runs <- MCRuns
    WithIdentity <- MCWithIdentity
    None = None
    Outside = Outside
    MaxFaults = 2
    MaxRollbacks = 2
    MaxEvents = 3
CONSTRAINT FewEvents
INVARIANTS TypeOK OwnershipIsDurable FailureLeavesNothing RollbackIsComplete RoutedBeforeAttached
PROPERTIES RemovesOnlyWhatItMade SandboxBeforeProvider
\* The applies and the rollbacks end.
CHECK_DEADLOCK FALSE
