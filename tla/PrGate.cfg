\* Three jobs, a change of the diff and back, and one failed call or step.
SPECIFICATION FairSpec
CONSTANTS
    Fork = FALSE
    MaxChecks = 3
    MaxRuns = 3
    MaxJobs = 3
    MaxMoves = 2
    MaxFaults = 1
INVARIANTS
    TypeOK
    OneCurrentCheck
    SuccessIsEarned
    OneRunnerLossRetry
    RetryLeavesNothing
PROPERTIES
    FailureIsFinal
    ChecksSettle
    ImplementsGate
\* Jobs, moves and failures are bounded: when they are used up the model stops.
CHECK_DEADLOCK FALSE
