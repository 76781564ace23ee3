\* A fork's pull request: the coordinate job is not in the group of the others.
SPECIFICATION Spec
CONSTANTS
    Fork = TRUE
    MaxChecks = 2
    MaxRuns = 2
    MaxJobs = 2
    MaxMoves = 1
    MaxFaults = 0
INVARIANT OneCurrentCheck
CHECK_DEADLOCK FALSE
