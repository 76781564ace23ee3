\* One incident and three calls of the API: one opens it, the others close, reopen,
\* re-triage it or post findings while its attempts fail, time out and come late.
SPECIFICATION FairSpec
CONSTANTS
    None = None
    Incidents = {i1}
    Requests = {r1, r2, r3}
    MaximumAttempts = 3
    MaxStray = 1
INVARIANTS TypeOK WaitingHasPlan NobodyIsForgotten OnePlanPerAttempt
PROPERTIES ReopenedWithReason InvestigationEnds
\* The calls are bounded: when they are used up the model stops.
CHECK_DEADLOCK FALSE
