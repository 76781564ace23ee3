\* Two plans of one incident whose steps compile to the same action, so that
\* the runs meet on the idempotency key as well as on the row locks.
SPECIFICATION FairSpec
CONSTANTS
    a = a
    b = b
    p1 = p1
    i1 = i1
    NoPlan = NoPlan
    NoIncident = NoIncident
    Nobody = Nobody
    Plans = {p1, p2}
    Incidents = {i1}
    LatestPlan <- MCLatestPlan
    Actions = {a}
    Contents <- MCShortContents
    Outcomes <- MCOneOutcome
    Executors = {e1, e2}
    Revisers = {f1}
    MaxCalls = 2
    MaxRows = 2
PROPERTIES EveryCallReturns EveryRevisionReturns
\* The calls are bounded: when they are used up the model stops.
CHECK_DEADLOCK FALSE
