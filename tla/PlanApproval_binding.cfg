\* The same: a revision falls between the check and the execution.
SPECIFICATION ApprovalSpec
CONSTANTS
    a = a
    b = b
    p1 = p1
    i1 = i1
    NoPlan = NoPlan
    NoIncident = NoIncident
    Nobody = Nobody
    Plans = {p1}
    Incidents = {i1}
    LatestPlan <- MCLatestPlan
    Actions = {a, b}
    Contents <- MCOneStepContents
    Outcomes <- MCOneOutcome
    Executors = {api, worker}
    Revisers = {f1}
    Users = {u1, u2}
    ApiExecutor = api
    MaxCalls = 2
    MaxRows = 2
    MaxRequests = 2
SYMMETRY UserSymmetry
INVARIANT ExecutedAsApproved
\* The calls are bounded: when they are used up the model stops.
CHECK_DEADLOCK FALSE
