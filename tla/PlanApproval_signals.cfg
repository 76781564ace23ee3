\* Two users, one plan that may be revised once, two calls of execute_plan.
SPECIFICATION ApprovalSpec
CONSTANTS
    a = a
    b = b
    p1 = p1
    i1 = i1
    NoPlan = NoPlan
    NoIncident = NoIncident
    Nobody = Nobody
    Plans = {p1}
    Incidents = {i1}
    LatestPlan <- MCLatestPlan
    Actions = {a, b}
    Contents <- MCOtherContents
    Outcomes <- MCOneOutcome
    Executors = {api, worker}
    Revisers = {f1}
    Users = {u1, u2}
    ApiExecutor = api
    MaxCalls = 2
    MaxRows = 2
    MaxRequests = 2
SYMMETRY UserSymmetry
INVARIANTS ApprovalTypeOK ApprovedAsAWhole ExecutionIsApproved
\* The calls are bounded: when they are used up the model stops.
CHECK_DEADLOCK FALSE
