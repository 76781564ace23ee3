\* One user against a worker and a revision: the locks an approval may wait for.
SPECIFICATION FairApprovalSpec
CONSTANTS
    a = a
    b = b
    p1 = p1
    i1 = i1
    NoPlan = NoPlan
    NoIncident = NoIncident
    Nobody = Nobody
    Plans = {p1}
    Incidents = {i1}
    LatestPlan <- MCLatestPlan
    Actions = {a}
    Contents <- MCShortContents
    Outcomes <- MCOneOutcome
    Executors = {api, worker}
    Revisers = {f1}
    Users = {u1}
    ApiExecutor = api
    MaxCalls = 2
    MaxRows = 2
    MaxRequests = 1
PROPERTY LoopIsGivenBack
\* The calls are bounded: when they are used up the model stops.
CHECK_DEADLOCK FALSE
