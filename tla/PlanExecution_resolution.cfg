\* One call on one plan; the engine may refuse or fail an action.
SPECIFICATION Spec
CONSTANTS
    a = a
    b = b
    p1 = p1
    i1 = i1
    NoPlan = NoPlan
    NoIncident = NoIncident
    Nobody = Nobody
    Plans = {p1}
    Incidents = {i1}
    LatestPlan <- MCLatestPlan
    Actions = {a, b}
    Contents <- MCContents
    Outcomes <- MCOutcomes
    Executors = {e1}
    Revisers = {}
    MaxCalls = 1
    MaxRows = 1
PROPERTY ResolvedOnlyIfVerified
CHECK_DEADLOCK FALSE
