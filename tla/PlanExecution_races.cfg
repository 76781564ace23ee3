\* One plan, two executors (a Temporal attempt and the API, or two attempts) with
\* a call each or two in a row, under its incident or another, and two concurrent
\* revisions, with steps or without.
SPECIFICATION Spec
CONSTANTS
    a = a
    b = b
    p1 = p1
    i1 = i1
    NoPlan = NoPlan
    NoIncident = NoIncident
    Nobody = Nobody
    Plans = {p1}
    Incidents = {i1, i2}
    LatestPlan <- MCLatestPlan
    Actions = {a, b}
    Contents <- MCContents
    Outcomes <- MCGoodAndBad
    Executors = {e1, e2}
    Revisers = {f1, f2}
    MaxCalls = 2
    MaxRows = 2
SYMMETRY ThreadSymmetry
INVARIANTS TypeOK AtMostOnce AllOrNothing RowsMatchRecords RecordsAudited Inductive
PROPERTIES FailureIsFinal NoReplacementUnderRun ImplementsAtomicPlan
\* The calls are bounded: when they are used up the model stops.
CHECK_DEADLOCK FALSE
