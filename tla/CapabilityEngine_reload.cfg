\* The same two processes: the reload reaches only one of them.
SPECIFICATION Spec
CONSTANTS
    rerun = rerun
    cleanup = cleanup
    manual = manual
    api = api
    worker = worker
    t1 = t1
    t2 = t2
    Capabilities = {rerun, cleanup, manual}
    ManualStep = manual
    Intents <- MCIntents
    IntentCapability <- MCIntentCapability
    CodeDefault <- MCCodeDefault
    Preconditions <- MCPreconditions
    Executions <- MCExecutions
    Verifications <- MCVerifications
    Overrides <- MCOverrides
    Unset = Unset
    Processes = {api, worker}
    Api = api
    Threads = {t1, t2}
    ProcessOf <- MCProcessOf
    NotLoaded = NotLoaded
    MaxEdits = 2
    MaxCalls = 2
INVARIANT EveryProcessObeysReload
