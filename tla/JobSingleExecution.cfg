SPECIFICATION Spec

CONSTANTS
    w1 = w1
    w2 = w2
    Workers <- OneDelivery
    Api = api
    Fallback = fallback
    Workflow = TRUE
    WithFallback = TRUE
    Stores = {"blob"}
    Faults = {}
    Crashes = {}
    Guarded = TRUE
    Delay = 1
    Takeover = 2
    PollWait = 2
    Stale = 3

INVARIANT SingleExecution
