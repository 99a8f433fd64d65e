SPECIFICATION Spec

CONSTANTS
    w1 = w1
    w2 = w2
    Workers <- OneDelivery
    Api = api
    Fallback = fallback
    Workflow = FALSE
    WithFallback = TRUE
    Stores = {"memory", "blob"}
    Faults = {"store"}
    Crashes = {"api"}
    Guarded = TRUE
    Delay = 1
    Takeover = 2
    PollWait = 2
    Stale = 3

INVARIANT CompletedMeansDone
PROPERTY KeepsContract
