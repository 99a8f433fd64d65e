SPECIFICATION Spec

CONSTANTS
    g1 = g1
    f1 = f1
    d1 = d1
    Requests <- TwoRequests
    Generate <- OneGenerate
    Duplicates <- OneDuplicate
    Of <- OfFirst
    Admin = admin
    Backends = {"memory", "blob"}
    Ttl = 3
    LegacyTtl = 5
    StartDelay = 1
    MaxRun = 3
    InitialLocks <- Leftovers

INVARIANT TypeOK
INVARIANT MutualExclusion
INVARIANT NoOrphanLock
INVARIANT NoSpuriousConflict
