SPECIFICATION Spec

CONSTANTS
    None = None
    e1 = e1
    e2 = e2
    t1 = t1
    v1 = v1
    v2 = v2
    a1 = a1
    a2 = a2
    Events <- BothEvents
    Tables <- OneTable
    TableOf <- TableMap
    Rows = {1, 2}
    Due <- DueRow
    Prints <- TwoPrints
    Content <- Contents
    Checked <- ReadBack
    Manifests <- PartialThenAll
    Runs <- TwoRuns
    Fillings <- Typed
    MaxEdits = 1
    Faults = TRUE
    Crashes = TRUE

SYMMETRY EitherRun
INVARIANT TypeOK
INVARIANT PostedOnce
INVARIANT ReportedIsStored
PROPERTY EntriesStay
