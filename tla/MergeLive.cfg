SPECIFICATION FairSpec

CONSTANTS
    None = None
    n1 = n1
    n2 = n2
    p1 = p1
    p2 = p2
    p3 = p3
    c1 = c1
    c2 = c2
    m1 = m1
    m2 = m2
    Processes <- OneProcess
    Payments <- AllPayments
    CreditSet <- AllCredits
    PaymentsOf <- PaymentsOfOne
    CreditsOf <- Credits
    Bases <- AllBases
    BaseOf <- OwnBase
    Merges <- TwoMerges
    Forces = {TRUE, FALSE}
    Overlap = TRUE
    Faults = FALSE
    ControlFaults = FALSE
    Crashes = FALSE

INVARIANT ConsolidatedHasFiles
PROPERTY EventuallyClosed
