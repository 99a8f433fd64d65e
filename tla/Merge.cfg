SPECIFICATION Spec

CONSTANTS
    None = None
    n1 = n1
    n2 = n2
    p1 = p1
    p2 = p2
    p3 = p3
    c1 = c1
    c2 = c2
    m1 = m1
    m2 = m2
    Processes <- TwoProcesses
    Payments <- AllPayments
    CreditSet <- AllCredits
    PaymentsOf <- PaymentsOfBoth
    CreditsOf <- TwinCredits
    Bases <- AllBases
    BaseOf <- TwinBase
    Merges <- OneMerge
    Forces = {FALSE}
    Overlap = FALSE
    Faults = TRUE
    ControlFaults = TRUE
    Crashes = TRUE

INVARIANT TypeOK
INVARIANT ManifestHasFiles
INVARIANT NeverLeftConsolidating
PROPERTY OpenUntilMerged
