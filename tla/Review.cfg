SPECIFICATION Spec
CONSTANTS
    None = None
    Issue = Issue
    Blank = Blank
    b1 = b1
    b2 = b2
    b3 = b3
    c1 = c1
    c2 = c2
    c3 = c3
    other = other
    BankRows = {b1, b2, b3}
    Credits = {c1, c2, c3}
    Generates = {g1, g2}
    Finalizes = {f1, f2}
    Amount <- MCAmount
    BankDate <- MCBankDate
    Lines <- MCLines
    Findings <- MCFindings
    Readings <- MCReadings
    Sheets <- MCSheets
    Prepared <- MCPrepared
    Elsewhere <- MCElsewhere
SYMMETRY MCSymmetry
INVARIANTS
    TypeOK
    AccountedFor
    KeyedOnce
    FollowedUp
    PublishedIsUsable
    SupportMatches
    ReplacementReported
    FailsForCause
PROPERTIES
    FollowUpsStay
CHECK_DEADLOCK FALSE
