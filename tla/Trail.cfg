SPECIFICATION Spec
CONSTANTS
    None = None
    Nowhere = Nowhere
    f1 = f1
    f2 = f2
    cl = cl
    e1 = e1
    e2 = e2
    e3 = e3
    e4 = e4
    Client = cl
    Extracts = {e1, e2, e3, e4}
    Folders <- MCFolders
    About <- MCAbout
    Tables <- MCTables
    NameChoices <- MCNameChoices
    TreeChoices <- MCTreeChoices
    Rows <- MCRows
    MaxMoves = 1
    Tolerance = 1
    BankDay = 12
    Window = 2
    Numbered = {3, 264}
    MaxFiled = 2
    Uses = {"trail", "report"}
    Rules = {"v2", "legacy"}
INVARIANTS
    TypeOK
    NothingOverlooked
    ReviewedIsNewest
    RouteIsReviewed
    FiledIsAccepted
    SuccessIsWhole
    SentIsMerged
    TableOfLine
    ReportIsBest
    MailedIsValidated
CHECK_DEADLOCK FALSE
