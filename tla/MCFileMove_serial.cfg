INIT FilesInit
NEXT FilesNext
CONSTANTS
    Names = {a, b, c, p, q}
    ParkNames = {p, q}
    Files = {f, g}
    None = None
    Torn = Torn
    Movers = {m1, m2}
    MaxAttempts = 2
    import1 = import1
    import2 = import2
    paper1 = paper1
    paper2 = paper2
    request1 = request1
    Folders <- MCFolders
    Above <- MCAbove
    InputDir = "raws"
    OutputRootDir = "archive"
    Spared = {"trash"}
    TrashDir = "trash"
    Papers = {paper1, paper2}
    Junk = {"Thumbs.db"}
    Requests = {request1}
    MaxMoves = 1
    MaxRefusals = 1
    Docs = {"d1", "d2"}
    Given <- MCGiven
    CodeNames = {"scan"}
    EndNames = {"copy"}
    BareNames = {"facture"}
    YearNames = {"2024"}
    InitialBranches <- MCBranches
    Classified <- MCClassified
    ByRules <- MCByRules
    Edits <- MCEdits
    Renames <- MCRenames
    Calendar <- MCCalendar
    MaxEdits = 2
    MaxStamps = 2
    Dropped = {"a_1.jpg"}
    Imports = {import1, import2}
    ImportName <- MCImportName
    Tries <- MCTries
    Splits = {"s1"}
    SplitStem <- MCSplitStem
    PageCount <- MCPageCount
    PageNames <- MCPageNames
    Merges = {"a.jpg", "b_page_1.pdf"}
    PdfName <- MCPdfName
SYMMETRY Symmetric
INVARIANTS
    SafeName
    DocumentsKept
PROPERTIES
    NeverLost
    NeverOverwritten
CHECK_DEADLOCK FALSE
