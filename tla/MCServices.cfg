INIT ServicesInit
NEXT ServicesNext
CONSTANTS
 e1 = e1
 e2 = e2
 r1 = r1
 u1 = u1
 c1 = c1
 Runners = {r1}
 Unlockers = {u1}
 Clients = {c1}
 FrameBuffer = 2
 TotalFiles = 2
 MaxChanges = 4
 MaxJoins = 2
 Loggers = {e1, e2}
 Streams = {r1}
 LogNames = {"a"}
 MaxBytes = 1
 Retain = 2
 MaxBuffer = 2
 StreamBuffer = 1
 InitialLogs = 2
 MaxLines = 5
 MaxLogFaults = 1
 Instances = {e1, e2}
 MaxReuses = 1
 Browsers = {e1, e2}
 MaxSaves = 3
 MaxReloadsOfPages = 3
 Askers = {e1, e2}
 Models = {"m1", "m2"}
 CacheTTL = 1
 MaxHours = 2
 MaxOutages = 1
 MaxAsks = 2
 Singles = {"a"}
 Pages = {"p1", "p2"}
 MaxSuffix = 1
 MaxPhotos = 2
 MaxPdfs = 1
 MaxPhotoFaults = 2
 MaxPhotoScans = 2
 MaxChunks = 3
 MaxModelFaults = 2
 MaxDocuments = 1
 ChartTableMaxHeaderCells = 4
 HeadingSplitMaxGapLines = 3
 MdMalformedMinLines = 3
 MdRaggedMinRows = 3
 MdRaggedMinDataRows = 4
 MdHeaderlessMinBlocks = 2
 MaxWrites = 4
 FileNames <- MCNames
 Titles <- MCTitles
 Stopwords = {"facture"}
 Targets <- MCTargets
 OverlayRules <- MCOverlayRules
 Papers <- MCPapers
 MaxKeywordsPerDecision = 1
 MaxDecisionRules = 1
 MaxLessons = 2
 Shelf <- MCShelf
 Requests <- MCRequests
 Replies <- MCReplies
 Fillers = {"besoin"}
 MaxShelfChanges = 1
INVARIANTS
 PagesShowWhatIs LogKept StartsAlone AnswersSound
 PapersWhole RulesInOrder TablesRepaired
PROPERTIES AlignedStay
SYMMETRY Interchangeable
CHECK_DEADLOCK FALSE
