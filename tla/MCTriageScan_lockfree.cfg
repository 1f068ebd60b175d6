SPECIFICATION Spec
CONSTANTS
    copy1 = copy1
    copy2 = copy2
    other = other
    Files = {copy1, copy2}
    Content <- MCContent
    Scanners = {server, mcp}
    LockFree = {mcp}
    NoScanner = NoScanner
    NoFile = NoFile
    MaxFaults = 2
INVARIANTS
    
    ArchivedOnce
    MovedRowHasFile
    ParkedIsKnown
