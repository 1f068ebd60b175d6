SPECIFICATION FairSpec
CONSTANTS
    copy1 = copy1
    copy2 = copy2
    other = other
    Files = {copy1, copy2, other}
    Content <- MCContent
    Scanners = {server, cli}
    LockFree = {}
    NoScanner = NoScanner
    NoFile = NoFile
    MaxFaults = 2
INVARIANTS
    ParkedHasTwinUnlessFault
    NoStrandedRowUnlessFault
PROPERTY LeavesRaws
