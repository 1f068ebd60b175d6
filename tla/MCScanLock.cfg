SPECIFICATION RFairSpec
CONSTANTS
    NoRun = NoRun
    NoFile = NoFile
    Blank = Blank
    Procs = {p1, p2}
    Threads = {t1, t2}
    MaxFaults = 3
INVARIANTS
    
    OneRunPerProcess
    HeldMeansRunning
    ExclusiveUnlessRaced
    FileNamesRunnerUnlessRaced
    RemovesOwnFileUnlessRaced
PROPERTIES
    LockNeverStuck
    ImplementsMutex
