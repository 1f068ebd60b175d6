SPECIFICATION FairSpec
CONSTANTS
    scan = scan
    watch = watch
    repair = repair
    clear = clear
    Server = server
    NoRun = NoRun
    Ops = {scan, watch, repair, clear}
    Kind <- MCKind
    Many = 1
    MaxStops = 1
INVARIANTS
    TypeOK
    OnePipeline
    NothingLeaks
    TaskDescribesRun
    StopsAtFileBoundary
PROPERTIES
    StopEndsRun
