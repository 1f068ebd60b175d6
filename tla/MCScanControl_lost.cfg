SPECIFICATION Spec
CONSTANTS
    scan = scan
    watch = watch
    repair = repair
    clear = clear
    Server = server
    NoRun = NoRun
    Ops = {watch}
    Kind <- MCKind
    Many = 2
    MaxStops = 1
INVARIANT StopNeverLost
