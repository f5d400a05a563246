SPECIFICATION FairSpec
CONSTANTS
    a = a
    b = b
    c = c
    d = d
    o = o
    Run = {a, c, o}
    Threaded = {a, c}
    Beating = {c}
    Isolated = {}
    Manifest <- Chain
    Deps <- ChainNeeds
    Sandbox <- Sandboxes
    Root <- Roots
    MaxWorkers = 2
    Cost <- Ones
    StopAfter = 2
    MaySignal = TRUE
INVARIANTS
    WriterWorksAlone
    RecordsAgree
PROPERTIES
    StatusNeverGoesBack
    BatchReturns
CHECK_DEADLOCK FALSE
