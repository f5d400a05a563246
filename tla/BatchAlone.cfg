SPECIFICATION Spec
CONSTANTS
    a = a
    b = b
    c = c
    d = d
    o = o
    Run = {a, b, c, d}
    Threaded = {a, b, c, d}
    Beating = {}
    Isolated = {b}
    Manifest <- Parallel
    Deps <- ParallelNeeds
    Sandbox <- Sandboxes
    Root <- Roots
    MaxWorkers = 2
    Cost <- Ones
    StopAfter = 2
    MaySignal = TRUE
INVARIANTS
    NothingOutlivesTheBatch
    StallIsExplained
PROPERTIES
    ImplementsAcceptance
CHECK_DEADLOCK FALSE
