SPECIFICATION FairSpec
CONSTANTS
    a = a
    b = b
    c = c
    d = d
    f = f
    g = g
    h = h
    k = k
    e1 = e1
    e2 = e2
    Task = {a, b}
    Static = {a, b}
    StaticDeps <- Pair
    Node <- GateNodes
    Limit = 4
    MaxWorkers = 2
    MaxTerra = 1
    Fingerprint = {e1, e2}
    NoFingerprint = NoFingerprint
    Outcomes = {"accepted", "rejected", "failed"}
    Request <- Controls
    UsageDeltas = {}
    UsageBound = 0
    MaxSubmits = 1
    MaxCrashes = 0
INVARIANTS
    OneWorkerPerTask
    NothingLeftBehind
    VerdictIsFinal
PROPERTIES
    StartsOnlyWhileRunning
    CancelHonoured
CHECK_DEADLOCK FALSE
