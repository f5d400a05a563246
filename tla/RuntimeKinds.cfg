SPECIFICATION FairSpec
CONSTANTS
    a = a
    b = b
    c = c
    d = d
    f = f
    g = g
    h = h
    k = k
    e1 = e1
    e2 = e2
    Task = {a, b, c, d, f, g, h, k}
    Static = {a, b, c, d, f, g}
    StaticDeps <- Kinds
    Node <- KindNodes
    Limit = 3
    MaxWorkers = 2
    MaxTerra = 1
    Fingerprint = {e1}
    NoFingerprint = NoFingerprint
    Outcomes = {"accepted", "rejected", "failed", "unfinished", "exhausted"}
    Request <- NoRequests
    UsageDeltas = {1}
    UsageBound = 1
    MaxSubmits = 1
    MaxCrashes = 0
INVARIANTS
    TerraBounded
    SameFailureStopsRetrying
    OneBranch
    RepeatEndsOnItsResult
PROPERTIES
    RunReturns
    ImplementsLedger
CHECK_DEADLOCK FALSE
