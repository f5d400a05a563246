SPECIFICATION Spec
CONSTANTS
    a = a
    b = b
    c = c
    d = d
    f = f
    g = g
    h = h
    k = k
    e1 = e1
    e2 = e2
    Task = {a, b, c, d}
    Static = {a, b, d}
    StaticDeps <- FanOut
    Node <- FanOutNodes
    Limit = 4
    MaxWorkers = 2
    MaxTerra = 1
    Fingerprint = {e1, e2}
    NoFingerprint = NoFingerprint
    Outcomes = {"accepted", "rejected"}
    Request <- NoRequests
    UsageDeltas = {}
    UsageBound = 0
    MaxSubmits = 1
    MaxCrashes = 1
INVARIANTS
    RunningIsWatched
    ReduceSeesEveryChild
PROPERTIES
    ImplementsLedger
CHECK_DEADLOCK FALSE
