SPECIFICATION Spec
CONSTANTS
    a = a
    b = b
    c = c
    d = d
    f = f
    g = g
    h = h
    k = k
    e1 = e1
    e2 = e2
    Task = {a, b, c, d}
    Static = {a, b, c, d}
    StaticDeps <- Chain
    Node <- AllPlain
    Limit = 4
    MaxWorkers = 2
    MaxTerra = 1
    Fingerprint = {e1, e2}
    NoFingerprint = NoFingerprint
    Outcomes = {"accepted", "rejected", "failed", "exhausted"}
    Request <- NoRequests
    UsageDeltas = {}
    UsageBound = 0
    MaxSubmits = 1
    MaxCrashes = 0
INVARIANTS
    DependentsAreBlocked
CHECK_DEADLOCK FALSE
