SPECIFICATION Spec
CONSTANTS
    a = a
    b = b
    c = c
    d = d
    f = f
    g = g
    h = h
    k = k
    e1 = e1
    e2 = e2
    Task = {a, b}
    Static = {a, b}
    StaticDeps <- NoDeps
    Node <- RestartNodes
    Limit = 4
    MaxWorkers = 2
    MaxTerra = 1
    Fingerprint = {e1, e2}
    NoFingerprint = NoFingerprint
    Outcomes = {"accepted", "rejected", "failed", "exhausted"}
    Request <- Retries
    UsageDeltas = {}
    UsageBound = 0
    MaxSubmits = 1
    MaxCrashes = 2
INVARIANTS
    AppendsAccepted
    LiveWorkerKeepsItsTask
PROPERTIES
    ImplementsLedger
CHECK_DEADLOCK FALSE
