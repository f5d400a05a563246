SPECIFICATION Spec
CONSTANTS
    u = u
    v = v
    before = before
    after = after
    Workflow = {u, v}
    Inputs = {before, after}
    Checks <- CommandThenScope
    MaxAttempts = 2
    Silent = FALSE
SYMMETRY Alike
INVARIANTS
    HitIsGenuine
    AcceptedIsServed
    FailureNamesItsGate
CHECK_DEADLOCK FALSE
