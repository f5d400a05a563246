SPECIFICATION Spec
CONSTANTS
    a = a
    b = b
    Task = {a, b}
    Static = {a}
    Limit = 5
    StaticDeps <- NoDeps
    Reserve <- ReserveTwo
    MaxAttempts <- UpToTwo
    UsageDeltas = {1}
    UsageBound = 2
INVARIANTS
    GatedByAcceptance
    SucceededIsSettled
    BudgetCoversTasks
PROPERTIES
    SettledForGood
    ImplementsAcceptance
CHECK_DEADLOCK FALSE
