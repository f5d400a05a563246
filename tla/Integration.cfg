SPECIFICATION Spec
CONSTANTS
    a = a
    b = b
    c = c
    outsider = outsider
    Writer = {a, b, c}
    Outsider = outsider
    Id <- Ids
    MaxHead = 2
    MaxPlans = 2
INVARIANTS
    PlannedIffOrderable
    AppliedInOrder
PROPERTIES
    StalePlanChangesNothing
CHECK_DEADLOCK FALSE
