SPECIFICATION Spec
CONSTANTS
    p = p
    q = q
    r = r
    Scheduler = {p, q}
    Reader = {r}
    MaxEvents = 4
    MaxCrashes = 1
    MaxTorn = 1
PROPERTIES
    LoadIsExact
CHECK_DEADLOCK FALSE
