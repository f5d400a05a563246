SPECIFICATION Spec
CONSTANTS
    p = p
    q = q
    r = r
    Scheduler = {p}
    Reader = {q, r}
    MaxEvents = 4
    MaxCrashes = 2
    MaxTorn = 1
INVARIANTS
    CutLineIsSurvived
    HolderIsCurrent
PROPERTIES
    JournalIsALog
CHECK_DEADLOCK FALSE
