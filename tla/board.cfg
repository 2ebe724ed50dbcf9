SPECIFICATION BoardSpec
CONSTANTS
    Todos = {t1, t2}
    Docs = {d1}
    Edits <- MCEdits
    DocEdits <- MCDocEdits
    Capacity = 1
    MaxOps = 4
    MaxDrops = 1
    None = None
CHECK_DEADLOCK FALSE
INVARIANTS LostUpdateHasACause PhoneListHasACause
