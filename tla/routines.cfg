SPECIFICATION FairSpec
CONSTANTS
    Routines = {r1, r2}
    Tasks = {t1, t2}
    Callers = {k1, k2}
    Period <- EveryInstant
    Cooldown = 1
    MaxRuns = 1
    MaxGlobal = 1
    MaxTime = 1
    Cycle = 1
    Scenarios <- MixedUse
    None = None
INVARIANTS EngineFollowsTable
PROPERTIES DueIsServed
