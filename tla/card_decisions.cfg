SPECIFICATION FairSpec
CONSTANTS
    Cards = {c1, c2}
    EmailCards = {c1, c2}
    Expiring = {c1}
    Callers = {k1, k2}
    PruneAt = 1
    KeepHistory = 1
    Budget <- Everything
    NoCard = NoCard
INVARIANTS SentOncePerRun TableIsEnough
PROPERTIES ImplementsOutbox CardsMoveOn
