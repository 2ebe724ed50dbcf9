SPECIFICATION FairSpec
CONSTANTS
    Todos = {t1}
    Startable = {t1}
    Agents = {a1, a2}
    Cards = {c1}
    MaxConcurrency = 1
    MaxTickets = 1
    UserStatuses = {}
    Scenarios <- Faults
    NoAgent = NoAgent
    NoCard = NoCard
    NoTodo = NoTodo
PROPERTIES QueuedIsDispatched WorkingMovesOn TakenEntryIsAnswered
