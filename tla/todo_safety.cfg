SPECIFICATION Spec
CONSTANTS
    Todos = {t1}
    Startable = {t1}
    Agents = {a1, a2, a3}
    Cards = {c1, c2}
    MaxConcurrency = 1
    MaxTickets = 2
    UserStatuses = {}
    Scenarios <- Calm
    NoAgent = NoAgent
    NoCard = NoCard
    NoTodo = NoTodo
SYMMETRY Symmetry
INVARIANTS PermitsConserved NoPermitOfTheDead WaitingIsServed
PROPERTIES ToolRunsOnlyIfApproved
