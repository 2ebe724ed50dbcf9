SPECIFICATION ToolsSpec
CONSTANTS
    chat = chat
    todo = todo
    Callers <- MCCallers
    Chat = chat
    Files <- MCFiles
    Seeds <- MCSeeds
    Protected <- MCProtected
    Calls <- MCCalls
    MaxCalls = 3
    MaxCrashes = 1
    MaxReadSize = 2
    Pipe = 2
    OuterLimit = 2
    DefaultLimit = 4
    None = None
CHECK_DEADLOCK FALSE
INVARIANTS FilesHaveACause ReportsHaveACause
