SPECIFICATION ChannelsSpec
CONSTANTS
    Users = {"friend", "stranger"}
    Posts <- MCPosts
    Identities <- MCIdentities
    Allowed = {"1", "bob"}
    MaxUpdates = 2
    MaxChats = 2
    MaxLines = 1
    MaxChunks = 2
    MaxStatus = 1
    Capacity = 1
    MaxStops = 1
    MaxFaults = 1
    None = None
CHECK_DEADLOCK FALSE
INVARIANTS TakenOnceHasACause UnreadHasACause
