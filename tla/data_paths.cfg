INIT Init
NEXT Next
CONSTANTS
    Tools = {"safe", "gated"}
    Gated = {"gated"}
    LongReplies <- MCLongReplies
    ShortReplies <- MCShortReplies
    MAX_TOOL_ITERATIONS = 3
    MaxMessages = 7
    Us = "us"
    Junk = {"junk"}
    AllowedSenders = {"alice", "junk", "us"}
    Mails <- MCMails
    TriageReplies <- MCTriageReplies
    Suggestions <- MCSuggestions
    MaxSuggestions = 2
    FeedAgents = {"a", "b"}
    TodoOf <- MCTodoOf
    Watched = "t1"
    Capacity = 2
    MAX_LOG_FILES = 1
    Scenarios <- MCScenarios
    ThreadIds = {"id"}
    PageLimit = 2
    Sittings <- MCSittings
    Models <- MCModels
    Price <- MCPrice
    LocalModels = {"llama3"}
    DefaultPrice = 3
    LlmErrors = {"RateLimited", "AuthFailed"}
    Answers = {"empty", "truncated", "ROUTINE_OK", "text with ROUTINE_OK", "text"}
    NotifyConfigs <- MCNotify
    Tokens = {1}
    MaxTime = 1
    CallBudgets <- MCBudgets
    Null = Null
    CreateParams <- MCCreateParams
    UpdateParams <- MCUpdateParams
    BadSchedules = {"bad"}
    Hands = {"x", "y"}
    MaxRowSteps = 3
    Limit = 100
    KeepTruncated = 1
    KeepSummarized = 2
    KeepMoved = 3
    Inputs = {4, 20}
    Replies = {Silence, 10}
    Silence = Silence
    MaxTurns = 6
CHECK_DEADLOCK FALSE
INVARIANTS ResultsMatchCalls ShownIsTheVisibleText PhoneShowsTheFeed
    FeedTellsTheRun LogReadsBack SpendIsAccountedFor RoutineReadsBack CompactionKeepsTrack
PROPERTIES CardKeepsContents
