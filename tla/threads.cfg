SPECIFICATION FairSpec
CHECK_DEADLOCK FALSE
CONSTANTS
    Ext = {"low"}
    Parse <- MCParse
    Canon <- MCCanon
    Fresh = {f1, f2}
    Sess = {s1, s2}
    Calls = {"read", "sh", "rm"}
    Gated = {"sh", "rm"}
    Explicit = {"rm"}
    ToolOf <- MCToolOf
    Batches <- MCBatches
    Keeps = {1}
    MaxCheckpoints = 1
    MaxIter = 2
    NudgeBefore = 2
    MaxInputs = 2
    MaxReqs = 1
    MaxRedo = 1
    Budget = 1
    NoThread = NoThread
    NoSess = NoSess
    NoExt = NoExt
    NoCall = NoCall
INVARIANTS RevokedNeverRuns NeverLeftProcessing PromptIsAnswerable HistoryIsRight
PROPERTIES TurnsMoveForward
