SPECIFICATION FairSpec
CONSTANTS
    JobIds = {j1, j2}
    Clients = {k1, k2}
    FullJobs = {f1}
    Calls = {c1}
    Subtasks = {s1}
    MaxJobs = 1
    MaxActions = 1
    MaxFaults = 1
    None = None
CHECK_DEADLOCK FALSE
INVARIANTS JobsAreAccountedFor
PROPERTIES SubtasksAreForgotten
