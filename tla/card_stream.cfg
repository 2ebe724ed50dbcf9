SPECIFICATION Spec
CONSTANTS
    Cards = {q1, c1}
    Questions = {q1}
    Capacity = 2
    MaxUp = 1
    MaxDrops = 1
    MaxRefines = 1
    None = None
CHECK_DEADLOCK FALSE
INVARIANTS CardListHasACause AnswerReachesAsker
