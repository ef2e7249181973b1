SPECIFICATION Spec
CONSTANTS
    CONNECTED_CACHE = 6
    READY_CACHE = 1
    MaxTime = 20
INVARIANTS
    AnswerIsRecent
