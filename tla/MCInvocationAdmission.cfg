SPECIFICATION LiveSpec
CONSTANTS
    Tasks = {t1}
    Bridges = {b1}
    NoBridge = NoBridge
    MAX_PENDING_REVIEWS_PER_BRIDGE = 1
    INVOCATION_REVIEW_TTL = 1
    BridgeEnd = 2
    MaxTime = 2
    MaxSessions = 2
    MaxDisturbances = 2
INVARIANTS
    ReviewsMatchQueuedTasks
    RunsAtMostOnce
    EndedGrantStopsItsTasks
PROPERTIES
    
    ReviewsEnd
CHECK_DEADLOCK FALSE
