SPECIFICATION LiveSpec
CONSTANTS
    t1 = t1
    t2 = t2
    b1 = b1
    outer = outer
    inner = inner
    session = session
    Tasks = {t1}
    Bridges = {b1}
    Resources = {outer, session}
    Local = Local
    NoTask = NoTask
    NoResource = NoResource
    Overlaps <- AllOverlap
    Outliving = {session}
    MaxCrashes = 2
    MaxFaults = 2
INVARIANTS
    LiveTurnHoldsFolder
    SettledMeansEnded
PROPERTIES
    UncertaintyIsKept
    
CHECK_DEADLOCK FALSE
