SPECIFICATION Spec
CONSTANTS
    t1 = t1
    t2 = t2
    b1 = b1
    outer = outer
    inner = inner
    session = session
    Tasks = {t1, t2}
    Bridges = {b1}
    Resources = {outer, session}
    Local = Local
    NoTask = NoTask
    NoResource = NoResource
    Overlaps <- AllOverlap
    Outliving = {session}
    MaxCrashes = 1
    MaxFaults = 0
INVARIANTS
    TypeOK
    PurgedStaysGone
PROPERTIES
    LaunchedAlone
    StopWins
SYMMETRY Symmetric
CHECK_DEADLOCK FALSE
