SPECIFICATION Spec
CONSTANTS
    t1 = t1
    t2 = t2
    b1 = b1
    outer = outer
    inner = inner
    session = session
    Tasks = {t1, t2}
    Bridges = {b1}
    Resources = {outer, inner}
    Local = Local
    NoTask = NoTask
    NoResource = NoResource
    Overlaps <- AllOverlap
    Outliving = {}
    MaxCrashes = 1
    MaxFaults = 0
INVARIANTS
    ObservedRunHoldsFolder
SYMMETRY Symmetric
CHECK_DEADLOCK FALSE
