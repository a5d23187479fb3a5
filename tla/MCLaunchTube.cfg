SPECIFICATION Spec
CONSTANTS
    processing = processing
    console = console
    s1 = s1
    t1 = t1
    r1 = r1
    r2 = r2
    None = None
    NoInfo = NoInfo
    NoRoute = NoRoute
    NoPlan = NoPlan
    Callers <- MCCallers
    Routes <- MCNoRoutes
    Ships <- MCShips
    Targets <- MCTargets
INVARIANTS
    TypeOK
    OwnShipReachesTube
    TargetReachesTube
CHECK_DEADLOCK FALSE
