SPECIFICATION FairSpec
CONSTANTS
    processing = processing
    console = console
    s1 = s1
    t1 = t1
    r1 = r1
    r2 = r2
    None = None
    NoInfo = NoInfo
    NoRoute = NoRoute
    NoPlan = NoPlan
    Callers <- MCOneCaller
    Routes <- MCRoutes
    Ships <- MCNoShips
    Targets <- MCTargets
INVARIANTS
    CallersFindTube
PROPERTIES
    LaunchShows
    PlanFollowsWaypoints
CHECK_DEADLOCK FALSE
