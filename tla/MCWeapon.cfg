SPECIFICATION FairSpec
CONSTANTS
    console = console
    processing = processing
    NoCaller = NoCaller
    Callers <- MCCallers
    LaunchSteps = 2
INVARIANTS
    TypeOK
    LaunchSerialised
    LaunchNeedsFireSolution
    AbortNeverTaken
PROPERTIES
    LaunchStartsFromRTL
    LaunchedIsPermanent
    MutexReleased
    PowerOnBecomesReady
    ImplementsFireControl
