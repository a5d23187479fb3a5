\* The handler may wait for itself, and a stopped system stops.
CONSTANTS
    t1 = t1
    Tubes <- MCTubes
    Commands <- MCCommands
    Notices <- MCNotices
    NoMessage = NoMessage
    MaxMessages = 2
    MaxSignals = 1
SPECIFICATION Spec
INVARIANTS TypeOK TubesClearedLast CleanStop StatisticsAddUp RepliesDroppedLate
PROPERTY StopEnds
CHECK_DEADLOCK FALSE
